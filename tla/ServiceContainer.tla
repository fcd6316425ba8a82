--------------------------- MODULE ServiceContainer ---------------------------
(***************************************************************************)
(* The life cycle of ServiceContainers in one process: the default         *)
(* container, the bounded tenant registry, bootstrap with its background   *)
(* sync worker, close(), the weakref finalizer that every container arms   *)
(* at construction, and the interpreter's exit hooks.                      *)
(*                                                                         *)
(* A container owns four components with a background part, torn down in   *)
(* this order: sync worker, executor, telemetry bus, schema storage.  The  *)
(* first and the third are kept, since a start can race with the first and *)
(* a flush is asked of the third; how each of the four stops is the        *)
(* business of its own module.  Containers are numbered in the order they  *)
(* are built.                                                              *)
(***************************************************************************)
EXTENDS Naturals, Sequences, SequencesExt, FiniteSets

CONSTANTS Threads,         \* application threads
          Tenants,         \* tenant|project keys
          MaxTenants,      \* _MAX_TENANTS
          MaxContainers,   \* bound: containers built in a behaviour
          Default,         \* the "tenant" of containers built by get_default
          FinalizersHooked \* weakref.finalize was used before the first container

ASSUME ContainerAssumption ==
  /\ MaxTenants \in Nat \ {0} /\ MaxContainers \in Nat
  /\ Default \notin Tenants /\ FinalizersHooked \in BOOLEAN

VARIABLES tenant,        \* tenant[i] is what the i-th container was built for
          closed,        \* containers with _closed set
          complete,      \* containers with _close_complete set
          finalizer,     \* state of each container's finalizer
          finalizing,    \* components its finalizer has still to stop
          down,          \* how many components have been stopped, in order
          drained,       \* containers whose bus was asked to flush when stopped
          sync,          \* the thread of each container's sync worker
          syncStop,      \* containers whose sync worker's stop event is set
          default,       \* _default_instance, 0 for None
          registry,      \* _tenant_registry: containers, least recent first
          pc,            \* where each application thread is
          held,          \* the container each thread has a reference to, or 0
          work,          \* containers a thread's reset_default or close still closes
          left,          \* components its teardown has still to stop
          hooks,         \* the atexit stack: 0 for all finalizers, n for bus n's hook
          exiting        \* the interpreter is exiting

regVars == <<default, registry>>
lifeVars == <<tenant, closed, complete, finalizer, finalizing, down, drained>>
syncVars == <<sync, syncStop>>
threadVars == <<pc, held, work, left>>
exitVars == <<hooks, exiting>>
vars == <<regVars, lifeVars, syncVars, threadVars, exitVars>>

Components == 2      \* the sync worker, then the bus
Built == 1..Len(tenant)
Open(n) == n # 0 /\ n \notin closed

PCs == {"idle", "peeked", "resetting", "closing", "detaching", "tearing",
        "waiting", "booting", "starting"}

TypeOK ==
  /\ tenant \in Seq(Tenants \cup {Default}) /\ Len(tenant) <= MaxContainers
  /\ closed \subseteq Built /\ complete \subseteq closed /\ drained \subseteq Built
  /\ finalizer \in [Built -> {"armed", "detached", "fired"}]
  /\ finalizing \in [Built -> 0..Components]
  /\ down \in [Built -> 0..Components]
  /\ sync \in [Built -> {"none", "alive", "ended"}]
  /\ syncStop \subseteq Built
  /\ default \in Built \cup {0}
  /\ registry \in Seq(Built) /\ Len(registry) <= MaxTenants
  /\ \A i, j \in DOMAIN registry : tenant[registry[i]] = tenant[registry[j]] => i = j
  /\ pc \in [Threads -> PCs]
  /\ held \in [Threads -> Built \cup {0}]
  /\ work \in [Threads -> Seq(Built)]
  /\ left \in [Threads -> 0..Components]
  /\ hooks \in Seq(Built \cup {0})
  /\ exiting \in BOOLEAN

Init ==
  /\ tenant = <<>>
  /\ closed = {} /\ complete = {} /\ drained = {}
  /\ finalizer = <<>> /\ finalizing = <<>> /\ down = <<>>
  /\ sync = <<>> /\ syncStop = {}
  /\ default = 0 /\ registry = <<>>
  /\ pc = [t \in Threads |-> "idle"]
  /\ held = [t \in Threads |-> 0]
  /\ work = [t \in Threads |-> <<>>]
  /\ left = [t \in Threads |-> 0]
  /\ hooks = IF FinalizersHooked THEN <<0>> ELSE <<>>
  /\ exiting = FALSE

\* Something the interpreter can reach refers to the container.
Reachable(n) ==
  \/ n = default
  \/ n \in ToSet(registry)
  \/ \E t \in Threads : held[t] = n \/ n \in ToSet(work[t])

-----------------------------------------------------------------------------
(* Construction.                                                           *)

\* ServiceContainer(config): the graph is complete, bus and sweeper run, and last
\* of all the finalizer is armed.  The first finalizer of the process puts the
\* hook that runs them all on the exit stack, above the bus's own.
Build(n, key) ==
  /\ Len(tenant) < MaxContainers
  /\ n = Len(tenant) + 1
  /\ tenant' = Append(tenant, key)
  /\ finalizer' = Append(finalizer, "armed")
  /\ finalizing' = Append(finalizing, 0)
  /\ down' = Append(down, 0)
  /\ sync' = Append(sync, "none")
  /\ hooks' = Append(hooks, n) \o (IF 0 \in ToSet(hooks) THEN <<>> ELSE <<0>>)
  /\ UNCHANGED <<closed, complete, drained, syncStop>>

\* The constructor raises and has rolled back whatever it had started.
BuildFails == UNCHANGED <<lifeVars, syncVars, hooks>>

\* get_default without the lock: the cached instance, or else...
GetCached(t) ==
  /\ pc[t] = "idle"
  /\ IF Open(default)
       THEN held' = [held EXCEPT ![t] = default] /\ UNCHANGED pc
       ELSE pc' = [pc EXCEPT ![t] = "peeked"] /\ UNCHANGED held
  /\ UNCHANGED <<work, left, regVars, lifeVars, syncVars, exitVars>>

\* ... a second look and the construction, under the lock.
GetDefault(t) ==
  /\ pc[t] = "peeked"
  /\ pc' = [pc EXCEPT ![t] = "idle"]
  /\ \/ /\ Open(default)
        /\ held' = [held EXCEPT ![t] = default]
        /\ UNCHANGED <<default, lifeVars, syncVars, hooks>>
     \/ /\ ~Open(default)
        /\ Build(Len(tenant) + 1, Default)
        /\ default' = Len(tenant) + 1
        /\ held' = [held EXCEPT ![t] = Len(tenant) + 1]
     \/ ~Open(default) /\ BuildFails /\ UNCHANGED <<default, held>>
  /\ UNCHANGED <<registry, work, left, exiting>>

Registered(key) == {n \in ToSet(registry) : tenant[n] = key}
\* The registry without the one entry of a key, when it has one.
Without(key) ==
  LET places == {i \in DOMAIN registry : tenant[registry[i]] = key}
  IN  IF places = {} THEN registry ELSE RemoveAt(registry, CHOOSE i \in places : TRUE)

\* The registry once an entry has been evicted if it was full.
Evict(reg) == IF Len(reg) >= MaxTenants THEN Tail(reg) ELSE reg

\* for_tenant, under the tenant lock: a registered open container becomes the most
\* recent; otherwise a closed one is forgotten, the least recently looked-up entry
\* makes room, and only then the constructor runs, which may raise.
ForTenant(t, key) ==
  /\ pc[t] = "idle"
  /\ LET live == {n \in Registered(key) : Open(n)} IN
     \/ \E n \in live :
          /\ registry' = Append(Without(key), n)
          /\ held' = [held EXCEPT ![t] = n]
          /\ UNCHANGED <<lifeVars, syncVars, hooks>>
     \/ /\ live = {}
        /\ Build(Len(tenant) + 1, key)
        /\ registry' = Append(Evict(Without(key)), Len(tenant) + 1)
        /\ held' = [held EXCEPT ![t] = Len(tenant) + 1]
     \/ /\ live = {}
        /\ BuildFails
        /\ registry' = Evict(Without(key))
        /\ UNCHANGED held
  /\ UNCHANGED <<default, pc, work, left, exiting>>

\* The thread forgets its container.
Drop(t) ==
  /\ pc[t] = "idle"
  /\ held[t] # 0
  /\ held' = [held EXCEPT ![t] = 0]
  /\ UNCHANGED <<pc, work, left, regVars, lifeVars, syncVars, exitVars>>

-----------------------------------------------------------------------------
(* bootstrap and the sync worker.                                          *)

\* bootstrap: ensure_open, then the first sync pass, of any length.
Bootstrap(t) ==
  /\ pc[t] = "idle"
  /\ Open(held[t])
  /\ pc' = [pc EXCEPT ![t] = "booting"]
  /\ UNCHANGED <<held, work, left, regVars, lifeVars, syncVars, exitVars>>

\* start_background_sync: the second ensure_open, which may raise.
EnsureOpen(t) ==
  /\ pc[t] = "booting"
  /\ pc' = [pc EXCEPT ![t] = IF Open(held[t]) THEN "starting" ELSE "idle"]
  /\ UNCHANGED <<held, work, left, regVars, lifeVars, syncVars, exitVars>>

\* Mutant: a stopped worker can be started.
StartStopped(t) ==
  /\ pc[t] = "starting"
  /\ pc' = [pc EXCEPT ![t] = "idle"]
  /\ sync' = [sync EXCEPT ![held[t]] = "alive"]
  /\ syncStop' = syncStop \ {held[t]}
  /\ UNCHANGED <<held, work, left, regVars, lifeVars, exitVars>>

\* BackgroundSyncWorker.start, under the worker's lock: a stopped worker raises, a
\* running one is left alone.
StartSync(t) ==
  /\ pc[t] = "starting"
  /\ pc' = [pc EXCEPT ![t] = "idle"]
  /\ LET n == held[t] IN
       IF down[n] = 0 /\ sync[n] \in {"none", "ended"}
         THEN sync' = [sync EXCEPT ![n] = "alive"] /\ syncStop' = syncStop \ {n}
         ELSE UNCHANGED syncVars
  /\ UNCHANGED <<held, work, left, regVars, lifeVars, exitVars>>

\* _run_loop ends when it finds the stop event set, which may be a whole sync pass
\* after stop() has set it.
SyncEnds(n) ==
  /\ sync[n] = "alive"
  /\ n \in syncStop
  /\ sync' = [sync EXCEPT ![n] = "ended"]
  /\ UNCHANGED <<syncStop, threadVars, regVars, lifeVars, exitVars>>

-----------------------------------------------------------------------------
(* Teardown: _teardown_components stops one component after another.  Each *)
(* stop is idempotent, waits a bounded time at most, and an exception in   *)
(* one of them is suppressed.                                              *)

Max2(a, b) == IF a >= b THEN a ELSE b

\* The next component, when there are k left to stop.
StopOne(n, k, drain) ==
  LET i == Components - k + 1 IN
    /\ down' = [down EXCEPT ![n] = Max2(@, i)]
    /\ syncStop' = IF i = 1 THEN syncStop \cup {n} ELSE syncStop
    /\ drained' = IF i = 2 /\ drain THEN drained \cup {n} ELSE drained
    /\ hooks' = IF i = 2 THEN SelectSeq(hooks, LAMBDA h : h # n) ELSE hooks

\* close() of the container the thread holds.
Close(t) ==
  /\ pc[t] = "idle"
  /\ held[t] # 0
  /\ work' = [work EXCEPT ![t] = <<held[t]>>]
  /\ pc' = [pc EXCEPT ![t] = "closing"]
  /\ UNCHANGED <<held, left, regVars, lifeVars, syncVars, exitVars>>

\* reset_default takes the default container under one lock...
ResetDefault(t) ==
  /\ pc[t] = "idle"
  /\ work' = [work EXCEPT ![t] = IF default = 0 THEN <<>> ELSE << default >>]
  /\ default' = 0
  /\ pc' = [pc EXCEPT ![t] = "resetting"]
  /\ UNCHANGED <<registry, held, left, lifeVars, syncVars, exitVars>>

\* ... and the tenants under the other, then closes them one by one.
ResetTenants(t) ==
  /\ pc[t] = "resetting"
  /\ work' = [work EXCEPT ![t] = @ \o registry]
  /\ registry' = <<>>
  /\ pc' = [pc EXCEPT ![t] = IF work[t] \o registry = <<>> THEN "idle" ELSE "closing"]
  /\ UNCHANGED <<default, held, left, lifeVars, syncVars, exitVars>>

\* The thread is done with the first container of its work.
NextWork(t) ==
  /\ work' = [work EXCEPT ![t] = Tail(@)]
  /\ pc' = [pc EXCEPT ![t] = IF Len(work[t]) = 1 THEN "idle" ELSE "closing"]

\* The locked part of close().
BeginClose(t) ==
  /\ pc[t] = "closing"
  /\ LET n == Head(work[t]) IN
     \/ /\ Open(n)
        /\ closed' = closed \cup {n}
        /\ pc' = [pc EXCEPT ![t] = "detaching"]
        /\ UNCHANGED work
     \/ /\ n \in complete
        /\ NextWork(t)
        /\ UNCHANGED closed
     \/ /\ n \in closed \ complete
        /\ pc' = [pc EXCEPT ![t] = "waiting"]
        /\ UNCHANGED <<work, closed>>
  /\ UNCHANGED <<tenant, complete, finalizer, finalizing, down, drained, held, left,
                 regVars, syncVars, exitVars>>

\* Mutant: close() leaves the finalizer armed.
DetachForgotten(t) ==
  /\ pc[t] = "detaching"
  /\ pc' = [pc EXCEPT ![t] = "tearing"]
  /\ left' = [left EXCEPT ![t] = Components]
  /\ UNCHANGED <<lifeVars, held, work, regVars, syncVars, exitVars>>

\* finalizer.detach(): it will not run, unless the exit hook got to it first.
Detach(t) ==
  /\ pc[t] = "detaching"
  /\ LET n == Head(work[t]) IN
       finalizer' = [finalizer EXCEPT ![n] = IF @ = "armed" THEN "detached" ELSE @]
  /\ pc' = [pc EXCEPT ![t] = "tearing"]
  /\ left' = [left EXCEPT ![t] = Components]
  /\ UNCHANGED <<tenant, closed, complete, finalizing, down, drained, held, work,
                 regVars, syncVars, exitVars>>

\* The last stop is followed by _close_complete.set(), and close() returns.
TearDown(t) ==
  /\ pc[t] = "tearing"
  /\ StopOne(Head(work[t]), left[t], TRUE)
  /\ left' = [left EXCEPT ![t] = @ - 1]
  /\ IF left[t] = 1
       THEN complete' = complete \cup {Head(work[t])} /\ NextWork(t)
       ELSE UNCHANGED <<complete, work, pc>>
  /\ UNCHANGED <<tenant, closed, finalizer, finalizing, sync, held, regVars, exiting>>

\* A second close() waits for the first, eight seconds at most.
EndWait(t) ==
  /\ pc[t] = "waiting"
  /\ NextWork(t)
  /\ UNCHANGED <<held, left, regVars, lifeVars, syncVars, exitVars>>

-----------------------------------------------------------------------------
(* The finalizer: run by the interpreter when the container has become     *)
(* unreachable, or at exit.                                                *)

Fire(n) ==
  /\ finalizer[n] = "armed"
  /\ finalizer' = [finalizer EXCEPT ![n] = "fired"]
  /\ finalizing' = [finalizing EXCEPT ![n] = Components]
  /\ UNCHANGED <<tenant, closed, complete, down, drained, syncVars, threadVars,
                 regVars, exitVars>>

\* Mutant: a container that leaves the registry is torn down, whoever holds it.
CollectEvicted(n) == n # default /\ n \notin ToSet(registry) /\ Fire(n)

Collect(n) == ~Reachable(n) /\ Fire(n)

Finalize(n) ==
  /\ finalizing[n] > 0
  /\ StopOne(n, finalizing[n], FALSE)
  /\ finalizing' = [finalizing EXCEPT ![n] = @ - 1]
  /\ UNCHANGED <<tenant, closed, complete, finalizer, sync, threadVars, regVars,
                 exiting>>

-----------------------------------------------------------------------------
(* Interpreter exit: the hooks run last registered first.                  *)

Exit ==
  /\ ~exiting
  /\ exiting' = TRUE
  /\ UNCHANGED <<hooks, lifeVars, syncVars, threadVars, regVars>>

\* A bus's hook asks for a flush.
RunBusHook ==
  /\ exiting /\ hooks # <<>> /\ Last(hooks) # 0
  /\ drained' = drained \cup {Last(hooks)}
  /\ hooks' = Front(hooks)
  /\ UNCHANGED <<tenant, closed, complete, finalizer, finalizing, down, syncVars,
                 threadVars, regVars, exiting>>

\* The finalizers' hook runs those still armed, the last created first.
Armed == {n \in Built : finalizer[n] = "armed"}

RunFinalizers ==
  /\ exiting /\ hooks # <<>> /\ Last(hooks) = 0
  /\ \A n \in Built : finalizing[n] = 0
  /\ IF Armed # {}
       THEN Fire(CHOOSE n \in Armed : \A m \in Armed : m <= n)
       ELSE /\ hooks' = Front(hooks)
            /\ UNCHANGED <<lifeVars, syncVars, threadVars, regVars, exiting>>

-----------------------------------------------------------------------------
AppThread(t) ==
  \/ GetCached(t) \/ GetDefault(t)
  \/ \E key \in Tenants : ForTenant(t, key)
  \/ Drop(t)
  \/ Bootstrap(t) \/ EnsureOpen(t) \/ StartSync(t)
  \/ Close(t) \/ ResetDefault(t)

\* What a thread does once it has entered close() or reset_default().
Closing(t) ==
  ResetTenants(t) \/ BeginClose(t) \/ Detach(t) \/ TearDown(t) \/ EndWait(t)

Next ==
  \/ \E t \in Threads : AppThread(t) \/ Closing(t)
  \/ \E n \in Built : SyncEnds(n) \/ Collect(n) \/ Finalize(n)

Spec == Init /\ [][Next]_vars

\* The same with an interpreter that exits while threads go on.
ExitNext == Next \/ Exit \/ RunBusHook \/ RunFinalizers

ExitSpec == Init /\ [][ExitNext]_vars

\* Threads that are closing go on, the sync thread runs (a pass ends, its HTTP
\* calls have timeouts), and the interpreter runs the finalizers of containers
\* nothing refers to.
Fairness ==
  /\ \A t \in Threads : WF_vars(Closing(t))
  /\ \A n \in 1..MaxContainers : /\ WF_vars(n \in Built /\ SyncEnds(n))
                                 /\ WF_vars(n \in Built /\ Collect(n))
                                 /\ WF_vars(n \in Built /\ Finalize(n))

FairSpec == Spec /\ Fairness

-----------------------------------------------------------------------------
(* Properties.                                                             *)

\* Eviction and finalizers never tear down a container somebody can still use: as
\* long as a container is open and anything refers to it, all its components run.
NeverTornInUse ==
  \A n \in Built : Open(n) /\ Reachable(n) => down[n] = 0

\* A container is torn down by close() or by its finalizer, never by both.
TornOnce ==
  \A n \in closed : finalizer[n] # "fired"

\* A container that was closed, or that nothing refers to, is completely torn down
\* and stays so: a bootstrap that raced with close() has not left a sync thread
\* behind, nor started one later.
Gone(n) == n \in Built => down[n] = Components /\ sync[n] \in {"none", "ended"}
LetGo(n) == n \in Built /\ (n \in closed \/ ~Reachable(n))

TornDownForGood ==
  \A n \in 1..MaxContainers : LetGo(n) ~> []Gone(n)

\* Module docstring of the event bus: "an atexit hook flushes any remaining events
\* first", so when the exit hooks have run every bus has been asked to flush.
FlushedAtExit ==
  exiting /\ hooks = <<>> =>
    \A n \in Built : Reachable(n) /\ Open(n) => n \in drained
=============================================================================
