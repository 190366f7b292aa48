---------------------------- MODULE SqlPoolCache ----------------------------
(***************************************************************************)
(* The pool cache of the SQL drivers for one saved connection: requests    *)
(* pin a generation, share the pool that was built under it, and one of    *)
(* them builds it behind a lock of that generation; saving the connection  *)
(* and retrying a failed read evict the generation at any moment. The      *)
(* MongoDB client cache follows the same protocol.                         *)
(*                                                                         *)
(* Requests run on worker threads and evictions in the caller's, so each   *)
(* access to one of the concurrent maps is a step of its own.              *)
(***************************************************************************)
EXTENDS Naturals, FiniteSets

CONSTANTS
  Requests,   \* requests for a pool; one that is done can start again
  UI,         \* the thread that saves the connection and closes its tabs
  MaxClock,   \* bound: generations handed out; nothing is evicted after the last
  MaxSaves,   \* bound: how often the configuration is saved again
  LatePin,    \* can the connection be saved before a request pinned anything?
  MayFail,    \* can a pool fail to be built, or the query fail on it?
  None

Evictors == Requests \cup {UI}
Pool == [gen : Nat, config : Nat]
Lock == Nat \X BOOLEAN

ASSUME BoundAssumption == MaxClock \in Nat /\ MaxSaves \in Nat /\ MayFail \in BOOLEAN
                          /\ LatePin \in BOOLEAN
ASSUME NameAssumption ==
  /\ UI \notin Requests
  /\ None \notin Pool
  /\ None \notin Lock

VARIABLES
  saved,       \* revision of the saved configuration
  generation,  \* generations[id], 0 when there is no entry
  clock,       \* generation_clock
  cached,      \* pools[id]
  locks,       \* build_locks, see BuildLock
  held,        \* the build locks that are held
  req,         \* the requests
  ev           \* the evictions under way

vars == <<saved, generation, clock, cached, locks, held, req, ev>>

Fresh == [pc |-> "done", config |-> 0, gen |-> 0, lock |-> None, pool |-> None,
          retried |-> FALSE]
Quiet == [pc |-> "idle", gen |-> 0]

Waiting == {"pin", "get", "lock", "wait"}
Locked == {"check", "reget", "own", "build", "insert", "store", "settle"}

At(r, pc) == req[r].pc = pc
Step(r, pc) == req' = [req EXCEPT ![r].pc = pc]
IsCurrent(g) == generation = g

(***************************************************************************)
(* A request                                                               *)
(***************************************************************************)

\* A read is sent with the configuration its tab was opened with.
Start(r) ==
  /\ At(r, "done")
  /\ ev[UI].pc = "idle"
  /\ req' = [req EXCEPT ![r] = [Fresh EXCEPT !.pc = "pin", !.config = saved]]
  /\ UNCHANGED <<saved, generation, clock, cached, locks, held, ev>>

\* generation_for_request: the entry's generation, or a new entry's.
Pin(r) ==
  /\ At(r, "pin")
  /\ LET g == IF generation # 0 THEN generation ELSE clock + 1
     IN /\ generation' = g
        /\ clock' = IF generation # 0 THEN clock ELSE clock + 1
        /\ req' = [req EXCEPT ![r].pc = "get", ![r].gen = g]
  /\ UNCHANGED <<saved, cached, locks, held, ev>>

\* Mutant: any cached pool will do.
HitAnything(r) == cached # None

\* get: only a pool of the request's own generation.
Hit(r) == cached # None /\ cached.gen = req[r].gen

Get(r) ==
  /\ At(r, "get")
  /\ req' = IF Hit(r) THEN [req EXCEPT ![r].pc = "query", ![r].pool = cached]
                      ELSE [req EXCEPT ![r].pc = "lock"]
  /\ UNCHANGED <<saved, generation, clock, cached, locks, held, ev>>

\* The locks of a generation are dropped from the map once, by its eviction.
\* A lock is named by its generation and by whether it was made after that.
LocksDropped(g) == g # generation /\ \A e \in Evictors : ~(ev[e].pc = "locks" /\ ev[e].gen = g)

\* build_lock: the lock in the map, or a new one.
BuildLock(r) ==
  /\ At(r, "lock")
  /\ LET g == req[r].gen
         known == {l \in locks : l[1] = g}
         lock == IF known # {} THEN CHOOSE l \in known : TRUE ELSE <<g, LocksDropped(g)>>
     IN /\ locks' = locks \cup {lock}
        /\ req' = [req EXCEPT ![r].pc = "wait", ![r].lock = lock]
  /\ UNCHANGED <<saved, generation, clock, cached, held, ev>>

\* Mutant: a lock of the same generation does not exclude.
AcquireBusy(r) ==
  /\ At(r, "wait")
  /\ held' = held \cup {req[r].lock}
  /\ Step(r, "check")
  /\ UNCHANGED <<saved, generation, clock, cached, locks, ev>>

Acquire(r) ==
  /\ At(r, "wait")
  /\ req[r].lock \notin held
  /\ held' = held \cup {req[r].lock}
  /\ Step(r, "check")
  /\ UNCHANGED <<saved, generation, clock, cached, locks, ev>>

\* Evicted while it waited: the request builds a pool for itself.
Check(r) ==
  /\ At(r, "check")
  /\ Step(r, IF IsCurrent(req[r].gen) THEN "reget" ELSE "own")
  /\ UNCHANGED <<saved, generation, clock, cached, locks, held, ev>>

\* Mutant: the guard outlives the call.
LeaveLocked(r, pool) ==
  /\ UNCHANGED held
  /\ req' = [req EXCEPT ![r].pc = IF pool = None THEN "failed" ELSE "query",
                        ![r].pool = pool, ![r].lock = None]

\* Leaving get_pool with a pool, or without one, drops the lock's guard.
LeaveWith(r, pool) ==
  /\ held' = held \ {req[r].lock}
  /\ req' = [req EXCEPT ![r].pc = IF pool = None THEN "failed" ELSE "query",
                        ![r].pool = pool, ![r].lock = None]

\* Waiting for the lock another request may have built the pool.
Reget(r) ==
  /\ At(r, "reget")
  /\ IF Hit(r) THEN LeaveWith(r, cached) ELSE Step(r, "build") /\ UNCHANGED held
  /\ UNCHANGED <<saved, generation, clock, cached, locks, ev>>

\* Mutant: the pool does not say what generation it is of.
BuiltUntagged(r) == [config |-> req[r].config]

Built(r) == [gen |-> req[r].gen, config |-> req[r].config]

BuildOwn(r) ==
  /\ At(r, "own")
  /\ LeaveWith(r, Built(r)) \/ (MayFail /\ LeaveWith(r, None))
  /\ UNCHANGED <<saved, generation, clock, cached, locks, ev>>

Build(r) ==
  /\ At(r, "build")
  /\ \/ Step(r, "insert") /\ UNCHANGED held
     \/ MayFail /\ LeaveWith(r, None)
  /\ UNCHANGED <<saved, generation, clock, cached, locks, ev>>

\* insert: nothing is stored for a generation that is no longer current,
InsertCheck(r) ==
  /\ At(r, "insert")
  /\ IF IsCurrent(req[r].gen) THEN Step(r, "store") /\ UNCHANGED held
                              ELSE LeaveWith(r, Built(r))
  /\ UNCHANGED <<saved, generation, clock, cached, locks, ev>>

\* an entry of a newer generation is left alone,
Store(r) ==
  /\ At(r, "store")
  /\ IF cached # None /\ cached.gen > req[r].gen
     THEN LeaveWith(r, Built(r)) /\ UNCHANGED cached
     ELSE cached' = Built(r) /\ Step(r, "settle") /\ UNCHANGED held
  /\ UNCHANGED <<saved, generation, clock, locks, ev>>

\* Mutant: insert does not look again after it has stored.
SettleBlindly(r) ==
  /\ At(r, "settle")
  /\ LeaveWith(r, Built(r))
  /\ UNCHANGED <<saved, generation, clock, cached, locks, ev>>

\* and what was stored is taken back if an eviction came in between. The
\* generation, once gone, stays gone, so looking and removing are one step.
Settle(r) ==
  /\ At(r, "settle")
  /\ LeaveWith(r, Built(r))
  /\ cached' = IF ~IsCurrent(req[r].gen) /\ cached # None /\ cached.gen = req[r].gen
               THEN None ELSE cached
  /\ UNCHANGED <<saved, generation, clock, locks, ev>>

\* The query succeeds, or fails for good.
QueryEnds(r) ==
  /\ At(r, "query")
  /\ req' = [req EXCEPT ![r] = Fresh]
  /\ UNCHANGED <<saved, generation, clock, cached, locks, held, ev>>

\* The query could not reach the server.
QueryFails(r) ==
  /\ MayFail
  /\ At(r, "query")
  /\ req' = [req EXCEPT ![r].pc = "failed", ![r].pool = None]
  /\ UNCHANGED <<saved, generation, clock, cached, locks, held, ev>>

(***************************************************************************)
(* Eviction                                                                *)
(***************************************************************************)

\* evict takes the generation's entry away; without one it is over.
RemoveGeneration(e) ==
  /\ ev[e].pc = "idle"
  /\ clock < MaxClock
  /\ generation' = 0
  /\ ev' = IF generation = 0 THEN ev ELSE [ev EXCEPT ![e] = [pc |-> "locks", gen |-> generation]]

DropLocks(e) ==
  /\ ev[e].pc = "locks"
  /\ locks' = {l \in locks : l[1] # ev[e].gen}
  /\ ev' = [ev EXCEPT ![e].pc = "pool"]
  /\ UNCHANGED <<saved, generation, clock, cached, held, req>>

\* Mutant: evict removes whatever pool it finds.
DropAnyPool(e) ==
  /\ ev[e].pc = "pool"
  /\ cached' = None
  /\ ev' = [ev EXCEPT ![e] = Quiet]
  /\ UNCHANGED <<saved, generation, clock, locks, held, req>>

DropPool(e) ==
  /\ ev[e].pc = "pool"
  /\ cached' = IF cached # None /\ cached.gen = ev[e].gen THEN None ELSE cached
  /\ ev' = [ev EXCEPT ![e] = Quiet]
  /\ UNCHANGED <<saved, generation, clock, locks, held, req>>

\* Saving a connection evicts it before the UI thread does anything else.
SaveConfig ==
  /\ saved < MaxSaves
  /\ LatePin \/ \A r \in Requests : At(r, "pin") => req[r].retried
  /\ saved' = saved + 1
  /\ RemoveGeneration(UI)
  /\ UNCHANGED <<clock, cached, locks, held, req>>

\* Closing the last tab of the connection evicts it too.
CloseTab ==
  /\ generation # 0
  /\ RemoveGeneration(UI)
  /\ UNCHANGED <<saved, clock, cached, locks, held, req>>

\* retry_idempotent_read: evict and do it once more, with the same
\* configuration; the second failure is the caller's. (At the bound of the
\* generations the first is: nothing is evicted any more.)
Retry(r) ==
  /\ At(r, "failed")
  /\ ~req[r].retried
  /\ RemoveGeneration(r)
  /\ req' = [req EXCEPT ![r] = [Fresh EXCEPT !.pc = "evicting", !.config = req[r].config,
                                             !.retried = TRUE]]
  /\ UNCHANGED <<saved, clock, cached, locks, held>>

RetryAgain(r) ==
  /\ At(r, "evicting")
  /\ ev[r].pc = "idle"
  /\ Step(r, "pin")
  /\ UNCHANGED <<saved, generation, clock, cached, locks, held, ev>>

GiveUp(r) ==
  /\ At(r, "failed")
  /\ req[r].retried \/ clock = MaxClock
  /\ req' = [req EXCEPT ![r] = Fresh]
  /\ UNCHANGED <<saved, generation, clock, cached, locks, held, ev>>

(***************************************************************************)
(* The specification                                                       *)
(***************************************************************************)

Init ==
  /\ saved = 0
  /\ generation = 0
  /\ clock = 0
  /\ cached = None
  /\ locks = {}
  /\ held = {}
  /\ req = [r \in Requests |-> Fresh]
  /\ ev = [e \in Evictors |-> Quiet]

Request(r) ==
  \/ Pin(r) \/ Get(r) \/ BuildLock(r) \/ Check(r) \/ Reget(r)
  \/ BuildOwn(r) \/ Build(r) \/ InsertCheck(r) \/ Store(r) \/ Settle(r)
  \/ QueryEnds(r) \/ QueryFails(r) \/ Retry(r) \/ RetryAgain(r) \/ GiveUp(r)

Evict(e) == DropLocks(e) \/ DropPool(e)

Next ==
  \/ \E r \in Requests : Start(r) \/ Request(r) \/ Acquire(r)
  \/ \E e \in Evictors : Evict(e)
  \/ SaveConfig \/ CloseTab

Spec == Init /\ [][Next]_vars

\* The worker threads and the evicting threads go on, a build ends (it has
\* timeouts), and the asynchronous mutex serves its waiters in turn. A query
\* may run for ever.
Fairness ==
  /\ \A r \in Requests : WF_vars(~ At(r, "query") /\ Request(r)) /\ SF_vars(Acquire(r))
  /\ \A e \in Evictors : WF_vars(Evict(e))
FairSpec == Spec /\ Fairness

(***************************************************************************)
(* Correctness                                                             *)
(***************************************************************************)

PCs == {"done", "query", "failed", "evicting"} \cup Waiting \cup Locked
Req == [pc : PCs, config : Nat, gen : Nat, lock : Lock \cup {None}, pool : Pool \cup {None},
        retried : BOOLEAN]
Eviction == [pc : {"idle", "locks", "pool"}, gen : Nat]

\* Every variable has its type.
TypeOK ==
  /\ saved \in Nat
  /\ generation \in Nat
  /\ clock \in Nat
  /\ cached \in Pool \cup {None}
  /\ locks \subseteq Lock
  /\ held \subseteq Lock
  /\ req \in [Requests -> Req]
  /\ ev \in [Evictors -> Eviction]

\* Who is about to remove a pool of generation g from the cache.
Removing(g) ==
  \/ \E r \in Requests : At(r, "settle") /\ req[r].gen = g
  \/ \E e \in Evictors : ev[e].pc \in {"locks", "pool"} /\ ev[e].gen = g

\* An evicted pool does not stay in the cache: whatever way storing a pool
\* and evicting its generation interleave, one of the two removes it.
NoStalePool == cached # None => IsCurrent(cached.gen) \/ Removing(cached.gen)

Building(r) == req[r].pc \in {"build", "insert", "store"}

\* Under one generation that is still current one request at a time builds
\* a pool: the others wait for it and share it.
SingleFlight ==
  \A r, s \in Requests :
    Building(r) /\ Building(s) /\ req[r].gen = req[s].gen /\ IsCurrent(req[r].gen) => r = s

\* No request works on a pool of another generation: before an eviction
\* nobody gets a pool that was asked for after it, nor the other way round.
OwnGeneration ==
  \A r \in Requests : req[r].pool # None => req[r].pool.gen = req[r].gen

\* The cached pool of the current generation is not replaced or lost while
\* that generation is current.
KeptWhileCurrent ==
  [][cached # None /\ IsCurrent(cached.gen) /\ cached' # cached => generation' # generation]_vars

\* All requests of the current generation work on one pool, the cached one.
OneSharedPool ==
  \A r \in Requests : At(r, "query") /\ IsCurrent(req[r].gen) => req[r].pool = cached

Pinned == PCs \ {"done", "pin", "failed", "evicting"}

(***************************************************************************)
(* Removing the three entries one after the other, and storing a pool in   *)
(* three steps, looks as if it were done at once: an eviction takes effect *)
(* when the generation goes, a pool is shared as long as its generation is *)
(* current.                                                                *)
(***************************************************************************)
SharedPool == IF cached # None /\ IsCurrent(cached.gen) THEN cached ELSE None
PinnedGeneration == [r \in Requests |-> IF req[r].pc \in Pinned THEN req[r].gen ELSE 0]
PoolInUse == [r \in Requests |-> req[r].pool]
PoolsOf(g) == [gen : {g}, config : Nat]

Promise == INSTANCE PoolPromise WITH
  epoch <- generation, last <- clock, shared <- SharedPool,
  pin <- PinnedGeneration, using <- PoolInUse

\* The cache implements the promise: however eviction, storing and the
\* look-ups interleave, no request ever sees half an eviction.
EvictsAtOnce == Promise!Spec

\* Generations are handed out once and in order, and none is current again
\* once it is being evicted.
Bounds ==
  /\ generation \in {0, clock}
  /\ cached # None => cached.gen \in 1..clock
  /\ \A l \in locks : l[1] \in 1..clock
  /\ \A r \in Requests : req[r].pc \in Pinned => req[r].gen \in 1..clock
  /\ \A e \in Evictors : ev[e].pc # "idle" => ev[e].gen \in 1..clock /\ ~IsCurrent(ev[e].gen)

\* A request between its wait and its result has a lock of its generation,
\* and alone holds it; a current generation has the one lock it began with.
LockInv ==
  /\ \A r \in Requests : req[r].lock # None <=> req[r].pc \in Locked \cup {"wait"}
  /\ \A r \in Requests : req[r].lock # None => req[r].lock[1] = req[r].gen
  /\ \A r \in Requests : req[r].pc \in Locked => req[r].lock \in held
  /\ \A r, s \in Requests : req[r].pc \in Locked /\ req[s].pc \in Locked
                            /\ req[r].lock = req[s].lock => r = s
  /\ \A l \in locks : IsCurrent(l[1]) => ~l[2]
  /\ \A r \in Requests : req[r].lock # None /\ IsCurrent(req[r].gen) => ~req[r].lock[2]

\* Who builds for the current generation has seen that there is no pool yet,
\* and there still is none; and only a query has a pool.
MissInv ==
  /\ \A r \in Requests : Building(r) /\ IsCurrent(req[r].gen) => ~Hit(r)
  /\ \A r \in Requests : req[r].pool # None => At(r, "query")

\* What the properties above rest on: a lock of the current generation
\* excludes every other builder of it, so a missed pool stays missing.
PoolInv == Bounds /\ LockInv /\ MissInv

\* A request that builds for itself was evicted and stays so; what one has
\* stored is there until it settles or is evicted; a query has a pool.
LateInv ==
  \A r \in Requests :
    /\ At(r, "own") => ~IsCurrent(req[r].gen)
    /\ At(r, "settle") /\ IsCurrent(req[r].gen) => cached = Built(r)
    /\ At(r, "query") => req[r].pool # None

\* Every request gets a pool or an error, whoever evicts meanwhile, builds for
\* it, fails to, or keeps a pool busy: nobody is left waiting for a build lock.
RequestsAnswered == \A r \in Requests : ~At(r, "done") ~> At(r, "query") \/ At(r, "done")

\* "An old pool still points at the old host: it must be discarded, and the
\* next access rebuilds by the new configuration": a request works on a pool
\* of the configuration it was sent with.
FreshConfig ==
  \A r \in Requests : At(r, "query") => req[r].pool.config = req[r].config

\* A generation is pinned only by requests with the saved configuration:
\* nobody retries with an old one, or pins late.
PinsSaved ==
  \A r \in Requests : At(r, "pin") /\ At(r, "get")' => req[r].config = saved

=============================================================================
