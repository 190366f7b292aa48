------------------------- MODULE SqlPoolCache_proofs -------------------------
(***************************************************************************)
(* Proofs about SqlPoolCache, for any number of requests, generations and  *)
(* revisions of the configuration.                                         *)
(*                                                                         *)
(* First what each action does to the fields of the records, then the      *)
(* invariants in the order in which they rest on each other: TypeOK,       *)
(* Bounds, LockInv and MissInv, and from them the properties.              *)
(***************************************************************************)
EXTENDS SqlPoolCache, TLAPS

USE NameAssumption

\* Only the program counter of r changes, to p.
Goes(r, p) ==
  /\ req' \in [Requests -> Req]
  /\ req'[r].pc = p
  /\ req'[r].config = req[r].config /\ req'[r].gen = req[r].gen
  /\ req'[r].lock = req[r].lock /\ req'[r].pool = req[r].pool
  /\ req'[r].retried = req[r].retried
  /\ \A s \in Requests : s # r => req'[s] = req[s]

\* r leaves get_pool with the pool p, None when there is none.
Leaves(r, p) ==
  /\ req' \in [Requests -> Req]
  /\ req'[r].pc = (IF p = None THEN "failed" ELSE "query")
  /\ req'[r].config = req[r].config /\ req'[r].gen = req[r].gen
  /\ req'[r].lock = None /\ req'[r].pool = p
  /\ req'[r].retried = req[r].retried
  /\ held' = held \ {req[r].lock}
  /\ \A s \in Requests : s # r => req'[s] = req[s]

\* Step moves the program counter and nothing else.
LEMMA StepGoes ==
  ASSUME TypeOK, NEW r \in Requests, NEW p \in PCs, Step(r, p)
  PROVE  Goes(r, p)
BY DEF TypeOK, Step, Req, Goes

\* LeaveWith gives the pool to the request and the lock back.
LEMMA LeaveLeaves ==
  ASSUME TypeOK, NEW r \in Requests, NEW p \in Pool \cup {None}, LeaveWith(r, p)
  PROVE  Leaves(r, p)
<1>1. PICK q \in PCs : q = (IF p = None THEN "failed" ELSE "query")
  BY DEF PCs
<1>2. /\ req' = [req EXCEPT ![r].pc = q, ![r].pool = p, ![r].lock = None]
      /\ held' = held \ {req[r].lock}
  BY <1>1 DEF LeaveWith
<1>3. req \in [Requests -> Req]
  BY DEF TypeOK
<1>4. /\ req' \in [Requests -> Req]
      /\ req'[r].pc = q /\ req'[r].lock = None /\ req'[r].pool = p
      /\ req'[r].config = req[r].config /\ req'[r].gen = req[r].gen
      /\ req'[r].retried = req[r].retried
      /\ \A s \in Requests : s # r => req'[s] = req[s]
  BY <1>2, <1>3 DEF Req
<1>5. QED
  BY <1>1, <1>2, <1>4 DEF Leaves

\* What a request builds is a pool of its own generation and configuration.
LEMMA BuiltPool ==
  ASSUME TypeOK, NEW r \in Requests
  PROVE  Built(r) \in Pool /\ Built(r) # None
         /\ Built(r).gen = req[r].gen /\ Built(r).config = req[r].config
BY DEF TypeOK, Req, Built, Pool

\* Only r changes, and stays a request.
Only(r) ==
  /\ req' \in [Requests -> Req]
  /\ \A s \in Requests : s # r => req'[s] = req[s]

\* A request that is done keeps nothing.
LEMMA FreshReq ==
  /\ Fresh \in Req
  /\ Fresh.pc = "done" /\ Fresh.gen = 0 /\ Fresh.lock = None /\ Fresh.pool = None
  /\ Fresh.retried = FALSE
BY DEF Fresh, Req, PCs

\* A request starts without anything of an earlier one.
LEMMA StartEffect ==
  ASSUME TypeOK, NEW r \in Requests, Start(r)
  PROVE  /\ Only(r)
         /\ req'[r].pc = "pin" /\ req'[r].config = saved /\ req'[r].gen = 0
         /\ req'[r].lock = None /\ req'[r].pool = None /\ req'[r].retried = FALSE
<1> DEFINE q == [Fresh EXCEPT !.pc = "pin", !.config = saved]
<1>1. /\ q \in Req
      /\ q.pc = "pin" /\ q.config = saved /\ q.gen = 0
      /\ q.lock = None /\ q.pool = None /\ q.retried = FALSE
  BY FreshReq DEF TypeOK, Req, PCs, Waiting
<1>2. req' = [req EXCEPT ![r] = q]
  BY DEF Start
<1> HIDE DEF q
<1>3. Only(r) /\ req'[r] = q
  BY <1>1, <1>2 DEF TypeOK, Only
<1>4. QED
  BY <1>1, <1>3

\* Ending a request takes everything from it.
LEMMA DoneEffect ==
  ASSUME TypeOK, NEW r \in Requests, req' = [req EXCEPT ![r] = Fresh]
  PROVE  Only(r) /\ req'[r] = Fresh
BY FreshReq DEF TypeOK, Only

\* A retry keeps the configuration and forgets the generation.
LEMMA RetryEffect ==
  ASSUME TypeOK, NEW r \in Requests, Retry(r)
  PROVE  /\ Only(r)
         /\ req'[r].pc = "evicting" /\ req'[r].config = req[r].config /\ req'[r].gen = 0
         /\ req'[r].lock = None /\ req'[r].pool = None /\ req'[r].retried = TRUE
<1> DEFINE q == [Fresh EXCEPT !.pc = "evicting", !.config = req[r].config, !.retried = TRUE]
<1>1. req[r].config \in Nat
  BY DEF TypeOK, Req
<1>2. /\ q \in Req
      /\ q.pc = "evicting" /\ q.config = req[r].config /\ q.gen = 0
      /\ q.lock = None /\ q.pool = None /\ q.retried = TRUE
  BY <1>1, FreshReq DEF Req, PCs
<1>3. req' = [req EXCEPT ![r] = q]
  BY DEF Retry
<1> HIDE DEF q
<1>4. Only(r) /\ req'[r] = q
  BY <1>2, <1>3 DEF TypeOK, Only
<1>5. QED
  BY <1>2, <1>4

\* Pinning sets the generation, which is current afterwards.
LEMMA PinEffect ==
  ASSUME TypeOK, NEW r \in Requests, Pin(r)
  PROVE  /\ Only(r)
         /\ generation' \in Nat /\ clock' \in Nat
         /\ generation' = IF generation # 0 THEN generation ELSE clock + 1
         /\ clock' = IF generation # 0 THEN clock ELSE clock + 1
         /\ req'[r].pc = "get" /\ req'[r].gen = generation'
         /\ req'[r].config = req[r].config /\ req'[r].lock = req[r].lock
         /\ req'[r].pool = req[r].pool /\ req'[r].retried = req[r].retried
<1>1. /\ generation' = IF generation # 0 THEN generation ELSE clock + 1
      /\ clock' = IF generation # 0 THEN clock ELSE clock + 1
      /\ req' = [req EXCEPT ![r].pc = "get", ![r].gen = generation']
  BY DEF Pin
<1>2. generation' \in Nat /\ clock' \in Nat
  BY <1>1 DEF TypeOK
<1>3. "get" \in PCs
  BY DEF PCs, Waiting
<1>4. QED
  BY <1>1, <1>2, <1>3 DEF TypeOK, Req, Only

\* get answers with the cached pool of the request's generation, or not.
LEMMA GetEffect ==
  ASSUME TypeOK, NEW r \in Requests, Get(r)
  PROVE  /\ Only(r)
         /\ IF Hit(r) THEN req'[r].pc = "query" /\ req'[r].pool = cached
                      ELSE req'[r].pc = "lock" /\ req'[r].pool = req[r].pool
         /\ req'[r].config = req[r].config /\ req'[r].gen = req[r].gen
         /\ req'[r].lock = req[r].lock /\ req'[r].retried = req[r].retried
<1>1. "query" \in PCs /\ "lock" \in PCs
  BY DEF PCs, Waiting
<1>2. CASE Hit(r)
  <2>1. req' = [req EXCEPT ![r].pc = "query", ![r].pool = cached]
    BY <1>2 DEF Get
  <2>2. QED
    BY <1>1, <1>2, <2>1 DEF TypeOK, Req, Only
<1>3. CASE ~Hit(r)
  <2>1. req' = [req EXCEPT ![r].pc = "lock"]
    BY <1>3 DEF Get
  <2>2. QED
    BY <1>1, <1>3, <2>1 DEF TypeOK, Req, Only
<1>4. QED
  BY <1>2, <1>3

\* build_lock answers with the lock in the map, or with a new one of the
\* request's generation, which says whether the old ones were dropped.
LEMMA BuildLockEffect ==
  ASSUME TypeOK, NEW r \in Requests, BuildLock(r)
  PROVE  \E l \in Lock :
           /\ l[1] = req[r].gen
           /\ l \in locks \/ l[2] = LocksDropped(req[r].gen)
           /\ locks' = locks \cup {l}
           /\ Only(r)
           /\ req'[r].pc = "wait" /\ req'[r].lock = l
           /\ req'[r].config = req[r].config /\ req'[r].gen = req[r].gen
           /\ req'[r].pool = req[r].pool /\ req'[r].retried = req[r].retried
<1> DEFINE g == req[r].gen
           known == {l \in locks : l[1] = g}
           lock == IF known # {} THEN CHOOSE l \in known : TRUE ELSE <<g, LocksDropped(g)>>
<1>1. g \in Nat /\ LocksDropped(g) \in BOOLEAN
  BY DEF TypeOK, Req, LocksDropped
<1>2. lock \in Lock /\ lock[1] = g /\ (lock \in locks \/ lock[2] = LocksDropped(g))
  <2>1. CASE known = {}
    BY <1>1, <2>1 DEF Lock
  <2>2. CASE known # {}
    <3>1. lock \in known
      BY <2>2
    <3>2. QED
      BY <3>1 DEF TypeOK
  <2>3. QED
    BY <2>1, <2>2
<1>3. locks' = locks \cup {lock} /\ req' = [req EXCEPT ![r].pc = "wait", ![r].lock = lock]
  BY DEF BuildLock
<1> HIDE DEF lock
<1>4. "wait" \in PCs
  BY DEF PCs, Waiting
<1>5. /\ Only(r)
      /\ req'[r].pc = "wait" /\ req'[r].lock = lock
      /\ req'[r].config = req[r].config /\ req'[r].gen = req[r].gen
      /\ req'[r].pool = req[r].pool /\ req'[r].retried = req[r].retried
  BY <1>2, <1>3, <1>4 DEF TypeOK, Req, Only
<1>6. QED
  BY <1>2, <1>3, <1>5

\* A query that fails lets go of its pool.
LEMMA QueryFailsEffect ==
  ASSUME TypeOK, NEW r \in Requests, QueryFails(r)
  PROVE  /\ Only(r)
         /\ req'[r].pc = "failed" /\ req'[r].pool = None
         /\ req'[r].config = req[r].config /\ req'[r].gen = req[r].gen
         /\ req'[r].lock = req[r].lock /\ req'[r].retried = req[r].retried
<1>1. req' = [req EXCEPT ![r].pc = "failed", ![r].pool = None] /\ "failed" \in PCs
  BY DEF QueryFails, PCs
<1>2. QED
  BY <1>1 DEF TypeOK, Req, Only

\* Taking the generation away begins an eviction of it, if there was one.
LEMMA RemoveGenerationEffect ==
  ASSUME TypeOK, NEW e \in Evictors, RemoveGeneration(e)
  PROVE  /\ generation' = 0
         /\ ev' \in [Evictors -> Eviction]
         /\ \A x \in Evictors : x # e => ev'[x] = ev[x]
         /\ ev[e].pc = "idle"
         /\ IF generation = 0 THEN ev'[e] = ev[e]
                              ELSE ev'[e].pc = "locks" /\ ev'[e].gen = generation
<1>1. [pc |-> "locks", gen |-> generation] \in Eviction
  BY DEF TypeOK, Eviction
<1>2. QED
  BY <1>1 DEF TypeOK, RemoveGeneration, Eviction

\* An eviction goes on to the pool, and then is over.
LEMMA DropEffect ==
  ASSUME TypeOK, NEW e \in Evictors, Evict(e)
  PROVE  /\ ev' \in [Evictors -> Eviction]
         /\ \A x \in Evictors : x # e => ev'[x] = ev[x]
         /\ DropLocks(e) => ev[e].pc = "locks" /\ ev'[e].pc = "pool" /\ ev'[e].gen = ev[e].gen
         /\ DropPool(e) => ev[e].pc = "pool" /\ ev'[e].pc = "idle"
<1>1. Quiet \in Eviction /\ Quiet.pc = "idle"
  BY DEF Quiet, Eviction
<1>2. CASE DropLocks(e)
  <2>1. ev' = [ev EXCEPT ![e].pc = "pool"] /\ ev[e].pc = "locks"
    BY <1>2 DEF DropLocks
  <2>2. ~DropPool(e)
    BY <2>1 DEF DropPool
  <2>3. QED
    BY <2>1, <2>2 DEF TypeOK, Eviction
<1>3. CASE DropPool(e)
  <2>1. ev' = [ev EXCEPT ![e] = Quiet] /\ ev[e].pc = "pool"
    BY <1>3 DEF DropPool
  <2>2. ~DropLocks(e)
    BY <2>1 DEF DropLocks
  <2>3. QED
    BY <1>1, <2>1, <2>2 DEF TypeOK
<1>4. QED
  BY <1>2, <1>3 DEF Evict

\* A step inside get_pool, and one that ends a request.
InCache(r) == Check(r) \/ Reget(r) \/ BuildOwn(r) \/ Build(r) \/ InsertCheck(r) \/ Store(r)
              \/ Settle(r)
Ends(r) == QueryEnds(r) \/ GiveUp(r)

\* What a request does while it goes through get_pool without touching what
\* requests share: it moves on, or leaves with a pool of its own or none.
LEMMA LockedEffect ==
  ASSUME TypeOK, NEW r \in Requests,
         InCache(r)
  PROVE  /\ UNCHANGED <<saved, generation, clock, locks, ev>>
         /\ req[r].pc \in Locked
         /\ \/ held' = held /\ \E p \in Locked : Goes(r, p)
            \/ \E p \in Pool \cup {None} : Leaves(r, p) /\ (p # None => p.gen = req[r].gen)
         /\ cached' \in Pool \cup {None}
         /\ cached' \in {cached, Built(r), None}
<1> USE DEF At, Locked
<1>a. Locked \subseteq PCs
  BY DEF PCs
<1>1. CASE Check(r)
  <2>1. PICK p \in {"reget", "own"} : Step(r, p)
    BY <1>1 DEF Check
  <2>2. QED
    BY <1>1, <1>a, <2>1, StepGoes DEF Check, TypeOK
<1>2. CASE Reget(r)
  <2>1. CASE Hit(r)
    <3>1. cached \in Pool /\ cached.gen = req[r].gen /\ LeaveWith(r, cached)
      BY <1>2, <2>1 DEF Reget, Hit, TypeOK
    <3>2. QED
      BY <1>2, <3>1, LeaveLeaves DEF Reget, TypeOK
  <2>2. CASE ~Hit(r)
    <3>1. Step(r, "build") /\ held' = held
      BY <1>2, <2>2 DEF Reget
    <3>2. QED
      BY <1>2, <1>a, <3>1, StepGoes DEF Reget, TypeOK
  <2>3. QED
    BY <2>1, <2>2
<1>3. CASE BuildOwn(r)
  <2>1. PICK p \in {Built(r), None} : LeaveWith(r, p)
    BY <1>3 DEF BuildOwn
  <2>2. QED
    BY <1>3, <2>1, LeaveLeaves, BuiltPool DEF BuildOwn, TypeOK
<1>4. CASE Build(r)
  <2>1. \/ Step(r, "insert") /\ held' = held
        \/ LeaveWith(r, None)
    BY <1>4 DEF Build
  <2>2. QED
    BY <1>4, <1>a, <2>1, LeaveLeaves, StepGoes DEF Build, TypeOK
<1>5. CASE InsertCheck(r)
  <2>1. \/ Step(r, "store") /\ held' = held
        \/ LeaveWith(r, Built(r))
    BY <1>5 DEF InsertCheck
  <2>2. QED
    BY <1>5, <1>a, <2>1, LeaveLeaves, StepGoes, BuiltPool DEF InsertCheck, TypeOK
<1>6. CASE Store(r)
  <2>1. \/ Step(r, "settle") /\ held' = held /\ cached' = Built(r)
        \/ LeaveWith(r, Built(r)) /\ cached' = cached
    BY <1>6 DEF Store
  <2>2. QED
    BY <1>6, <1>a, <2>1, LeaveLeaves, StepGoes, BuiltPool DEF Store, TypeOK
<1>7. CASE Settle(r)
  BY <1>7, LeaveLeaves, BuiltPool DEF Settle, TypeOK
<1>8. QED
  BY <1>1, <1>2, <1>3, <1>4, <1>5, <1>6, <1>7 DEF InCache

\* The initial state has the type.
LEMMA InitType == Init => TypeOK
<1>1. Quiet \in Eviction
  BY DEF Quiet, Eviction
<1>2. QED
  BY <1>1, FreshReq DEF Init, TypeOK

\* Acquiring takes the lock the request waits for.
LEMMA AcquireEffect ==
  ASSUME TypeOK, LockInv, NEW r \in Requests, Acquire(r)
  PROVE  /\ Goes(r, "check")
         /\ req[r].lock \in Lock /\ req[r].lock \notin held
         /\ held' = held \cup {req[r].lock}
<1>1. req[r].pc = "wait" /\ Step(r, "check") /\ "check" \in PCs
  BY DEF Acquire, At, PCs, Locked
<1>2. req[r].lock \in Lock
  BY <1>1 DEF LockInv, TypeOK, Req
<1>3. QED
  BY <1>1, <1>2, StepGoes DEF Acquire

\* Every step keeps the type.
LEMMA NextType ==
  ASSUME TypeOK, LockInv, [Next]_vars
  PROVE  TypeOK'
<1> USE DEF Only, At
<1>1. ASSUME NEW r \in Requests, Start(r)
      PROVE  TypeOK'
  BY <1>1, StartEffect DEF Start, TypeOK
<1>2. ASSUME NEW r \in Requests, Pin(r)
      PROVE  TypeOK'
  BY <1>2, PinEffect DEF Pin, TypeOK
<1>3. ASSUME NEW r \in Requests, Get(r)
      PROVE  TypeOK'
  BY <1>3, GetEffect DEF Get, TypeOK
<1>4. ASSUME NEW r \in Requests, BuildLock(r)
      PROVE  TypeOK'
  <2>1. PICK l \in Lock : locks' = locks \cup {l} /\ Only(r)
    BY <1>4, BuildLockEffect
  <2>2. QED
    BY <1>4, <2>1 DEF BuildLock, TypeOK
<1>5. ASSUME NEW r \in Requests, Acquire(r)
      PROVE  TypeOK'
  BY <1>5, AcquireEffect DEF Acquire, Goes, TypeOK
<1>6. ASSUME NEW r \in Requests, InCache(r)
      PROVE  TypeOK'
  <2>1. held' \subseteq held /\ req' \in [Requests -> Req]
    BY <1>6, LockedEffect DEF Goes, Leaves
  <2>2. QED
    BY <1>6, <2>1, LockedEffect DEF TypeOK
<1>7. ASSUME NEW r \in Requests, Ends(r)
      PROVE  TypeOK'
  BY <1>7, DoneEffect DEF Ends, QueryEnds, GiveUp, TypeOK
<1>8. ASSUME NEW r \in Requests, QueryFails(r)
      PROVE  TypeOK'
  BY <1>8, QueryFailsEffect DEF QueryFails, TypeOK
<1>9. ASSUME NEW r \in Requests, Retry(r)
      PROVE  TypeOK'
  <2>1. r \in Evictors /\ RemoveGeneration(r)
    BY <1>9 DEF Retry, Evictors
  <2>2. generation' = 0 /\ ev' \in [Evictors -> Eviction] /\ Only(r)
    BY <1>9, <2>1, RetryEffect, RemoveGenerationEffect
  <2>3. QED
    BY <1>9, <2>2 DEF Retry, TypeOK
<1>10. ASSUME NEW r \in Requests, RetryAgain(r)
       PROVE  TypeOK'
  <2>1. "pin" \in PCs
    BY DEF PCs, Waiting
  <2>2. QED
    BY <1>10, <2>1, StepGoes DEF RetryAgain, Goes, TypeOK
<1>11. ASSUME NEW e \in Evictors, Evict(e)
       PROVE  TypeOK'
  BY <1>11, DropEffect DEF Evict, DropLocks, DropPool, TypeOK
<1>12. ASSUME SaveConfig \/ CloseTab
       PROVE  TypeOK'
  <2>1. UI \in Evictors /\ RemoveGeneration(UI) /\ saved' \in Nat
    BY <1>12 DEF Evictors, SaveConfig, CloseTab, TypeOK
  <2>2. QED
    BY <1>12, <2>1, RemoveGenerationEffect DEF SaveConfig, CloseTab, TypeOK
<1>13. ASSUME UNCHANGED vars
       PROVE  TypeOK'
  BY <1>13 DEF vars, TypeOK
<1>14. QED
  BY <1>1, <1>2, <1>3, <1>4, <1>5, <1>6, <1>7, <1>8, <1>9, <1>10, <1>11, <1>12, <1>13
     DEF Next, Request, Ends, InCache

\* Every step keeps the generations in order.
LEMMA NextBounds ==
  ASSUME TypeOK, LockInv, Bounds, [Next]_vars
  PROVE  Bounds'
<1> USE DEF Only, At, Pinned, IsCurrent
<1>t. TypeOK'
  BY NextType
<1>0. generation \in Nat /\ clock \in Nat /\ generation <= clock
  BY DEF TypeOK, Bounds
<1>1. ASSUME NEW r \in Requests, Start(r)
      PROVE  Bounds'
  BY <1>1, StartEffect DEF Start, Bounds
<1>2. ASSUME NEW r \in Requests, Pin(r)
      PROVE  Bounds'
  <2>1. generation' = clock' /\ clock' \in Nat /\ clock <= clock' /\ 1 <= clock'
        /\ (generation' = generation \/ generation' = clock + 1)
    BY <1>0, <1>2, PinEffect DEF Bounds
  <2>2. \A n \in 1..clock : n \in 1..clock'
    BY <1>0, <2>1
  <2>3. \A l \in locks' : l[1] \in 1..clock'
    BY <1>2, <2>2 DEF Pin, Bounds
  <2>4. \A s \in Requests : req'[s].pc \in Pinned => req'[s].gen \in 1..clock'
    BY <1>2, <2>1, <2>2, PinEffect DEF Bounds
  <2>5. \A e \in Evictors : ev'[e].pc # "idle" =>
           ev'[e].gen \in 1..clock' /\ generation' # ev'[e].gen
    BY <1>0, <1>2, <2>1, <2>2 DEF Pin, Bounds
  <2>6. QED
    BY <1>2, <2>1, <2>2, <2>3, <2>4, <2>5 DEF Pin, Bounds
<1>3. ASSUME NEW r \in Requests, Get(r)
      PROVE  Bounds'
  <2>1. req[r].pc = "get"
    BY <1>3 DEF Get
  <2>2. \A s \in Requests : req'[s].pc \in Pinned => req[s].pc \in Pinned /\ req'[s].gen = req[s].gen
    BY <1>3, <2>1, GetEffect DEF PCs, Waiting
  <2>3. QED
    BY <1>3, <2>2 DEF Get, Bounds
<1>4. ASSUME NEW r \in Requests, BuildLock(r)
      PROVE  Bounds'
  <2>1. req[r].pc \in Pinned
    BY <1>4 DEF BuildLock, PCs, Waiting
  <2>2. PICK l \in Lock : l[1] = req[r].gen /\ locks' = locks \cup {l} /\ Only(r)
                          /\ req'[r].gen = req[r].gen
    BY <1>4, BuildLockEffect
  <2>3. \A k \in locks' : k[1] \in 1..clock'
    BY <1>4, <2>1, <2>2 DEF BuildLock, Bounds
  <2>4. \A s \in Requests : req'[s].pc \in Pinned => req'[s].gen \in 1..clock'
    BY <1>4, <2>1, <2>2 DEF BuildLock, Bounds
  <2>5. QED
    BY <1>4, <2>3, <2>4 DEF BuildLock, Bounds
<1>5. ASSUME NEW r \in Requests, Acquire(r)
      PROVE  Bounds'
  <2>1. req[r].pc \in Pinned
    BY <1>5 DEF Acquire, PCs, Waiting
  <2>2. \A s \in Requests : req'[s].pc \in Pinned => req'[s].gen \in 1..clock'
    BY <1>5, <2>1, AcquireEffect DEF Acquire, Goes, Bounds
  <2>3. QED
    BY <1>5, <2>2 DEF Acquire, Bounds
<1>6. ASSUME NEW r \in Requests, InCache(r)
      PROVE  Bounds'
  <2>1. req[r].pc \in Pinned
    BY <1>6, LockedEffect DEF PCs, Locked
  <2>2. req'[r].gen = req[r].gen /\ Only(r)
    BY <1>6, LockedEffect DEF Goes, Leaves
  <2>3. \A s \in Requests : req'[s].pc \in Pinned => req'[s].gen \in 1..clock
    BY <2>1, <2>2 DEF Bounds
  <2>4. cached' # None => cached'.gen \in 1..clock
    BY <1>6, <2>1, LockedEffect, BuiltPool DEF Bounds
  <2>5. QED
    BY <1>6, <2>3, <2>4, LockedEffect DEF Bounds
<1>7. ASSUME NEW r \in Requests, Ends(r)
      PROVE  Bounds'
  <2>1. \A s \in Requests : req'[s].pc \in Pinned => req'[s] = req[s]
    BY <1>7, DoneEffect, FreshReq DEF Ends, QueryEnds, GiveUp
  <2>2. QED
    BY <1>7, <2>1 DEF Ends, QueryEnds, GiveUp, Bounds
<1>8. ASSUME NEW r \in Requests, QueryFails(r)
      PROVE  Bounds'
  <2>1. \A s \in Requests : req'[s].pc \in Pinned => req'[s] = req[s]
    BY <1>8, QueryFailsEffect
  <2>2. QED
    BY <1>8, <2>1 DEF QueryFails, Bounds
<1>9. ASSUME NEW e \in Evictors, RemoveGeneration(e), UNCHANGED <<clock, cached, locks>>,
             \A s \in Requests : req'[s].pc \in Pinned => req'[s] = req[s]
      PROVE  Bounds'
  <2>1. \A x \in Evictors : ev'[x].pc # "idle" => ev'[x].gen \in 1..clock
    BY <1>0, <1>9, RemoveGenerationEffect DEF Bounds
  <2>2. QED
    BY <1>0, <1>9, <2>1, RemoveGenerationEffect DEF Bounds
<1>10. ASSUME NEW r \in Requests, Retry(r)
       PROVE  Bounds'
  <2>1. r \in Evictors /\ RemoveGeneration(r) /\ UNCHANGED <<clock, cached, locks>>
    BY <1>10 DEF Retry, Evictors
  <2>2. QED
    BY <1>9, <1>10, <2>1, RetryEffect
<1>11. ASSUME NEW r \in Requests, RetryAgain(r)
       PROVE  Bounds'
  <2>1. Goes(r, "pin")
    BY <1>11, StepGoes DEF RetryAgain, PCs, Waiting
  <2>2. \A s \in Requests : req'[s].pc \in Pinned => req'[s] = req[s]
    BY <2>1 DEF Goes
  <2>3. QED
    BY <1>11, <2>2 DEF RetryAgain, Bounds
<1>12. ASSUME NEW e \in Evictors, Evict(e)
       PROVE  Bounds'
  <2>1. \A x \in Evictors : ev'[x].pc # "idle" => ev[x].pc # "idle" /\ ev'[x].gen = ev[x].gen
    BY <1>12, DropEffect DEF Evict
  <2>2. locks' \subseteq locks /\ cached' \in {cached, None}
        /\ UNCHANGED <<generation, clock, req>>
    BY <1>12 DEF Evict, DropLocks, DropPool
  <2>3. QED
    BY <2>1, <2>2 DEF Bounds
<1>13. ASSUME SaveConfig \/ CloseTab
       PROVE  Bounds'
  <2>1. UI \in Evictors /\ RemoveGeneration(UI) /\ UNCHANGED <<clock, cached, locks, req>>
    BY <1>13 DEF Evictors, SaveConfig, CloseTab
  <2>2. QED
    BY <1>9, <2>1
<1>14. ASSUME UNCHANGED vars
       PROVE  Bounds'
  BY <1>14 DEF vars, Bounds
<1>15. QED
  BY <1>1, <1>2, <1>3, <1>4, <1>5, <1>6, <1>7, <1>8, <1>10, <1>11, <1>12, <1>13, <1>14
     DEF Next, Request, Ends, InCache

\* The locks survive a step after which every request in Locked or "wait" is
\* as it was, when no generation becomes current that was not.
LEMMA QuietLocks ==
  ASSUME LockInv, held' = held, locks' \subseteq locks,
         generation' \in {generation, 0} \/ generation' \notin 1..clock,
         Bounds,
         \A s \in Requests :
           /\ req'[s].lock # None <=> req'[s].pc \in Locked \cup {"wait"}
           /\ req'[s].lock # None => req'[s].lock = req[s].lock /\ req'[s].gen = req[s].gen
           /\ req'[s].lock # None => (req'[s].pc \in Locked <=> req[s].pc \in Locked)
  PROVE  LockInv'
<1> USE DEF IsCurrent
<1>1. \A s \in Requests : req'[s].lock # None =>
         req[s].lock # None /\ req[s].gen \in 1..clock
  BY DEF LockInv, Bounds, Pinned, PCs, Locked, Waiting
<1>2. \A g \in 1..clock : generation' = g => generation = g
  BY DEF Bounds
<1>3. \A s \in Requests : req'[s].pc \in Locked => req[s].pc \in Locked /\ req'[s].lock # None
                                                  /\ req'[s].lock = req[s].lock
  OBVIOUS
<1>4. \A l \in locks' : generation' = l[1] => ~l[2]
  BY <1>2 DEF LockInv, Bounds
<1>5. \A s \in Requests : req'[s].lock # None /\ generation' = req'[s].gen => ~req'[s].lock[2]
  BY <1>1, <1>2 DEF LockInv
<1>6. QED
  BY <1>1, <1>3, <1>4, <1>5 DEF LockInv

\* Every step keeps the locks exclusive.
LEMMA NextLocks ==
  ASSUME TypeOK, Bounds, LockInv, [Next]_vars
  PROVE  LockInv'
<1> USE DEF Only, At, IsCurrent
<1> DEFINE Kept(s) ==
             /\ req'[s].lock # None <=> req'[s].pc \in Locked \cup {"wait"}
             /\ req'[s].lock # None => req'[s].lock = req[s].lock /\ req'[s].gen = req[s].gen
             /\ req'[s].lock # None => (req'[s].pc \in Locked <=> req[s].pc \in Locked)
<1>0. \A s \in Requests : req'[s] = req[s] => Kept(s)
  BY DEF LockInv
<1>1. ASSUME NEW r \in Requests, Start(r)
      PROVE  LockInv'
  <2>1. \A s \in Requests : Kept(s)
    BY <1>0, <1>1, StartEffect DEF Locked
  <2>2. QED
    BY <1>1, <2>1, QuietLocks DEF Start
<1>2. ASSUME NEW r \in Requests, Pin(r)
      PROVE  LockInv'
  <2>1. req[r].lock = None
    BY <1>2 DEF Pin, LockInv, Locked
  <2>2. \A s \in Requests : Kept(s)
    BY <1>0, <1>2, <2>1, PinEffect DEF Locked
  <2>3. generation' = generation \/ generation' \notin 1..clock
    BY <1>2, PinEffect DEF TypeOK
  <2>4. QED
    BY <1>2, <2>2, <2>3, QuietLocks DEF Pin
<1>3. ASSUME NEW r \in Requests, Get(r)
      PROVE  LockInv'
  <2>1. req[r].lock = None
    BY <1>3 DEF Get, LockInv, Locked
  <2>2. \A s \in Requests : Kept(s)
    BY <1>0, <1>3, <2>1, GetEffect DEF Locked
  <2>3. QED
    BY <1>3, <2>2, QuietLocks DEF Get
<1>4. ASSUME NEW r \in Requests, BuildLock(r)
      PROVE  LockInv'
  <2>1. PICK l \in Lock :
           /\ l[1] = req[r].gen
           /\ l \in locks \/ l[2] = LocksDropped(req[r].gen)
           /\ locks' = locks \cup {l}
           /\ Only(r)
           /\ req'[r].pc = "wait" /\ req'[r].lock = l /\ req'[r].gen = req[r].gen
    BY <1>4, BuildLockEffect
  <2>2. l # None /\ req'[r].pc \notin Locked /\ req[r].pc \notin Locked
    BY <1>4, <2>1 DEF Locked, BuildLock
  <2>3. generation = l[1] => ~l[2]
    BY <2>1 DEF LocksDropped, LockInv
  <2>4. held' = held /\ generation' = generation
    BY <1>4 DEF BuildLock
  <2>5. /\ \A k \in locks' : IsCurrent(k[1])' => ~k[2]
        /\ \A s \in Requests : req'[s].lock # None /\ IsCurrent(req[s].gen)' => ~req'[s].lock[2]
    BY <2>1, <2>3, <2>4 DEF LockInv
  <2>6. \A s \in Requests : req'[s].pc \in Locked => s # r /\ req'[s] = req[s]
    BY <2>1, <2>2
  <2>7. /\ \A s \in Requests : req'[s].lock # None <=> req'[s].pc \in Locked \cup {"wait"}
        /\ \A s \in Requests : req'[s].lock # None => req'[s].lock[1] = req'[s].gen
    BY <2>1, <2>2 DEF LockInv
  <2>8. QED
    BY <2>4, <2>5, <2>6, <2>7 DEF LockInv
<1>5. ASSUME NEW r \in Requests, Acquire(r)
      PROVE  LockInv'
  <2>1. req[r].pc = "wait" /\ generation' = generation /\ locks' = locks
    BY <1>5 DEF Acquire
  <2>2. /\ Goes(r, "check") /\ "check" \in Locked
        /\ req[r].lock # None /\ req[r].lock \notin held
        /\ held' = held \cup {req[r].lock}
    BY <1>5, AcquireEffect DEF Locked
  <2>3. \A s \in Requests : s # r => req'[s] = req[s]
    BY <2>2 DEF Goes
  <2>4. \A s \in Requests : s # r /\ req[s].pc \in Locked => req[s].lock # req[r].lock
    BY <2>2 DEF LockInv
  <2>5. QED
    BY <2>1, <2>2, <2>3, <2>4 DEF LockInv, Goes
<1>6. ASSUME NEW r \in Requests, InCache(r)
      PROVE  LockInv'
  <2>1. req[r].pc \in Locked /\ generation' = generation /\ locks' = locks
    BY <1>6, LockedEffect
  <2>2. CASE held' = held /\ \E p \in Locked : Goes(r, p)
    <3>1. \A s \in Requests : Kept(s)
      BY <1>0, <2>1, <2>2 DEF Goes, LockInv
    <3>2. QED
      BY <2>1, <2>2, <3>1, QuietLocks
  <2>3. CASE \E p \in Pool \cup {None} : Leaves(r, p)
    <3>1. /\ req'[r].lock = None /\ req'[r].pc \notin Locked \cup {"wait"}
          /\ \A s \in Requests : s # r => req'[s] = req[s]
          /\ held' = held \ {req[r].lock}
      BY <2>3 DEF Leaves, Locked
    <3>2. \A s \in Requests : req'[s].pc \in Locked => s # r /\ req[s].lock # req[r].lock
      BY <2>1, <3>1 DEF LockInv
    <3>3. QED
      BY <2>1, <3>1, <3>2 DEF LockInv
  <2>4. QED
    BY <1>6, <2>2, <2>3, LockedEffect
<1>7. ASSUME NEW r \in Requests, Ends(r)
      PROVE  LockInv'
  <2>1. \A s \in Requests : Kept(s)
    BY <1>0, <1>7, DoneEffect, FreshReq DEF Ends, QueryEnds, GiveUp, Locked
  <2>2. QED
    BY <1>7, <2>1, QuietLocks DEF Ends, QueryEnds, GiveUp
<1>8. ASSUME NEW r \in Requests, QueryFails(r)
      PROVE  LockInv'
  <2>1. req[r].lock = None
    BY <1>8 DEF QueryFails, LockInv, Locked
  <2>2. \A s \in Requests : Kept(s)
    BY <1>0, <1>8, <2>1, QueryFailsEffect DEF Locked
  <2>3. QED
    BY <1>8, <2>2, QuietLocks DEF QueryFails
<1>9. ASSUME NEW r \in Requests, Retry(r)
      PROVE  LockInv'
  <2>1. \A s \in Requests : Kept(s)
    BY <1>0, <1>9, RetryEffect DEF Locked
  <2>2. generation' = 0 /\ held' = held /\ locks' = locks
    BY <1>9 DEF Retry, RemoveGeneration
  <2>3. QED
    BY <2>1, <2>2, QuietLocks
<1>10. ASSUME NEW r \in Requests, RetryAgain(r)
       PROVE  LockInv'
  <2>1. Goes(r, "pin") /\ req[r].lock = None
    BY <1>10, StepGoes DEF RetryAgain, PCs, Waiting, LockInv, Locked
  <2>2. \A s \in Requests : Kept(s)
    BY <1>0, <2>1 DEF Goes, Locked
  <2>3. QED
    BY <1>10, <2>2, QuietLocks DEF RetryAgain
<1>11. ASSUME NEW e \in Evictors, Evict(e)
       PROVE  LockInv'
  <2>1. locks' \subseteq locks /\ UNCHANGED <<generation, held, req>>
    BY <1>11 DEF Evict, DropLocks, DropPool
  <2>2. QED
    BY <1>0, <2>1, QuietLocks
<1>12. ASSUME SaveConfig \/ CloseTab
       PROVE  LockInv'
  <2>1. generation' = 0 /\ UNCHANGED <<held, locks, req>>
    BY <1>12 DEF SaveConfig, CloseTab, RemoveGeneration
  <2>2. QED
    BY <1>0, <2>1, QuietLocks
<1>13. ASSUME UNCHANGED vars
       PROVE  LockInv'
  BY <1>13 DEF vars, LockInv
<1>14. QED
  BY <1>1, <1>2, <1>3, <1>4, <1>5, <1>6, <1>7, <1>8, <1>9, <1>10, <1>11, <1>12, <1>13
     DEF Next, Request, Ends, InCache

\* One lock per current generation, held by one request, lets one request
\* build at a time.
LEMMA OneBuilder ==
  ASSUME TypeOK, LockInv
  PROVE  SingleFlight
<1> SUFFICES ASSUME NEW r \in Requests, NEW s \in Requests,
                    Building(r), Building(s), req[r].gen = req[s].gen, IsCurrent(req[r].gen)
             PROVE  r = s
  BY DEF SingleFlight
<1>1. req[r].pc \in Locked /\ req[s].pc \in Locked
  BY DEF Building, Locked
<1>2. \A q \in {r, s} : /\ req[q].lock \in Lock
                        /\ req[q].lock[1] = req[r].gen /\ req[q].lock[2] = FALSE
  BY <1>1 DEF LockInv, TypeOK, Req, Lock, IsCurrent
<1>3. req[r].lock = req[s].lock
  BY <1>2 DEF Lock
<1>4. QED
  BY <1>1, <1>3 DEF LockInv

\* What the cache may become in a step: a pool is stored by a request at
\* "store", and removed by an eviction or a settling request, if it is theirs.
LEMMA CacheEffect ==
  ASSUME TypeOK, [Next]_vars
  PROVE  \/ cached' = cached
         \/ \E r \in Requests : /\ At(r, "store") /\ At(r, "settle")' /\ Goes(r, "settle")
                                /\ cached' = Built(r)
                                /\ cached # None => ~(cached.gen > req[r].gen)
                                /\ UNCHANGED <<generation, ev>>
         \/ /\ cached' = None /\ cached # None
            /\ \/ \E r \in Requests : At(r, "settle") /\ ~IsCurrent(req[r].gen)
                                      /\ cached.gen = req[r].gen
               \/ \E e \in Evictors : ev[e].pc = "pool" /\ cached.gen = ev[e].gen
<1>1. ASSUME NEW r \in Requests, Store(r), cached' # cached
      PROVE  /\ At(r, "store") /\ At(r, "settle")' /\ Goes(r, "settle") /\ cached' = Built(r)
             /\ cached # None => ~(cached.gen > req[r].gen)
             /\ UNCHANGED <<generation, ev>>
  <2>1. Goes(r, "settle")
    BY <1>1, StepGoes DEF Store, PCs, Locked
  <2>2. QED
    BY <1>1, <2>1 DEF Store, Goes, At
<1>2. ASSUME NEW r \in Requests, Settle(r), cached' # cached
      PROVE  /\ cached' = None /\ cached # None /\ At(r, "settle") /\ ~IsCurrent(req[r].gen)
             /\ cached.gen = req[r].gen
  BY <1>2 DEF Settle
<1>3. ASSUME NEW e \in Evictors, DropPool(e), cached' # cached
      PROVE  cached' = None /\ cached # None /\ ev[e].pc = "pool" /\ cached.gen = ev[e].gen
  BY <1>3 DEF DropPool
<1>4. ASSUME ~(\E r \in Requests : Store(r) \/ Settle(r)), ~(\E e \in Evictors : DropPool(e))
      PROVE  cached' = cached
  BY <1>4 DEF Next, Request, Evict, Start, Pin, Get, BuildLock, Acquire, Check, Reget, BuildOwn,
              Build, InsertCheck, QueryEnds, QueryFails, Retry, RetryAgain, GiveUp, DropLocks,
              SaveConfig, CloseTab, vars
<1>5. QED
  BY <1>1, <1>2, <1>3, <1>4

\* A step of one request leaves the others where they were.
LEMMA OthersStay ==
  ASSUME TypeOK, LockInv, NEW r \in Requests, Start(r) \/ Request(r) \/ Acquire(r)
  PROVE  \A s \in Requests : s # r => req'[s] = req[s]
<1>1. CASE InCache(r)
  BY <1>1, LockedEffect DEF Goes, Leaves
<1>2. CASE Ends(r)
  BY <1>2, DoneEffect DEF Ends, QueryEnds, GiveUp, Only
<1>3. CASE RetryAgain(r)
  BY <1>3, StepGoes DEF RetryAgain, PCs, Waiting, Goes
<1>4. CASE BuildLock(r)
  BY <1>4, BuildLockEffect DEF Only
<1>5. CASE Start(r) \/ Pin(r) \/ Get(r) \/ Acquire(r) \/ QueryFails(r) \/ Retry(r)
  BY <1>5, StartEffect, PinEffect, GetEffect, AcquireEffect, QueryFailsEffect, RetryEffect
     DEF Only, Goes
<1>6. QED
  BY <1>1, <1>2, <1>3, <1>4, <1>5 DEF Request, InCache, Ends

\* A request that is building after a step was building before, or has just
\* seen that there is no pool for it.
LEMMA BuilderCame ==
  ASSUME TypeOK, LockInv, [Next]_vars, NEW r \in Requests, Building(r)'
  PROVE  /\ req'[r].gen = req[r].gen /\ req[r].pc \in Locked
         /\ Building(r) \/ (At(r, "reget") /\ ~Hit(r) /\ UNCHANGED <<generation, cached>>)
<1>1. CASE req'[r] = req[r]
  BY <1>1 DEF Building, Locked
<1>2. CASE req'[r] # req[r]
  <2>1. Start(r) \/ Request(r) \/ Acquire(r)
    BY <1>2, OthersStay DEF Next, Evict, DropLocks, DropPool, SaveConfig, CloseTab, vars
  <2>2. CASE InCache(r)
    <3>1. req'[r].gen = req[r].gen /\ req[r].pc \in Locked
      BY <2>2, LockedEffect DEF Goes, Leaves
    <3>2. Building(r) \/ (At(r, "reget") /\ ~Hit(r) /\ UNCHANGED <<generation, cached>>)
      <4>1. CASE Check(r)
        BY <4>1, StepGoes DEF Check, Building, At, Goes, PCs, Locked
      <4>2. CASE Reget(r)
        <5>1. CASE Hit(r)
          <6>1. cached \in Pool \cup {None} /\ LeaveWith(r, cached)
            BY <4>2, <5>1 DEF Reget, TypeOK
          <6>2. QED
            BY <6>1, LeaveLeaves DEF Leaves, Building
        <5>2. QED
          BY <4>2, <5>1 DEF Reget
      <4>3. CASE BuildOwn(r)
        <5>1. PICK p \in Pool \cup {None} : LeaveWith(r, p)
          BY <4>3, BuiltPool DEF BuildOwn
        <5>2. QED
          BY <5>1, LeaveLeaves DEF Leaves, Building
      <4>4. CASE Build(r) \/ InsertCheck(r) \/ Store(r)
        BY <4>4 DEF Build, InsertCheck, Store, Building, At
      <4>5. CASE Settle(r)
        <5>1. LeaveWith(r, Built(r))
          BY <4>5 DEF Settle
        <5>2. QED
          BY <5>1, LeaveLeaves, BuiltPool DEF Leaves, Building
      <4>6. QED
        BY <2>2, <4>1, <4>2, <4>3, <4>4, <4>5 DEF InCache
    <3>3. QED
      BY <3>1, <3>2
  <2>3. CASE Ends(r)
    BY <2>3, DoneEffect, FreshReq DEF Ends, QueryEnds, GiveUp, Building
  <2>4. CASE RetryAgain(r)
    BY <2>4, StepGoes DEF RetryAgain, PCs, Waiting, Goes, Building
  <2>5. CASE BuildLock(r)
    BY <2>5, BuildLockEffect DEF Building
  <2>6. CASE Start(r) \/ Pin(r) \/ Get(r) \/ Acquire(r) \/ QueryFails(r) \/ Retry(r)
    BY <2>6, StartEffect, PinEffect, GetEffect, AcquireEffect, QueryFailsEffect, RetryEffect
       DEF Building, Goes
  <2>7. QED
    BY <2>1, <2>2, <2>3, <2>4, <2>5, <2>6 DEF Request, InCache, Ends
<1>3. QED
  BY <1>1, <1>2

\* The current generation goes by an eviction and comes by a pin.
LEMMA GenerationEffect ==
  ASSUME TypeOK, Bounds, [Next]_vars
  PROVE  \/ generation' = generation
         \/ generation = 0 /\ generation' = clock + 1 /\ UNCHANGED ev
         \/ \E e \in Evictors : RemoveGeneration(e) /\ generation' = 0
<1>1. ASSUME NEW r \in Requests, Pin(r)
      PROVE  generation' = generation \/ (generation = 0 /\ generation' = clock + 1 /\ UNCHANGED ev)
  BY <1>1 DEF Pin
<1>2. ASSUME NEW r \in Requests, Retry(r)
      PROVE  r \in Evictors /\ RemoveGeneration(r) /\ generation' = 0
  BY <1>2 DEF Retry, RemoveGeneration, Evictors
<1>3. ASSUME SaveConfig \/ CloseTab
      PROVE  UI \in Evictors /\ RemoveGeneration(UI) /\ generation' = 0
  BY <1>3 DEF SaveConfig, CloseTab, RemoveGeneration, Evictors
<1>4. ASSUME ~(\E r \in Requests : Pin(r) \/ Retry(r)), ~SaveConfig, ~CloseTab
      PROVE  generation' = generation
  BY <1>4 DEF Next, Request, Evict, Start, Get, BuildLock, Acquire, Check, Reget, BuildOwn,
              Build, InsertCheck, Store, Settle, QueryEnds, QueryFails, RetryAgain, GiveUp,
              DropLocks, DropPool, vars
<1>5. QED
  BY <1>1, <1>2, <1>3, <1>4

\* Only a query has a pool, of the generation it pinned.
PoolOwned(r) == req[r].pool # None => At(r, "query") /\ req[r].pool.gen = req[r].gen

\* Every step gives a request no pool but one of its generation.
LEMMA NextOwned ==
  ASSUME TypeOK, LockInv, \A s \in Requests : PoolOwned(s), [Next]_vars, NEW r \in Requests
  PROVE  PoolOwned(r)'
<1> USE DEF PoolOwned, At
<1>1. CASE req'[r] = req[r]
  BY <1>1
<1>2. CASE req'[r] # req[r]
  <2>1. Start(r) \/ Request(r) \/ Acquire(r)
    BY <1>2, OthersStay DEF Next, Evict, DropLocks, DropPool, SaveConfig, CloseTab, vars
  <2>2. CASE InCache(r)
    <3>1. req[r].pool = None
      BY <2>2, LockedEffect DEF Locked
    <3>2. QED
      BY <2>2, <3>1, LockedEffect DEF Goes, Leaves
  <2>3. CASE Ends(r)
    BY <2>3, DoneEffect, FreshReq DEF Ends, QueryEnds, GiveUp
  <2>4. CASE RetryAgain(r)
    BY <2>4, StepGoes DEF RetryAgain, PCs, Waiting, Goes
  <2>5. CASE BuildLock(r)
    <3>1. req[r].pool = None /\ req'[r].pool = req[r].pool
      BY <2>5, BuildLockEffect DEF BuildLock
    <3>2. QED
      BY <3>1
  <2>6. CASE Get(r)
    <3>1. req[r].pool = None
      BY <2>6 DEF Get
    <3>2. QED
      BY <2>6, <3>1, GetEffect DEF Hit
  <2>7. CASE Start(r) \/ QueryFails(r) \/ Retry(r)
    BY <2>7, StartEffect, QueryFailsEffect, RetryEffect
  <2>8. CASE Pin(r) \/ Acquire(r)
    <3>1. req[r].pool = None
      BY <2>8 DEF Pin, Acquire
    <3>2. QED
      BY <2>8, <3>1, PinEffect, AcquireEffect DEF Goes
  <2>9. QED
    BY <2>1, <2>2, <2>3, <2>4, <2>5, <2>6, <2>7, <2>8 DEF Request, InCache, Ends
<1>3. QED
  BY <1>1, <1>2

\* Every step leaves a missed pool missing while its generation is current.
LEMMA NextMiss ==
  ASSUME TypeOK, Bounds, LockInv, MissInv, [Next]_vars, NEW r \in Requests,
         Building(r)', IsCurrent(req[r].gen)'
  PROVE  ~Hit(r)'
<1> USE DEF IsCurrent
<1>1. /\ req'[r].gen = req[r].gen
      /\ Building(r) \/ (~Hit(r) /\ UNCHANGED <<generation, cached>>)
      /\ req[r].gen \in 1..clock
  BY BuilderCame DEF Bounds, Pinned, PCs, Locked
<1>2. generation = req[r].gen
  BY <1>1, GenerationEffect DEF TypeOK
<1>3. ~Hit(r)
  BY <1>1, <1>2 DEF MissInv
<1>4. CASE cached' = cached \/ cached' = None
  BY <1>1, <1>3, <1>4 DEF Hit
<1>5. ASSUME NEW s \in Requests, At(s, "store"), Goes(s, "settle"), cached' = Built(s)
      PROVE  ~Hit(r)'
  <2>1. r # s
    BY <1>5 DEF Building, Goes
  <2>2. Building(r) \/ cached' = cached
    BY <1>1
  <2>3. Building(r) => req[s].gen # req[r].gen
    BY <1>2, <1>5, <2>1, OneBuilder DEF SingleFlight, Building, At
  <2>4. Building(r) => ~Hit(r)'
    BY <1>1, <1>5, <2>3, BuiltPool DEF Hit
  <2>5. QED
    BY <1>4, <2>2, <2>4
<1>6. QED
  BY <1>4, <1>5, CacheEffect

\* Every step leaves a stale pool to somebody who will remove it.
LEMMA NextStale ==
  ASSUME TypeOK, Bounds, LockInv, NoStalePool, [Next]_vars
  PROVE  NoStalePool'
<1> USE DEF IsCurrent, At
<1> SUFFICES ASSUME cached' # None
             PROVE  IsCurrent(cached.gen)' \/ Removing(cached.gen)'
  BY DEF NoStalePool
<1>1. CASE cached' = cached
  <2>1. cached.gen \in 1..clock
    BY <1>1 DEF Bounds
  <2>2. CASE IsCurrent(cached.gen)
    <3>1. ASSUME NEW e \in Evictors, RemoveGeneration(e)
          PROVE  Removing(cached.gen)'
      BY <1>1, <2>1, <2>2, <3>1, RemoveGenerationEffect DEF Removing
    <3>2. QED
      BY <1>1, <2>1, <2>2, <3>1, GenerationEffect DEF TypeOK
  <2>3. ASSUME NEW r \in Requests, At(r, "settle"), req[r].gen = cached.gen, ~IsCurrent(cached.gen)
        PROVE  Removing(cached.gen)'
    <3>1. CASE req'[r] = req[r]
      BY <1>1, <2>3, <3>1 DEF Removing
    <3>2. CASE req'[r] # req[r]
      <4>1. Start(r) \/ Request(r) \/ Acquire(r)
        BY <3>2, OthersStay DEF Next, Evict, DropLocks, DropPool, SaveConfig, CloseTab, vars
      <4>2. Settle(r)
        BY <2>3, <4>1 DEF Request, Start, Pin, Get, BuildLock, Acquire, Check, Reget, BuildOwn,
                          Build, InsertCheck, Store, QueryEnds, QueryFails, Retry, RetryAgain, GiveUp
      <4>3. cached' = None
        BY <1>1, <2>3, <4>2 DEF Settle
      <4>4. QED
        BY <4>3
    <3>3. QED
      BY <3>1, <3>2
  <2>4. ASSUME NEW e \in Evictors, ev[e].pc \in {"locks", "pool"}, ev[e].gen = cached.gen
        PROVE  Removing(cached.gen)'
    <3>1. CASE ev'[e] = ev[e]
      BY <1>1, <2>4, <3>1 DEF Removing
    <3>2. CASE ev'[e] # ev[e]
      <4>1. ASSUME NEW x \in Evictors, RemoveGeneration(x)
            PROVE  FALSE
        BY <2>4, <3>2, <4>1, RemoveGenerationEffect
      <4>2. ASSUME NEW x \in Evictors, Evict(x)
            PROVE  x = e
        BY <3>2, <4>2, DropEffect
      <4>3. Evict(e)
        <5>1. \A x \in Requests : ~Retry(x)
          BY <4>1 DEF Retry, Evictors
        <5>2. ~SaveConfig /\ ~CloseTab
          BY <4>1 DEF SaveConfig, CloseTab, Evictors
        <5>3. (\E x \in Evictors : Evict(x)) \/ ev' = ev
          BY <5>1, <5>2 DEF Next, Request, Start, Pin, Get, BuildLock, Acquire, Check, Reget,
                            BuildOwn, Build, InsertCheck, Store, Settle, QueryEnds, QueryFails,
                            RetryAgain, GiveUp, vars
        <5>4. QED
          BY <3>2, <4>2, <5>3
      <4>4. CASE DropLocks(e)
        BY <1>1, <2>4, <4>3, <4>4, DropEffect DEF Removing
      <4>5. CASE DropPool(e)
        <5>1. cached' = None
          BY <1>1, <2>4, <4>5 DEF DropPool
        <5>2. QED
          BY <5>1
      <4>6. QED
        BY <4>3, <4>4, <4>5 DEF Evict
    <3>3. QED
      BY <3>1, <3>2
  <2>5. QED
    BY <1>1, <2>2, <2>3, <2>4 DEF NoStalePool, Removing
<1>2. ASSUME NEW r \in Requests, Goes(r, "settle"), cached' = Built(r)
      PROVE  Removing(cached.gen)'
  BY <1>2, BuiltPool DEF Goes, Removing
<1>3. QED
  BY <1>1, <1>2, CacheEffect

(***************************************************************************)
(* The theorems                                                            *)
(***************************************************************************)

\* The inductive invariant.
IInv == TypeOK /\ PoolInv /\ NoStalePool /\ (\A r \in Requests : PoolOwned(r))

\* It holds to begin with.
LEMMA InitInv == Init => IInv
<1> SUFFICES ASSUME Init PROVE IInv
  OBVIOUS
<1>1. TypeOK
  BY InitType
<1>2. \A r \in Requests : req[r] = Fresh
  BY DEF Init
<1>3. Bounds
  BY <1>2, FreshReq DEF Init, Quiet, Bounds, Pinned
<1>4. LockInv
  BY <1>2, FreshReq DEF Init, LockInv, Locked
<1>5. MissInv /\ NoStalePool /\ (\A r \in Requests : PoolOwned(r))
  BY <1>2, FreshReq DEF Init, MissInv, NoStalePool, PoolOwned, Hit
<1>6. QED
  BY <1>1, <1>3, <1>4, <1>5 DEF IInv, PoolInv

\* Every step keeps it.
LEMMA NextInv == IInv /\ [Next]_vars => IInv'
<1> SUFFICES ASSUME IInv, [Next]_vars PROVE IInv'
  OBVIOUS
<1> USE DEF IInv, PoolInv
<1>1. TypeOK' /\ Bounds' /\ LockInv' /\ NoStalePool'
  BY NextType, NextBounds, NextLocks, NextStale
<1>2. \A r \in Requests : PoolOwned(r)'
  BY NextOwned
<1>3. MissInv'
  BY <1>2, NextMiss DEF MissInv, PoolOwned
<1>4. QED
  BY <1>1, <1>2, <1>3

\* The invariant holds in every reachable state: the locks of a current
\* generation exclude, and who builds for it has missed and still misses.
THEOREM PoolInvariant == Spec => []IInv
<1>1. Init => IInv
  BY InitInv
<1>2. IInv /\ [Next]_vars => IInv'
  BY NextInv
<1>3. QED
  BY <1>1, <1>2, PTL DEF Spec

\* The variables keep their types, in every environment.
THEOREM TypeCorrect == Spec => []TypeOK
<1>1. IInv => TypeOK
  BY DEF IInv
<1>2. QED
  BY <1>1, PoolInvariant, PTL

\* An evicted pool is current, or somebody is about to remove it, however
\* many requests and evictions there are.
THEOREM NoStalePoolStays == Spec => []NoStalePool
<1>1. IInv => NoStalePool
  BY DEF IInv
<1>2. QED
  BY <1>1, PoolInvariant, PTL

\* One request at a time builds a pool for a current generation.
THEOREM BuildsOnce == Spec => []SingleFlight
<1>1. IInv => SingleFlight
  BY OneBuilder DEF IInv, PoolInv
<1>2. QED
  BY <1>1, PoolInvariant, PTL

\* A request works on a pool of the generation it pinned, before and after
\* any eviction.
THEOREM PoolsAreOwn == Spec => []OwnGeneration
<1>1. IInv => OwnGeneration
  BY DEF IInv, PoolOwned, OwnGeneration
<1>2. QED
  BY <1>1, PoolInvariant, PTL

\* A step keeps the pool of a generation that stays current.
LEMMA KeptStep ==
  ASSUME IInv, [Next]_vars, cached # None, IsCurrent(cached.gen), generation' = generation
  PROVE  cached' = cached
<1> USE DEF IInv, PoolInv, IsCurrent
<1>1. cached.gen = generation /\ generation \in 1..clock /\ generation = clock
  BY DEF Bounds
<1>2. ASSUME NEW r \in Requests, At(r, "store"), ~(cached.gen > req[r].gen)
      PROVE  FALSE
  <2>1. req[r].gen \in 1..clock
    BY <1>2 DEF Bounds, Pinned, PCs, Locked, At
  <2>2. req[r].gen = generation
    BY <1>1, <1>2, <2>1 DEF TypeOK
  <2>3. QED
    BY <1>1, <1>2, <2>2 DEF MissInv, Building, Hit, At
<1>3. ASSUME NEW e \in Evictors, ev[e].pc = "pool", cached.gen = ev[e].gen
      PROVE  FALSE
  BY <1>1, <1>3 DEF Bounds
<1>4. QED
  BY <1>1, <1>2, <1>3, CacheEffect

\* A step never replaces or removes the pool of the current generation
\* while that generation is current.
THEOREM PoolIsKept == Spec => KeptWhileCurrent
<1> DEFINE Lost == cached # None /\ IsCurrent(cached.gen) /\ cached' # cached
<1>1. IInv /\ [Next]_vars => [Lost => generation' # generation]_vars
  BY KeptStep
<1>2. QED
  BY <1>1, PoolInvariant, PTL DEF Spec, KeptWhileCurrent

(***************************************************************************)
(* The promise: no request sees half an eviction                           *)
(***************************************************************************)

\* The inductive invariant with what the promise needs besides.
SharedInv == IInv /\ LateInv /\ OneSharedPool

\* A generation that is current after a step was so before.
LEMMA NeverAgain ==
  ASSUME IInv, [Next]_vars, NEW g \in 1..clock, generation' = g
  PROVE  generation = g
BY GenerationEffect DEF IInv, PoolInv, TypeOK

\* What a request does in get_pool: it goes on, knowing that it is late when
\* it builds for itself and that its pool is stored when it settles; or it
\* leaves, with the cached pool as long as its generation is current.
LEMMA LeavesWithShared ==
  ASSUME SharedInv, NEW r \in Requests, InCache(r)
  PROVE  \/ \E p \in Locked :
              /\ Goes(r, p)
              /\ p = "own" => ~IsCurrent(req[r].gen)
              /\ IF p = "settle" THEN At(r, "store") /\ cached' = Built(r) ELSE cached' = cached
         \/ \E p \in Pool \cup {None} :
              /\ Leaves(r, p)
              /\ p # None => p \in PoolsOf(req[r].gen)
              /\ p \in {Built(r), None} \/ (Hit(r) /\ p = cached)
              /\ IsCurrent(req[r].gen) => p \in {cached, None} /\ cached' = cached
<1> USE DEF SharedInv, IInv, PoolInv, At
<1>a. Locked \subseteq PCs
  BY DEF PCs
<1>b. Built(r) \in PoolsOf(req[r].gen)
  BY DEF Built, PoolsOf, TypeOK, Req
<1>c. \A p \in Pool : p.gen = req[r].gen => p \in PoolsOf(req[r].gen)
  BY DEF Pool, PoolsOf
<1>1. CASE Check(r)
  <2>1. CASE IsCurrent(req[r].gen)
    <3>1. Step(r, "reget") /\ cached' = cached
      BY <1>1, <2>1 DEF Check
    <3>2. "reget" \in Locked /\ Goes(r, "reget")
      BY <1>a, <3>1, StepGoes DEF Locked
    <3>3. QED
      BY <3>1, <3>2
  <2>2. CASE ~IsCurrent(req[r].gen)
    <3>1. Step(r, "own") /\ cached' = cached
      BY <1>1, <2>2 DEF Check
    <3>2. "own" \in Locked /\ Goes(r, "own")
      BY <1>a, <3>1, StepGoes DEF Locked
    <3>3. QED
      BY <2>2, <3>1, <3>2
  <2>3. QED
    BY <2>1, <2>2
<1>2. CASE Reget(r)
  <2>1. CASE Hit(r)
    <3>1. cached \in Pool /\ cached.gen = req[r].gen /\ LeaveWith(r, cached) /\ cached' = cached
      BY <1>2, <2>1 DEF Reget, Hit, TypeOK
    <3>2. QED
      BY <1>c, <2>1, <3>1, LeaveLeaves
  <2>2. CASE ~Hit(r)
    <3>1. Step(r, "build") /\ cached' = cached
      BY <1>2, <2>2 DEF Reget
    <3>2. "build" \in Locked /\ Goes(r, "build")
      BY <1>a, <3>1, StepGoes DEF Locked
    <3>3. QED
      BY <3>1, <3>2
  <2>3. QED
    BY <2>1, <2>2
<1>3. CASE BuildOwn(r)
  <2>1. PICK p \in {Built(r), None} : LeaveWith(r, p)
    BY <1>3 DEF BuildOwn
  <2>2. ~IsCurrent(req[r].gen)
    BY <1>3 DEF BuildOwn, LateInv
  <2>3. QED
    BY <1>b, <2>1, <2>2, LeaveLeaves, BuiltPool
<1>4. CASE Build(r)
  <2>1. CASE Step(r, "insert")
    <3>1. "insert" \in Locked /\ Goes(r, "insert")
      BY <1>a, <2>1, StepGoes DEF Locked
    <3>2. QED
      BY <1>4, <3>1 DEF Build
  <2>2. CASE LeaveWith(r, None)
    BY <1>4, <2>2, LeaveLeaves DEF Build
  <2>3. QED
    BY <1>4, <2>1, <2>2 DEF Build
<1>5. CASE InsertCheck(r)
  <2>1. CASE IsCurrent(req[r].gen)
    <3>1. Step(r, "store") /\ cached' = cached
      BY <1>5, <2>1 DEF InsertCheck
    <3>2. "store" \in Locked /\ Goes(r, "store")
      BY <1>a, <3>1, StepGoes DEF Locked
    <3>3. QED
      BY <3>1, <3>2
  <2>2. CASE ~IsCurrent(req[r].gen)
    <3>1. LeaveWith(r, Built(r))
      BY <1>5, <2>2 DEF InsertCheck
    <3>2. QED
      BY <1>b, <2>2, <3>1, LeaveLeaves, BuiltPool
  <2>3. QED
    BY <2>1, <2>2
<1>6. CASE Store(r)
  <2>1. CASE cached # None /\ cached.gen > req[r].gen
    <3>1. LeaveWith(r, Built(r)) /\ cached' = cached
      BY <1>6, <2>1 DEF Store
    <3>2. cached.gen \in 1..clock /\ req[r].gen \in 1..clock /\ clock \in Nat
      BY <1>6, <2>1 DEF Store, Bounds, Pinned, PCs, Locked, TypeOK
    <3>3. ~IsCurrent(req[r].gen)
      BY <2>1, <3>2 DEF Bounds, IsCurrent
    <3>4. QED
      BY <1>b, <3>1, <3>3, LeaveLeaves, BuiltPool
  <2>2. CASE ~(cached # None /\ cached.gen > req[r].gen)
    <3>1. Step(r, "settle") /\ cached' = Built(r)
      BY <1>6, <2>2 DEF Store
    <3>2. "settle" \in Locked /\ Goes(r, "settle")
      BY <1>a, <3>1, StepGoes DEF Locked
    <3>3. QED
      BY <1>6, <3>1, <3>2 DEF Store
  <2>3. QED
    BY <2>1, <2>2
<1>7. CASE Settle(r)
  <2>1. LeaveWith(r, Built(r)) /\ req[r].pc = "settle"
    BY <1>7 DEF Settle
  <2>2. IsCurrent(req[r].gen) => cached = Built(r) /\ cached' = cached
    BY <1>7, <2>1 DEF Settle, LateInv
  <2>3. QED
    BY <1>b, <2>1, <2>2, LeaveLeaves, BuiltPool
<1>8. QED
  BY <1>1, <1>2, <1>3, <1>4, <1>5, <1>6, <1>7 DEF InCache

\* Every step keeps the promise's invariant for a request it leaves alone.
LEMMA LateStays ==
  ASSUME SharedInv, [Next]_vars, NEW r \in Requests, req'[r] = req[r]
  PROVE  /\ At(r, "own")' => ~IsCurrent(req[r].gen)'
         /\ At(r, "settle")' /\ IsCurrent(req[r].gen)' => cached' = Built(r)'
         /\ At(r, "query")' => req'[r].pool # None
         /\ At(r, "query")' /\ IsCurrent(req[r].gen)' => req'[r].pool = cached'
<1> USE DEF SharedInv, IInv, PoolInv, At, IsCurrent
<1>1. req[r].pc \in {"own", "settle", "query"} => req[r].gen \in 1..clock
  BY DEF Bounds, Pinned, PCs, Locked
<1>2. req[r].pc \in {"own", "settle", "query"} /\ generation' = req[r].gen => generation = req[r].gen
  BY <1>1, NeverAgain
<1>3. req[r].pc \in {"settle", "query"} /\ generation' = req[r].gen => cached' = cached
  <2>1. HAVE req[r].pc \in {"settle", "query"} /\ generation' = req[r].gen
  <2>2. generation = req[r].gen
    BY <1>2, <2>1
  <2>3. CASE req[r].pc = "settle"
    BY <2>1, <2>2, <2>3, BuiltPool, KeptStep DEF LateInv
  <2>4. CASE req[r].pc = "query"
    <3>1. cached # None /\ cached.gen = req[r].gen
      BY <2>2, <2>4 DEF LateInv, OneSharedPool, PoolOwned
    <3>2. QED
      BY <2>1, <2>2, <3>1, KeptStep
  <2>5. QED
    BY <2>1, <2>3, <2>4
<1>4. Built(r)' = Built(r)
  BY DEF Built
<1>5. QED
  BY <1>2, <1>3, <1>4 DEF LateInv, OneSharedPool

\* Every step keeps the invariant of the promise.
LEMMA NextShared ==
  ASSUME SharedInv, [Next]_vars
  PROVE  SharedInv'
<1> USE DEF At, IsCurrent
<1> DEFINE Kept(r) == /\ At(r, "own") => ~IsCurrent(req[r].gen)
                      /\ At(r, "settle") /\ IsCurrent(req[r].gen) => cached = Built(r)
                      /\ At(r, "query") => req[r].pool # None
                      /\ At(r, "query") /\ IsCurrent(req[r].gen) => req[r].pool = cached
<1>i. IInv' /\ TypeOK /\ LockInv
  BY NextInv DEF SharedInv, IInv, PoolInv
<1>1. ASSUME NEW r \in Requests
      PROVE  Kept(r)'
  <2>1. CASE req'[r] = req[r]
    BY <2>1, LateStays
  <2>2. CASE req'[r] # req[r]
    <3>1. Start(r) \/ Request(r) \/ Acquire(r)
      BY <1>i, <2>2, OthersStay DEF Next, Evict, DropLocks, DropPool, SaveConfig, CloseTab, vars
    <3>2. CASE InCache(r)
      <4>1. generation' = generation
        BY <1>i, <3>2, LockedEffect
      <4>2. ASSUME NEW p \in Locked, Goes(r, p),
                   p = "own" => ~IsCurrent(req[r].gen),
                   IF p = "settle" THEN At(r, "store") /\ cached' = Built(r) ELSE cached' = cached
            PROVE  Kept(r)'
        BY <4>1, <4>2 DEF Goes, Built, Locked
      <4>3. ASSUME NEW p \in Pool \cup {None}, Leaves(r, p),
                   IsCurrent(req[r].gen) => p \in {cached, None} /\ cached' = cached
            PROVE  Kept(r)'
        BY <4>1, <4>3 DEF Leaves
      <4>4. QED
        BY <3>2, <4>2, <4>3, LeavesWithShared
    <3>3. CASE Get(r)
      BY <1>i, <3>3, GetEffect DEF Get, Hit
    <3>4. CASE Ends(r)
      BY <1>i, <3>4, DoneEffect, FreshReq DEF Ends, QueryEnds, GiveUp
    <3>5. CASE RetryAgain(r)
      BY <1>i, <3>5, StepGoes DEF RetryAgain, PCs, Waiting, Goes
    <3>6. CASE BuildLock(r)
      BY <1>i, <3>6, BuildLockEffect
    <3>7. CASE Acquire(r)
      BY <1>i, <3>7, AcquireEffect DEF Goes
    <3>8. CASE Start(r) \/ Pin(r) \/ QueryFails(r) \/ Retry(r)
      BY <1>i, <3>8, StartEffect, PinEffect, QueryFailsEffect, RetryEffect
    <3>9. QED
      BY <3>1, <3>2, <3>3, <3>4, <3>5, <3>6, <3>7, <3>8 DEF Request, InCache, Ends
  <2>3. QED
    BY <2>1, <2>2
<1>2. LateInv' /\ OneSharedPool'
  BY <1>1 DEF LateInv, OneSharedPool
<1>3. QED
  BY <1>i, <1>2 DEF SharedInv

\* It holds to begin with.
LEMMA InitShared == Init => SharedInv
<1> SUFFICES ASSUME Init PROVE SharedInv
  OBVIOUS
<1>1. \A r \in Requests : req[r].pc = "done"
  BY FreshReq DEF Init
<1>2. QED
  BY <1>1, InitInv DEF SharedInv, LateInv, OneSharedPool, At

\* And in every reachable state.
LEMMA SharedInvariance == Spec => []SharedInv
<1>1. SharedInv /\ [Next]_vars => SharedInv'
  BY NextShared
<1>2. QED
  BY <1>1, InitShared, PTL DEF Spec

\* All requests of the current generation work on the one pool in the cache.
THEOREM AllShare == Spec => []OneSharedPool
<1>1. SharedInv => OneSharedPool
  BY DEF SharedInv
<1>2. QED
  BY <1>1, SharedInvariance, PTL

\* What the promise sees of a request.
PinOf(r) == IF req[r].pc \in Pinned THEN req[r].gen ELSE 0

\* A step of one request changes what the promise sees of that one.
LEMMA OnePin ==
  ASSUME NEW r \in Requests, \A s \in Requests : s # r => req'[s] = req[s]
  PROVE  /\ PinnedGeneration' = [PinnedGeneration EXCEPT ![r] = PinOf(r)']
         /\ PoolInUse' = [PoolInUse EXCEPT ![r] = req'[r].pool]
         /\ PinnedGeneration[r] = PinOf(r) /\ PinnedGeneration'[r] = PinOf(r)'
         /\ PoolInUse[r] = req[r].pool /\ PoolInUse'[r] = req'[r].pool
         /\ PinOf(r)' = PinOf(r) => UNCHANGED PinnedGeneration
         /\ req'[r].pool = req[r].pool => UNCHANGED PoolInUse
BY DEF PinnedGeneration, PoolInUse, PinOf

\* While the generation stays, the shared pool stays, or a request stores it
\* where there was none.
LEMMA SharedEffect ==
  ASSUME SharedInv, [Next]_vars, generation' = generation
  PROVE  \/ SharedPool' = SharedPool
         \/ \E r \in Requests : /\ At(r, "store") /\ Goes(r, "settle") /\ cached' = Built(r)
                                /\ IsCurrent(req[r].gen)
                                /\ SharedPool = None /\ SharedPool' = Built(r)
<1> USE DEF SharedInv, IInv, PoolInv, IsCurrent, SharedPool
<1>1. CASE cached' = cached
  BY <1>1
<1>2. ASSUME NEW r \in Requests, At(r, "store"), Goes(r, "settle"), cached' = Built(r),
             cached # None => ~(cached.gen > req[r].gen)
      PROVE  \/ SharedPool' = SharedPool
             \/ IsCurrent(req[r].gen) /\ SharedPool = None /\ SharedPool' = Built(r)
  <2>1. Built(r) # None /\ Built(r).gen = req[r].gen /\ req[r].gen \in 1..clock /\ clock \in Nat
    BY <1>2, BuiltPool DEF Bounds, Pinned, PCs, Locked, At, TypeOK
  <2>2. CASE generation = req[r].gen
    <3>1. SharedPool = None
      BY <1>2, <2>2 DEF MissInv, Building, Hit, At
    <3>2. QED
      BY <1>2, <2>1, <2>2, <3>1
  <2>3. CASE generation # req[r].gen
    <3>1. cached # None => generation # cached.gen
      BY <1>2, <2>1, <2>3 DEF Bounds
    <3>2. QED
      BY <1>2, <2>1, <2>3, <3>1
  <2>4. QED
    BY <2>2, <2>3
<1>3. ASSUME cached' = None, cached # None, SharedPool' # SharedPool
      PROVE  FALSE
  BY <1>3, KeptStep
<1>4. QED
  BY <1>1, <1>2, <1>3, CacheEffect

\* Taking the generation away is the eviction, all of it.
LEMMA EvictionMaps ==
  ASSUME SharedInv, RemoveGeneration(UI) \/ (\E e \in Requests : RemoveGeneration(e)),
         UNCHANGED <<clock, cached, PinnedGeneration, PoolInUse>>
  PROVE  Promise!Next \/ UNCHANGED Promise!vars
<1> USE DEF SharedInv, IInv, PoolInv, IsCurrent, SharedPool
<1>1. generation' = 0 /\ SharedPool' = None
  BY DEF RemoveGeneration, Bounds
<1>2. CASE generation = 0
  <2>1. SharedPool = None
    BY <1>2 DEF Bounds
  <2>2. QED
    BY <1>1, <1>2, <2>1 DEF Promise!vars
<1>3. CASE generation # 0
  BY <1>1, <1>3 DEF Promise!Next, Promise!Evict
<1>4. QED
  BY <1>2, <1>3

\* A request in get_pool shares what it stores, takes a pool, leaves without
\* one, or does nothing that the promise sees.
LEMMA CacheStepMaps ==
  ASSUME SharedInv, [Next]_vars, NEW r \in Requests, InCache(r)
  PROVE  Promise!Next \/ UNCHANGED Promise!vars
<1> USE DEF IsCurrent
<1>i. TypeOK /\ LockInv /\ Bounds
  BY DEF SharedInv, IInv, PoolInv
<1>1. /\ generation' = generation /\ clock' = clock /\ clock \in Nat
      /\ req[r].pc \in Pinned /\ req[r].pc \in Locked
      /\ req[r].gen \in 1..clock
  BY <1>i, LockedEffect DEF Pinned, PCs, Locked, Bounds, TypeOK
<1>2. PinOf(r) = req[r].gen /\ PinOf(r) # 0 /\ req[r].pool = None
  BY <1>1 DEF PinOf, SharedInv, IInv, PoolOwned, At, Locked
<1>3. ASSUME NEW p \in Locked, Goes(r, p)
      PROVE  Promise!Next \/ UNCHANGED Promise!vars
  <2>1. UNCHANGED <<PinnedGeneration, PoolInUse>>
    <3>1. PinOf(r)' = PinOf(r) /\ req'[r].pool = req[r].pool
      BY <1>1, <1>3 DEF Goes, PinOf, Pinned, PCs, Locked
    <3>2. QED
      BY <1>3, <3>1, OnePin DEF Goes
  <2>2. CASE SharedPool' = SharedPool
    BY <1>1, <2>1, <2>2 DEF Promise!vars
  <2>3. CASE SharedPool' # SharedPool
    <3>1. PICK s \in Requests : /\ At(s, "store") /\ cached' = Built(s) /\ IsCurrent(req[s].gen)
                               /\ SharedPool = None /\ SharedPool' = Built(s)
      BY <1>1, <2>3, SharedEffect
    <3>2. /\ req[s].gen = generation /\ req[s].gen \in 1..clock
          /\ req[s].pc \in Pinned /\ req[s].pool = None
      BY <1>i, <3>1 DEF At, Pinned, PCs, Locked, Bounds, SharedInv, IInv, PoolOwned
    <3>3. PinnedGeneration[s] = generation /\ PoolInUse[s] = None /\ generation # 0
      BY <1>1, <3>2 DEF PinnedGeneration, PoolInUse
    <3>4. Built(s) \in PoolsOf(generation)
      BY <1>i, <3>2 DEF Built, PoolsOf, TypeOK, Req
    <3>5. Promise!Share
      BY <1>1, <2>1, <3>1, <3>3, <3>4 DEF Promise!Share
    <3>6. QED
      BY <3>5 DEF Promise!Next
  <2>4. QED
    BY <2>2, <2>3
<1>4. ASSUME NEW p \in Pool \cup {None}, Leaves(r, p),
             p # None => p \in PoolsOf(req[r].gen),
             IsCurrent(req[r].gen) => p \in {cached, None} /\ cached' = cached
      PROVE  Promise!Next \/ UNCHANGED Promise!vars
  <2>1. SharedPool' = SharedPool
    BY <1>1, <1>4, SharedEffect DEF Leaves, Goes, At
  <2>2. /\ PinnedGeneration[r] = req[r].gen /\ PinnedGeneration[r] # 0 /\ PoolInUse[r] = None
        /\ PoolInUse' = [PoolInUse EXCEPT ![r] = p] /\ PoolInUse'[r] = p
        /\ PinnedGeneration' = [PinnedGeneration EXCEPT ![r] = PinOf(r)']
        /\ PinOf(r)' = PinOf(r) => UNCHANGED PinnedGeneration
    BY <1>2, <1>4, OnePin DEF Leaves
  <2>3. CASE p = None
    <3>1. PinOf(r)' = 0
      BY <1>4, <2>3 DEF Leaves, PinOf, Pinned
    <3>2. Promise!Leave(r)
      BY <1>1, <2>1, <2>2, <2>3, <3>1 DEF Promise!Leave
    <3>3. QED
      BY <3>2 DEF Promise!Next
  <2>4. CASE p # None
    <3>1. PinOf(r)' = PinOf(r)
      BY <1>2, <1>4, <2>4 DEF Leaves, PinOf, Pinned, PCs
    <3>2. p \in IF req[r].gen = generation THEN {SharedPool} \ {None} ELSE PoolsOf(req[r].gen)
      <4>1. p.gen = req[r].gen
        BY <1>4, <2>4 DEF PoolsOf
      <4>2. QED
        BY <1>4, <2>4, <4>1 DEF SharedPool
    <3>3. Promise!Take(r)
      BY <1>1, <2>1, <2>2, <3>1, <3>2 DEF Promise!Take
    <3>4. QED
      BY <3>3 DEF Promise!Next
  <2>5. QED
    BY <2>3, <2>4
<1>5. QED
  BY <1>3, <1>4, LeavesWithShared

\* Asking for a pool joins the current epoch or begins one, without a pool.
LEMMA PinMaps ==
  ASSUME SharedInv, NEW r \in Requests, Pin(r)
  PROVE  Promise!Next
<1> USE DEF SharedInv, IInv, PoolInv, IsCurrent
<1>1. SharedPool' = SharedPool
  <2>1. cached' = cached /\ (cached # None => cached.gen \in 1..clock)
    BY DEF Pin, Bounds
  <2>2. generation' = generation \/ (generation = 0 /\ generation' = clock + 1)
    BY PinEffect
  <2>3. QED
    BY <2>1, <2>2 DEF SharedPool, TypeOK
<1>2. /\ PinOf(r) = 0 /\ PinOf(r)' = generation'
      /\ req'[r].pool = req[r].pool
      /\ clock' = generation'
  BY PinEffect DEF Pin, At, PinOf, Pinned, PCs, Waiting, Bounds, TypeOK
<1>3. generation' = IF generation # 0 THEN generation ELSE clock + 1
  BY PinEffect
<1>4. \A s \in Requests : s # r => req'[s] = req[s]
  BY PinEffect DEF Only
<1>5. /\ PinnedGeneration[r] = 0
      /\ PinnedGeneration' = [PinnedGeneration EXCEPT ![r] = generation']
      /\ UNCHANGED PoolInUse
  BY <1>2, <1>4, OnePin
<1>6. Promise!Ask(r)
  BY <1>1, <1>2, <1>3, <1>5 DEF Promise!Ask
<1>7. QED
  BY <1>6 DEF Promise!Next

\* The look-up takes the cached pool, or is not seen.
LEMMA GetMaps ==
  ASSUME SharedInv, NEW r \in Requests, Get(r)
  PROVE  Promise!Next \/ UNCHANGED Promise!vars
<1> USE DEF SharedInv, IInv, PoolInv, IsCurrent
<1>1. UNCHANGED <<generation, clock, cached, SharedPool>>
  BY DEF Get, SharedPool
<1>2. /\ req[r].pc \in Pinned /\ req'[r].pc \in Pinned /\ req'[r].gen = req[r].gen
      /\ req[r].pool = None
  BY GetEffect DEF Get, At, Pinned, PCs, Waiting, PoolOwned
<1>3. PinOf(r)' = PinOf(r) /\ PinOf(r) = req[r].gen /\ req[r].gen # 0
  BY <1>2 DEF PinOf, Bounds, TypeOK
<1>4. \A s \in Requests : s # r => req'[s] = req[s]
  BY GetEffect DEF Only
<1>5. CASE Hit(r)
  <2>1. cached # None /\ cached.gen = req[r].gen /\ req'[r].pool = cached
    BY <1>5, GetEffect DEF Hit
  <2>2. cached \in PoolsOf(req[r].gen)
    BY <2>1 DEF TypeOK, Pool, PoolsOf
  <2>3. cached \in IF req[r].gen = generation THEN {SharedPool} \ {None} ELSE PoolsOf(req[r].gen)
    BY <2>1, <2>2 DEF SharedPool
  <2>4. /\ PinnedGeneration[r] = req[r].gen /\ PoolInUse[r] = None
        /\ UNCHANGED PinnedGeneration
        /\ PoolInUse' = [PoolInUse EXCEPT ![r] = cached] /\ PoolInUse'[r] = cached
    BY <1>2, <1>3, <1>4, <2>1, OnePin
  <2>5. Promise!Take(r)
    BY <1>1, <1>3, <2>3, <2>4 DEF Promise!Take
  <2>6. QED
    BY <2>5 DEF Promise!Next
<1>6. CASE ~Hit(r)
  <2>1. UNCHANGED <<PinnedGeneration, PoolInUse>>
    BY <1>3, <1>4, <1>6, GetEffect, OnePin
  <2>2. QED
    BY <1>1, <2>1 DEF Promise!vars
<1>7. QED
  BY <1>5, <1>6

\* A query that ends leaves.
LEMMA QueryMaps ==
  ASSUME SharedInv, NEW r \in Requests, QueryEnds(r) \/ QueryFails(r)
  PROVE  Promise!Next
<1> USE DEF SharedInv, IInv, PoolInv
<1>1. UNCHANGED <<generation, clock, cached, SharedPool>>
  BY DEF QueryEnds, QueryFails, SharedPool, IsCurrent
<1>2. PinOf(r) = req[r].gen /\ PinOf(r) # 0
  <2>1. req[r].pc \in Pinned
    BY DEF QueryEnds, QueryFails, At, Pinned, PCs
  <2>2. QED
    BY <2>1 DEF PinOf, Bounds, TypeOK
<1>3. /\ req'[r].pc \notin Pinned /\ req'[r].pool = None
      /\ \A s \in Requests : s # r => req'[s] = req[s]
  BY DoneEffect, FreshReq, QueryFailsEffect DEF QueryEnds, Only, Pinned
<1>4. PinOf(r)' = 0
  BY <1>3 DEF PinOf
<1>5. Promise!Leave(r)
  BY <1>1, <1>2, <1>3, <1>4, OnePin DEF Promise!Leave
<1>6. QED
  BY <1>5 DEF Promise!Next

\* Steps of a request that the promise does not see: it begins, waits for
\* the lock, begins again after an eviction, or gives up.
LEMMA UnseenSteps ==
  ASSUME SharedInv, NEW r \in Requests,
         Start(r) \/ BuildLock(r) \/ Acquire(r) \/ RetryAgain(r) \/ GiveUp(r)
  PROVE  UNCHANGED Promise!vars
<1> USE DEF SharedInv, IInv, PoolInv
<1>1. UNCHANGED <<generation, clock, SharedPool>>
  BY DEF Start, BuildLock, Acquire, RetryAgain, GiveUp, SharedPool, IsCurrent
<1>2. req[r].pc # "query" => req[r].pool = None
  BY DEF PoolOwned, At
<1>3. PinOf(r)' = PinOf(r) /\ req'[r].pool = req[r].pool
      /\ \A s \in Requests : s # r => req'[s] = req[s]
  <2>1. CASE Start(r)
    BY <1>2, <2>1, StartEffect DEF Start, At, Only, PinOf, Pinned
  <2>2. CASE BuildLock(r)
    BY <2>2, BuildLockEffect DEF BuildLock, At, Only, PinOf, Pinned, PCs, Waiting
  <2>3. CASE Acquire(r)
    BY <2>3, AcquireEffect DEF Acquire, At, Goes, PinOf, Pinned, PCs, Waiting, Locked
  <2>4. CASE RetryAgain(r)
    BY <2>4, StepGoes DEF RetryAgain, At, Goes, PinOf, Pinned, PCs, Waiting
  <2>5. CASE GiveUp(r)
    BY <1>2, <2>5, DoneEffect, FreshReq DEF GiveUp, At, Only, PinOf, Pinned
  <2>6. QED
    BY <2>1, <2>2, <2>3, <2>4, <2>5
<1>4. QED
  BY <1>1, <1>3, OnePin DEF Promise!vars

\* A retry evicts; the request itself had left already.
LEMMA RetryMaps ==
  ASSUME SharedInv, NEW r \in Requests, Retry(r)
  PROVE  Promise!Next \/ UNCHANGED Promise!vars
<1>1. RemoveGeneration(r) /\ UNCHANGED <<clock, cached>> /\ req[r].pc = "failed"
  BY DEF Retry, At
<1>2. req[r].pool = None /\ PinOf(r) = 0
  BY <1>1 DEF SharedInv, IInv, PoolOwned, At, PinOf, Pinned
<1>3. PinOf(r)' = 0 /\ req'[r].pool = None /\ \A s \in Requests : s # r => req'[s] = req[s]
  BY RetryEffect DEF SharedInv, IInv, Only, PinOf, Pinned
<1>4. UNCHANGED <<PinnedGeneration, PoolInUse>>
  BY <1>2, <1>3, OnePin
<1>5. QED
  BY <1>1, <1>4, EvictionMaps

\* Every step is a step of the promise, or none.
LEMMA StepMaps ==
  ASSUME SharedInv, [Next]_vars
  PROVE  Promise!Next \/ UNCHANGED Promise!vars
<1>1. CASE SaveConfig \/ CloseTab
  <2>1. RemoveGeneration(UI) /\ UNCHANGED <<clock, cached, PinnedGeneration, PoolInUse>>
    BY <1>1 DEF SaveConfig, CloseTab, PinnedGeneration, PoolInUse
  <2>2. QED
    BY <2>1, EvictionMaps
<1>2. ASSUME NEW e \in Evictors, Evict(e)
      PROVE  UNCHANGED Promise!vars
  <2>1. UNCHANGED <<generation, clock, PinnedGeneration, PoolInUse>>
    BY <1>2 DEF Evict, DropLocks, DropPool, PinnedGeneration, PoolInUse
  <2>2. SharedPool' = SharedPool
    <3>1. \A r \in Requests : At(r, "store") => ~Goes(r, "settle")
      BY <1>2 DEF Evict, DropLocks, DropPool, At, Goes
    <3>2. QED
      BY <2>1, <3>1, SharedEffect
  <2>3. QED
    BY <2>1, <2>2 DEF Promise!vars
<1>3. CASE UNCHANGED vars
  BY <1>3 DEF vars, Promise!vars, SharedPool, IsCurrent, PinnedGeneration, PoolInUse
<1>4. ASSUME NEW r \in Requests, Start(r) \/ Request(r) \/ Acquire(r)
      PROVE  Promise!Next \/ UNCHANGED Promise!vars
  BY <1>4, CacheStepMaps, PinMaps, GetMaps, QueryMaps, UnseenSteps, RetryMaps
     DEF Request, InCache
<1>5. QED
  BY <1>1, <1>2, <1>3, <1>4 DEF Next

\* The cache keeps its promise: evicting in steps, storing in steps and
\* looking up in between show no request half an eviction.
THEOREM Implements == Spec => EvictsAtOnce
<1>1. Init => Promise!Init
  <2>1. Init => /\ \A r \in Requests : req[r] = Fresh
                /\ generation = 0 /\ clock = 0 /\ SharedPool = None
    BY DEF Init, SharedPool
  <2>2. QED
    BY <2>1, FreshReq DEF Promise!Init, PinnedGeneration, PoolInUse, Pinned
<1>2. SharedInv /\ [Next]_vars => [Promise!Next]_(Promise!vars)
  BY StepMaps
<1>3. QED
  BY <1>1, <1>2, SharedInvariance, PTL DEF Spec, EvictsAtOnce, Promise!Spec

(***************************************************************************)
(* The configuration                                                       *)
(***************************************************************************)

PinnedAt(r) == req[r].pc \in Pinned

\* Where only the saved configuration is pinned, all that belongs to one
\* generation has one configuration, the saved one while it is current.
OneConfig ==
  /\ \A r \in Requests : PinnedAt(r) /\ IsCurrent(req[r].gen) => req[r].config = saved
  /\ \A r, s \in Requests :
       PinnedAt(r) /\ PinnedAt(s) /\ req[r].gen = req[s].gen => req[r].config = req[s].config
  /\ cached # None =>
       /\ IsCurrent(cached.gen) => cached.config = saved
       /\ \A r \in Requests :
            PinnedAt(r) /\ req[r].gen = cached.gen => req[r].config = cached.config

\* Who has a generation after a step had it before, or has just pinned it.
LEMMA PinnedCame ==
  ASSUME IInv, [Next]_vars, NEW r \in Requests, PinnedAt(r)'
  PROVE  /\ req'[r].config = req[r].config
         /\ \/ PinnedAt(r) /\ req'[r].gen = req[r].gen
            \/ Pin(r) /\ req'[r].gen = generation'
<1> USE DEF IInv, PoolInv, PinnedAt, Pinned
<1>1. CASE req'[r] = req[r]
  BY <1>1
<1>2. CASE req'[r] # req[r]
  <2>1. Start(r) \/ Request(r) \/ Acquire(r)
    BY <1>2, OthersStay DEF Next, Evict, DropLocks, DropPool, SaveConfig, CloseTab, vars
  <2>2. CASE InCache(r)
    BY <2>2, LockedEffect DEF Goes, Leaves, PCs, Locked
  <2>3. CASE Ends(r)
    BY <2>3, DoneEffect, FreshReq DEF Ends, QueryEnds, GiveUp
  <2>4. CASE RetryAgain(r)
    BY <2>4, StepGoes DEF RetryAgain, PCs, Waiting, Goes
  <2>5. CASE BuildLock(r) \/ Get(r)
    BY <2>5, BuildLockEffect, GetEffect DEF BuildLock, Get, At, PCs, Waiting
  <2>6. CASE Acquire(r)
    BY <2>6, AcquireEffect DEF Acquire, At, Goes, PCs, Waiting
  <2>7. CASE Start(r) \/ Pin(r) \/ QueryFails(r) \/ Retry(r)
    BY <2>7, StartEffect, PinEffect, QueryFailsEffect, RetryEffect
  <2>8. QED
    BY <2>1, <2>2, <2>3, <2>4, <2>5, <2>6, <2>7 DEF Request, InCache, Ends
<1>3. QED
  BY <1>1, <1>2

\* A query begins with a pool the request has built, or found for its
\* generation.
LEMMA QueryCame ==
  ASSUME SharedInv, [Next]_vars, NEW r \in Requests, At(r, "query")'
  PROVE  \/ req'[r] = req[r]
         \/ /\ PinnedAt(r) /\ req'[r].config = req[r].config
            /\ \/ req'[r].pool = Built(r)
               \/ cached # None /\ cached.gen = req[r].gen /\ req'[r].pool = cached
<1> USE DEF SharedInv, IInv, PoolInv, PinnedAt, Pinned, At
<1> SUFFICES ASSUME req'[r] # req[r]
             PROVE  /\ PinnedAt(r) /\ req'[r].config = req[r].config
                    /\ \/ req'[r].pool = Built(r)
                       \/ cached # None /\ cached.gen = req[r].gen /\ req'[r].pool = cached
  OBVIOUS
<1>1. Start(r) \/ Request(r) \/ Acquire(r)
  BY OthersStay DEF Next, Evict, DropLocks, DropPool, SaveConfig, CloseTab, vars
<1>2. CASE InCache(r)
  <2>1. req[r].pc \in Locked
    BY <1>2, LockedEffect
  <2>2. PICK p \in Pool \cup {None} :
          Leaves(r, p) /\ (p \in {Built(r), None} \/ (Hit(r) /\ p = cached))
    BY <1>2, LeavesWithShared DEF Goes, Locked
  <2>3. QED
    BY <2>1, <2>2 DEF Leaves, Hit, PCs, Locked
<1>3. CASE Get(r)
  BY <1>3, GetEffect DEF Get, Hit, PCs, Waiting
<1>4. CASE Ends(r)
  BY <1>4, DoneEffect, FreshReq DEF Ends, QueryEnds, GiveUp
<1>5. CASE RetryAgain(r)
  BY <1>5, StepGoes DEF RetryAgain, PCs, Waiting, Goes
<1>6. CASE BuildLock(r) \/ Acquire(r)
  BY <1>6, BuildLockEffect, AcquireEffect DEF Goes
<1>7. CASE Start(r) \/ Pin(r) \/ QueryFails(r) \/ Retry(r)
  BY <1>7, StartEffect, PinEffect, QueryFailsEffect, RetryEffect
<1>8. QED
  BY <1>1, <1>2, <1>3, <1>4, <1>5, <1>6, <1>7 DEF Request, InCache, Ends

\* The configuration is saved when no generation is current any more.
LEMMA SavedEffect ==
  ASSUME [Next]_vars
  PROVE  saved' = saved \/ generation' = 0
BY DEF Next, Request, Evict, Start, Pin, Get, BuildLock, Acquire, Check, Reget, BuildOwn, Build,
   InsertCheck, Store, Settle, QueryEnds, QueryFails, Retry, RetryAgain, GiveUp, DropLocks,
   DropPool, SaveConfig, CloseTab, RemoveGeneration, vars

\* Every step that pins the saved configuration only keeps one configuration
\* per generation.
LEMMA NextConfig ==
  ASSUME SharedInv, OneConfig, FreshConfig, [Next]_vars, [PinsSaved]_vars
  PROVE  OneConfig' /\ FreshConfig'
<1> USE DEF SharedInv, IInv, PoolInv, IsCurrent
<1>t. TypeOK' /\ clock \in Nat
  BY NextInv DEF TypeOK
<1>0. ASSUME NEW r \in Requests, PinnedAt(r)
      PROVE  req[r].gen \in 1..clock
  BY <1>0 DEF Bounds, PinnedAt
<1>1. ASSUME NEW r \in Requests, Pin(r)
      PROVE  req[r].config = saved /\ saved' = saved
  <2>1. req[r].pc = "pin" /\ req'[r].pc = "get"
    BY <1>1, PinEffect DEF Pin, At
  <2>2. PinsSaved
    BY <2>1 DEF vars
  <2>3. QED
    BY <1>1, <2>1, <2>2 DEF Pin, PinsSaved, At
<1>2. ASSUME NEW r \in Requests, PinnedAt(r)', generation' = req'[r].gen
      PROVE  req'[r].config = saved'
  <2>1. CASE PinnedAt(r) /\ req'[r].gen = req[r].gen
    <3>1. generation = req[r].gen /\ req[r].gen # 0
      BY <1>t, <1>0, <1>2, <2>1, NeverAgain
    <3>2. QED
      BY <1>2, <2>1, <3>1, SavedEffect, PinnedCame DEF OneConfig
  <2>2. CASE Pin(r)
    BY <1>1, <1>2, <2>2, PinnedCame
  <2>3. QED
    BY <1>2, <2>1, <2>2, PinnedCame
<1>3. ASSUME NEW r \in Requests, NEW s \in Requests, PinnedAt(r)', PinnedAt(s)',
             req'[r].gen = req'[s].gen
      PROVE  req'[r].config = req'[s].config
  <2>1. CASE \/ Pin(r) /\ req'[r].gen = generation'
             \/ Pin(s) /\ req'[s].gen = generation'
    BY <1>2, <1>3, <2>1
  <2>2. CASE PinnedAt(r) /\ req'[r].gen = req[r].gen /\ PinnedAt(s) /\ req'[s].gen = req[s].gen
    BY <1>3, <2>2, PinnedCame DEF OneConfig
  <2>3. QED
    BY <1>3, <2>1, <2>2, PinnedCame
<1>4. ASSUME cached' # None
      PROVE  /\ generation' = cached'.gen => cached'.config = saved'
             /\ \A r \in Requests :
                  PinnedAt(r)' /\ req'[r].gen = cached'.gen => req'[r].config = cached'.config
  <2>1. CASE cached' = cached
    <3>1. cached.gen \in 1..clock
      BY <1>4, <2>1 DEF Bounds
    <3>2. generation' = cached.gen => cached.config = saved'
      <4>1. generation' = cached.gen => generation = cached.gen /\ generation' # 0
        BY <1>t, <3>1, NeverAgain
      <4>2. QED
        BY <1>4, <2>1, <4>1, SavedEffect DEF OneConfig
    <3>3. ASSUME NEW r \in Requests, PinnedAt(r)', req'[r].gen = cached.gen
          PROVE  req'[r].config = cached.config
      <4>1. CASE Pin(r) /\ req'[r].gen = generation'
        BY <1>2, <3>2, <3>3, <4>1
      <4>2. CASE PinnedAt(r) /\ req'[r].gen = req[r].gen
        BY <1>4, <2>1, <3>3, <4>2, PinnedCame DEF OneConfig
      <4>3. QED
        BY <3>3, <4>1, <4>2, PinnedCame
    <3>4. QED
      BY <2>1, <3>2, <3>3
  <2>2. ASSUME NEW u \in Requests, Goes(u, "settle"), cached' = Built(u)
        PROVE  /\ generation' = cached'.gen => cached'.config = saved'
               /\ \A r \in Requests :
                    PinnedAt(r)' /\ req'[r].gen = cached'.gen => req'[r].config = cached'.config
    <3>1. /\ PinnedAt(u)' /\ req'[u].gen = cached'.gen /\ req'[u].config = cached'.config
      BY <2>2, BuiltPool DEF Goes, PinnedAt, Pinned, PCs, Locked
    <3>2. QED
      BY <1>2, <1>3, <3>1
  <2>3. QED
    BY <1>4, <2>1, <2>2, CacheEffect
<1>5. ASSUME NEW r \in Requests, At(r, "query")'
      PROVE  req'[r].pool.config = req'[r].config
  <2>1. CASE req'[r] = req[r]
    BY <1>5, <2>1 DEF FreshConfig, At
  <2>2. CASE req'[r].config = req[r].config /\ req'[r].pool = Built(r)
    BY <2>2, BuiltPool
  <2>3. CASE /\ PinnedAt(r) /\ req'[r].config = req[r].config
             /\ cached # None /\ cached.gen = req[r].gen /\ req'[r].pool = cached
    BY <2>3 DEF OneConfig
  <2>4. QED
    BY <1>5, <2>1, <2>2, <2>3, QueryCame
<1>6. OneConfig'
  BY <1>2, <1>3, <1>4 DEF OneConfig
<1>7. QED
  BY <1>5, <1>6 DEF FreshConfig

\* A request works on a pool of the configuration it was sent with, unless
\* somebody pins a generation with a configuration that is no longer the
\* saved one: a retry, or a request that was sent before the save. Evicting,
\* building and sharing never mix configurations by themselves.
THEOREM FreshUnlessPinnedOld == Spec /\ [][PinsSaved]_vars => []FreshConfig
<1>1. Init => OneConfig /\ FreshConfig
  <2>1. Init => cached = None /\ \A r \in Requests : req[r].pc = "done"
    BY FreshReq DEF Init
  <2>2. QED
    BY <2>1 DEF OneConfig, FreshConfig, PinnedAt, Pinned, At
<1>2. SharedInv /\ (OneConfig /\ FreshConfig) /\ [Next]_vars /\ [PinsSaved]_vars
      => (OneConfig /\ FreshConfig)'
  BY NextConfig
<1>3. QED
  BY <1>1, <1>2, SharedInvariance, PTL DEF Spec
=============================================================================
