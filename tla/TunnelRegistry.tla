--------------------------- MODULE TunnelRegistry ---------------------------
(***************************************************************************)
(* The SSH tunnels of the database drivers: a process-wide registry from   *)
(* connections to slots, and in each slot at most one running ssh child.   *)
(* Drivers call ensure() on blocking threads; saving or closing a          *)
(* connection calls evict(), and leaving the program shutdown_all().       *)
(*                                                                         *)
(* Both kinds of lock are held across several steps here, because one      *)
(* thread may wait for a slot's lock while it holds the registry's.        *)
(***************************************************************************)
EXTENDS Naturals, FiniteSets

CONSTANTS
  Ids,        \* connections
  Wants,      \* [Ids -> sets of fingerprints], a connection's configurations
  Callers,    \* threads in ensure()
  Closers,    \* threads in evict() or shutdown_all()
  Slots,      \* identities of the reference-counted slots
  Pids,       \* ssh children; bound: how many can run at once
  MaxActive,  \* MAX_ACTIVE_TUNNELS
  None

Threads == Callers \cup Closers
Fingerprints == UNION {Wants[i] : i \in Ids}
Tunnel == [pid : Pids, want : Fingerprints]

ASSUME NameAssumption ==
  /\ Callers \cap Closers = {}
  /\ None \notin Threads /\ None \notin Slots /\ None \notin Ids
  /\ None \notin Fingerprints /\ None \notin Tunnel
ASSUME BoundAssumption ==
  MaxActive \in Nat \ {0} /\ IsFiniteSet(Ids) /\ IsFiniteSet(Callers) /\ IsFiniteSet(Closers)

VARIABLES
  registry,   \* the map: connection -> slot
  regLock,    \* who holds the registry's lock across a wait
  content,    \* what is in a slot
  slotLock,   \* who holds a slot's lock
  alive,      \* the children that run
  late,       \* those started in a slot that was not registered any more
  ensure,     \* the calls of ensure
  close       \* the calls of evict and shutdown_all

vars == <<registry, regLock, content, slotLock, alive, late, ensure, close>>

Returned == [pc |-> "idle", id |-> None, want |-> None, slot |-> None]
Closed == [pc |-> "idle", slot |-> None, todo |-> {}]

Registered == {i \in Ids : registry[i] # None}
RegisteredSlots == {registry[i] : i \in Registered}

\* The Arcs of a slot: one in the map, one with each thread that works on it.
Holders(s) ==
  {t \in Callers : ensure[t].slot = s} \cup {t \in Closers : close[t].slot = s \/ s \in close[t].todo}
StrongCount(s) == Cardinality({i \in Ids : registry[i] = s}) + Cardinality(Holders(s))

\* A slot without an Arc is dropped (and its child goes on): any such name
\* stands for a new slot. Likewise for a new child.
Unused == {s \in Slots : StrongCount(s) = 0}
NewSlot == CHOOSE s \in Unused : TRUE
NewPids == Pids \ (alive \cup {content[x].pid : x \in {y \in Slots : content[y] # None}})

(***************************************************************************)
(* ensure                                                                  *)
(***************************************************************************)

Call(t, i, w) ==
  /\ ensure[t].pc = "idle"
  /\ ensure' = [ensure EXCEPT ![t] = [pc |-> "slot", id |-> i, want |-> w, slot |-> None]]
  /\ UNCHANGED <<registry, regLock, content, slotLock, alive, late, close>>

\* Mutant: one slot too many.
CanAllocateOneMore(i) == i \in Registered \/ Cardinality(Registered) <= MaxActive

\* can_allocate_tunnel_slot
CanAllocate(i) == i \in Registered \/ Cardinality(Registered) < MaxActive

\* slot_for: the connection's slot, a new one, or an error at the limit.
SlotFor(t) ==
  LET i == ensure[t].id
  IN /\ ensure[t].pc = "slot"
     /\ regLock = None
     /\ \/ /\ ~CanAllocate(i)
           /\ ensure' = [ensure EXCEPT ![t] = Returned]
           /\ UNCHANGED <<registry, content>>
        \/ /\ i \in Registered
           /\ ensure' = [ensure EXCEPT ![t].pc = "lock", ![t].slot = registry[i]]
           /\ UNCHANGED <<registry, content>>
        \/ /\ i \notin Registered
           /\ CanAllocate(i)
           /\ Unused # {}
           /\ registry' = [registry EXCEPT ![i] = NewSlot]
           /\ content' = [content EXCEPT ![NewSlot] = None]
           /\ ensure' = [ensure EXCEPT ![t].pc = "lock", ![t].slot = NewSlot]
     /\ UNCHANGED <<regLock, slotLock, alive, late, close>>

\* Stopping a tunnel kills its child, if it still runs, and waits for it.
Killed(s) == IF content[s] = None THEN {} ELSE {content[s].pid}

\* Mutant: whatever a running tunnel forwards to.
ReusableIfAlive(s, w) == content[s] # None /\ content[s].pid \in alive

Reusable(s, w) == content[s] # None /\ content[s].pid \in alive /\ content[s].want = w

\* With the slot's lock, a running tunnel of the same fingerprint is used
\* again,
Reuse(t) ==
  LET s == ensure[t].slot
  IN /\ ensure[t].pc = "lock"
     /\ slotLock[s] = None
     /\ Reusable(s, ensure[t].want)
     /\ ensure' = [ensure EXCEPT ![t] = Returned]
     /\ UNCHANGED <<registry, regLock, content, slotLock, alive, late, close>>

\* Mutant: the tunnel that is replaced goes on.
DiscardRunning(t) ==
  LET s == ensure[t].slot
  IN /\ ensure[t].pc = "lock"
     /\ slotLock[s] = None
     /\ ~Reusable(s, ensure[t].want)
     /\ slotLock' = [slotLock EXCEPT ![s] = t]
     /\ content' = [content EXCEPT ![s] = None]
     /\ ensure' = [ensure EXCEPT ![t].pc = "build"]
     /\ UNCHANGED <<registry, regLock, alive, late, close>>

\* another one is stopped before the new one is built.
Discard(t) ==
  LET s == ensure[t].slot
  IN /\ ensure[t].pc = "lock"
     /\ slotLock[s] = None
     /\ ~Reusable(s, ensure[t].want)
     /\ slotLock' = [slotLock EXCEPT ![s] = t]
     /\ content' = [content EXCEPT ![s] = None]
     /\ alive' = alive \ Killed(s)
     /\ late' = late \ Killed(s)
     /\ ensure' = [ensure EXCEPT ![t].pc = "build"]
     /\ UNCHANGED <<registry, regLock, close>>

\* build_tunnel starts a child and waits until it forwards: it holds the
\* slot's lock for up to READY_TIMEOUT.
BuildReady(t) ==
  LET s == ensure[t].slot
  IN /\ ensure[t].pc = "build"
     /\ NewPids # {}
     /\ LET p == CHOOSE p \in NewPids : TRUE
        IN /\ content' = [content EXCEPT ![s] = [pid |-> p, want |-> ensure[t].want]]
           /\ alive' = alive \cup {p}
           /\ late' = IF s \in RegisteredSlots THEN late ELSE late \cup {p}
     /\ slotLock' = [slotLock EXCEPT ![s] = None]
     /\ ensure' = [ensure EXCEPT ![t] = Returned]
     /\ UNCHANGED <<registry, regLock, close>>

\* Mutant: the guard of the slot is kept for the clean-up.
BuildFailsHolding(t) ==
  /\ ensure[t].pc = "build"
  /\ ensure' = [ensure EXCEPT ![t].pc = "cleanup"]
  /\ UNCHANGED <<registry, regLock, content, slotLock, alive, late, close>>

\* A child that does not get ready is terminated.
BuildFails(t) ==
  /\ ensure[t].pc = "build"
  /\ slotLock' = [slotLock EXCEPT ![ensure[t].slot] = None]
  /\ ensure' = [ensure EXCEPT ![t].pc = "cleanup"]
  /\ UNCHANGED <<registry, regLock, content, alive, late, close>>

\* remove_unused_slot: with the registry locked it waits for the slot ...
CleanupLock(t) ==
  /\ ensure[t].pc = "cleanup"
  /\ regLock = None
  /\ regLock' = t
  /\ ensure' = [ensure EXCEPT ![t].pc = "unused"]
  /\ UNCHANGED <<registry, content, slotLock, alive, late, close>>

\* Mutant: without counting who else works on it.
RemovableWhileUsed(i, s) == registry[i] = s /\ content[s] = None

Removable(i, s) == registry[i] = s /\ content[s] = None /\ StrongCount(s) = 2

\* ... and takes it out of the map if nobody else works on it.
CleanupLook(t) ==
  LET s == ensure[t].slot
      i == ensure[t].id
  IN /\ ensure[t].pc = "unused"
     /\ slotLock[s] = None
     /\ registry' = IF Removable(i, s) THEN [registry EXCEPT ![i] = None] ELSE registry
     /\ regLock' = None
     /\ ensure' = [ensure EXCEPT ![t] = Returned]
     /\ UNCHANGED <<content, slotLock, alive, late, close>>

(***************************************************************************)
(* evict and shutdown_all                                                  *)
(***************************************************************************)

\* Mutant: evict goes on without a slot.
EvictAnyway(t, i) ==
  /\ close[t].pc = "idle"
  /\ regLock = None
  /\ registry' = [registry EXCEPT ![i] = None]
  /\ close' = [close EXCEPT ![t] = [pc |-> "stop", slot |-> registry[i], todo |-> {}]]
  /\ UNCHANGED <<regLock, content, slotLock, alive, late, ensure>>

\* The slot leaves the map; without one there is nothing to do.
Evict(t, i) ==
  /\ close[t].pc = "idle"
  /\ regLock = None
  /\ i \in Registered
  /\ registry' = [registry EXCEPT ![i] = None]
  /\ close' = [close EXCEPT ![t] = [pc |-> "stop", slot |-> registry[i], todo |-> {}]]
  /\ UNCHANGED <<regLock, content, slotLock, alive, late, ensure>>

ShutdownAll(t) ==
  /\ close[t].pc = "idle"
  /\ regLock = None
  /\ Cardinality(Registered) > 0
  /\ registry' = [i \in Ids |-> None]
  /\ \E s \in RegisteredSlots :
       close' = [close EXCEPT ![t] = [pc |-> "stop", slot |-> s, todo |-> RegisteredSlots \ {s}]]
  /\ UNCHANGED <<regLock, content, slotLock, alive, late, ensure>>

\* One slot after the other is locked and its tunnel stopped.
Stop(t) ==
  LET s == close[t].slot
  IN /\ close[t].pc = "stop"
     /\ slotLock[s] = None
     /\ content' = [content EXCEPT ![s] = None]
     /\ alive' = alive \ Killed(s)
     /\ late' = late \ Killed(s)
     /\ \/ /\ close[t].todo = {}
           /\ close' = [close EXCEPT ![t] = Closed]
        \/ \E n \in close[t].todo :
             close' = [close EXCEPT ![t].slot = n, ![t].todo = @ \ {n}]
     /\ UNCHANGED <<registry, regLock, slotLock, ensure>>

\* A child may end at any time; its tunnel finds out when it is next used.
Dies(p) ==
  /\ p \in alive
  /\ alive' = alive \ {p}
  /\ late' = late \ {p}
  /\ UNCHANGED <<registry, regLock, content, slotLock, ensure, close>>

(***************************************************************************)
(* The specification                                                       *)
(***************************************************************************)

Init ==
  /\ registry = [i \in Ids |-> None]
  /\ regLock = None
  /\ content = [s \in Slots |-> None]
  /\ slotLock = [s \in Slots |-> None]
  /\ alive = {}
  /\ late = {}
  /\ ensure = [t \in Callers |-> Returned]
  /\ close = [t \in Closers |-> Closed]

Works(t) == BuildReady(t) \/ BuildFails(t)
Waits(t) == SlotFor(t) \/ Reuse(t) \/ Discard(t) \/ CleanupLock(t) \/ CleanupLook(t)

Next ==
  \/ \E t \in Callers : Works(t) \/ Waits(t) \/ \E i \in Ids : \E w \in Wants[i] : Call(t, i, w)
  \/ \E t \in Closers : Stop(t) \/ ShutdownAll(t) \/ \E i \in Ids : Evict(t, i)
  \/ \E p \in Pids : Dies(p)

Spec == Init /\ [][Next]_vars

\* Threads go on, a build ends (READY_TIMEOUT), and a lock that is free again
\* and again is given to each thread that waits for it.
Fairness ==
  /\ \A t \in Callers : WF_vars(Works(t)) /\ SF_vars(Waits(t))
  /\ \A t \in Closers : SF_vars(Stop(t))
FairSpec == Spec /\ Fairness

(***************************************************************************)
(* Correctness                                                             *)
(***************************************************************************)

\* Every variable has its type.
TypeOK ==
  /\ registry \in [Ids -> Slots \cup {None}]
  /\ regLock \in Callers \cup {None}
  /\ content \in [Slots -> Tunnel \cup {None}]
  /\ slotLock \in [Slots -> Callers \cup {None}]
  /\ late \subseteq alive /\ alive \subseteq Pids
  /\ ensure \in [Callers -> [pc : {"idle", "slot", "lock", "build", "cleanup", "unused"},
                             id : Ids \cup {None}, want : Fingerprints \cup {None},
                             slot : Slots \cup {None}]]
  /\ close \in [Closers -> [pc : {"idle", "stop"}, slot : Slots \cup {None},
                            todo : SUBSET Slots]]
  /\ \A t \in Closers : close[t].pc = "stop" <=> close[t].slot # None

\* However calls and failed set-ups interleave, the registry keeps to its
\* limit and no two connections share a slot.
RegistryBound ==
  /\ Cardinality(Registered) <= MaxActive
  /\ \A i, j \in Registered : registry[i] = registry[j] => i = j

\* Who will stop the child p: it is in a slot that the registry knows, or
\* that evict or shutdown_all is about to come to.
Owned(p) ==
  \E s \in Slots :
    /\ content[s] # None /\ content[s].pid = p
    /\ s \in RegisteredSlots \/ \E t \in Closers : t \in Holders(s)

\* The only children nobody is going to stop are those that were started for
\* a call whose slot had been taken away: replacing a tunnel and evicting one
\* leave none behind.
LeftOnlyLate == \A p \in alive \ late : Owned(p)

\* evict "closes and removes the connection's tunnel", shutdown_all "closes
\* all tunnels": no child runs that the registry has forgotten.
NoOrphanTunnel == \A p \in alive : Owned(p)

\* Nothing takes a slot out of the map while a call may still start a child
\* in it.
StaysRegistered ==
  \A t \in Callers :
    LET i == ensure[t].id
        s == ensure[t].slot
    IN ensure[t].pc \in {"lock", "build"} /\ ensure'[t].pc \in {"lock", "build"}
       /\ registry[i] = s => registry'[i] = s

\* A call that failed never takes the slot away from one that still works on
\* it, so that these do not end up with two tunnels for one connection.
OnlyEvictionDetaches ==
  [][\A t \in Callers :
       LET i == ensure[t].id
           s == ensure[t].slot
       IN s # None /\ registry[i] = s /\ ensure'[t].slot = s /\ registry'[i] # s
          => \E c \in Closers : close'[c].slot = s \/ s \in close'[c].todo]_vars

\* A call that succeeds leaves a tunnel of its own fingerprint in its slot.
ReturnsWanted ==
  [][\A t \in Callers :
       ensure[t].pc \in {"lock", "build"} /\ ensure'[t].pc = "idle"
       => /\ content'[ensure[t].slot] # None
          /\ content'[ensure[t].slot].want = ensure[t].want
          /\ content'[ensure[t].slot].pid \in alive']_vars

\* Every call returns, although one may wait for a slot with the registry
\* locked: whoever holds a slot never waits for the registry.
EveryCallReturns ==
  /\ \A t \in Callers : ensure[t].pc # "idle" ~> ensure[t].pc = "idle"
  /\ \A t \in Closers : close[t].pc # "idle" ~> close[t].pc = "idle"
=============================================================================
