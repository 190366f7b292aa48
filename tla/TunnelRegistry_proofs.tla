----------------------- MODULE TunnelRegistry_proofs -----------------------
(***************************************************************************)
(* Proofs about TunnelRegistry, for any finite number of connections and   *)
(* threads and any number of slots and children.                           *)
(*                                                                         *)
(* What the reference count of a slot says comes first: a slot without     *)
(* references is known to nobody, and one with two references, from the    *)
(* map and from the thread that asks, to nobody else.                      *)
(***************************************************************************)
EXTENDS TunnelRegistry, FiniteSetTheorems, TLAPS

InMap(s) == {i \in Ids : registry[i] = s}

\* Both kinds of reference can be counted.
LEMMA CountsAreFinite ==
  ASSUME NEW s
  PROVE  /\ IsFiniteSet(InMap(s)) /\ Cardinality(InMap(s)) \in Nat
         /\ IsFiniteSet(Holders(s)) /\ Cardinality(Holders(s)) \in Nat
         /\ StrongCount(s) = Cardinality(InMap(s)) + Cardinality(Holders(s))
<1>1. IsFiniteSet(Callers \cup Closers)
  BY BoundAssumption, FS_Union
<1>2. InMap(s) \in SUBSET Ids /\ Holders(s) \in SUBSET (Callers \cup Closers)
  BY DEF InMap, Holders
<1>3. IsFiniteSet(InMap(s)) /\ IsFiniteSet(Holders(s))
  BY <1>1, <1>2, BoundAssumption, FS_Subset
<1>4. QED
  BY <1>3, FS_CardinalityType DEF StrongCount, InMap

\* Nobody knows an unused slot.
LEMMA UnusedIsUnknown ==
  ASSUME NEW s \in Unused
  PROVE  InMap(s) = {} /\ Holders(s) = {}
<1>1. Cardinality(InMap(s)) = 0 /\ Cardinality(Holders(s)) = 0
  BY CountsAreFinite DEF Unused
<1>2. QED
  BY <1>1, CountsAreFinite, FS_EmptySet

\* Two references are the map's and that of the thread that asks.
LEMMA TwoReferences ==
  ASSUME NEW s, StrongCount(s) = 2, NEW i \in InMap(s), NEW t \in Holders(s)
  PROVE  InMap(s) = {i} /\ Holders(s) = {t}
<1>1. Cardinality(InMap(s)) # 0 /\ Cardinality(Holders(s)) # 0
  BY CountsAreFinite, FS_EmptySet
<1>2. Cardinality(InMap(s)) = 1 /\ Cardinality(Holders(s)) = 1
  BY <1>1, CountsAreFinite
<1>3. (\E x : InMap(s) = {x}) /\ (\E x : Holders(s) = {x})
  BY <1>2, CountsAreFinite, FS_Singleton
<1>4. QED
  BY <1>3

(***************************************************************************)
(* The calls of ensure and of the closers                                  *)
(***************************************************************************)

EnsureCall ==
  [pc : {"idle", "slot", "lock", "build", "cleanup", "unused"},
   id : Ids \cup {None}, want : Fingerprints \cup {None}, slot : Slots \cup {None}]
CloseCall ==
  [pc : {"idle", "stop"}, slot : Slots \cup {None}, todo : SUBSET Slots]

\* What a call knows at each of its steps.
EnsureGood(r) ==
  /\ r.pc # "idle" => r.id \in Ids /\ r.want \in Fingerprints
  /\ r.pc \in {"lock", "build", "cleanup", "unused"} <=> r.slot # None

EnsureInv == \A t \in Callers : EnsureGood(ensure[t])

\* Who builds holds its slot, and has emptied it.
BuildInv ==
  \A t \in Callers : ensure[t].pc = "build" =>
    /\ slotLock[ensure[t].slot] = t
    /\ content[ensure[t].slot] = None

\* Only the call t changes, to r.
EnsureBecomes(t, r) ==
  /\ ensure' \in [Callers -> EnsureCall]
  /\ ensure'[t] = r
  /\ \A u \in Callers : u # t => ensure'[u] = ensure[u]

CloseBecomes(t, r) ==
  /\ close' \in [Closers -> CloseCall]
  /\ close'[t] = r
  /\ \A u \in Closers : u # t => close'[u] = close[u]

LEMMA EnsureEffect ==
  ASSUME TypeOK, NEW t \in Callers, NEW r \in EnsureCall, ensure' = [ensure EXCEPT ![t] = r]
  PROVE  EnsureBecomes(t, r)
BY DEF TypeOK, EnsureBecomes, EnsureCall

LEMMA CloseEffect ==
  ASSUME TypeOK, NEW t \in Closers, NEW r \in CloseCall, close' = [close EXCEPT ![t] = r]
  PROVE  CloseBecomes(t, r)
BY DEF TypeOK, CloseBecomes, CloseCall

LEMMA ReturnedGood == Returned \in EnsureCall /\ EnsureGood(Returned) /\ Returned.pc = "idle" /\ Returned.slot = None
BY DEF Returned, EnsureCall, EnsureGood

\* A call that moves to pc with the slot s.
Moved(t, pc, s) == ensure' = [ensure EXCEPT ![t].pc = pc, ![t].slot = s]

LEMMA MoveEffect ==
  ASSUME TypeOK, NEW t \in Callers,
         NEW pc \in {"lock", "build", "cleanup", "unused"}, NEW s \in Slots,
         Moved(t, pc, s), EnsureGood(ensure[t]), ensure[t].pc # "idle"
  PROVE  \E r \in EnsureCall : /\ EnsureBecomes(t, r) /\ EnsureGood(r)
                               /\ r.pc = pc /\ r.slot = s
                               /\ r.id = ensure[t].id /\ r.want = ensure[t].want
<1> DEFINE r == [ensure[t] EXCEPT !.pc = pc, !.slot = s]
<1>0. ensure \in [Callers -> EnsureCall]
  BY DEF TypeOK, EnsureCall
<1>1. /\ r \in EnsureCall /\ r.pc = pc /\ r.slot = s
      /\ r.id = ensure[t].id /\ r.want = ensure[t].want
  BY <1>0 DEF EnsureCall
<1>2. ensure' = [ensure EXCEPT ![t] = r]
  BY <1>0 DEF EnsureCall, Moved
<1> HIDE DEF r
<1>3. s # None
  BY NameAssumption
<1>4. EnsureGood(r)
  BY <1>1, <1>3 DEF EnsureGood
<1>5. EnsureBecomes(t, r)
  BY <1>1, <1>2, EnsureEffect
<1>6. QED
  BY <1>1, <1>4, <1>5

LEMMA MoveOnEffect ==
  ASSUME TypeOK, NEW t \in Callers,
         NEW pc \in {"lock", "build", "cleanup", "unused"},
         ensure' = [ensure EXCEPT ![t].pc = pc], EnsureGood(ensure[t]), ensure[t].slot # None
  PROVE  \E r \in EnsureCall : /\ EnsureBecomes(t, r) /\ EnsureGood(r)
                               /\ r.pc = pc /\ r.slot = ensure[t].slot
                               /\ r.id = ensure[t].id /\ r.want = ensure[t].want
<1>0. ensure \in [Callers -> EnsureCall]
  BY DEF TypeOK, EnsureCall
<1>1. ensure[t].slot \in Slots /\ ensure[t].pc # "idle"
  BY <1>0 DEF EnsureCall, EnsureGood
<1>2. Moved(t, pc, ensure[t].slot)
  BY <1>0 DEF EnsureCall, Moved
<1>3. QED
  BY <1>1, <1>2, MoveEffect

(***************************************************************************)
(* What the steps of ensure do                                             *)
(***************************************************************************)

LEMMA TypeFacts ==
  ASSUME TypeOK
  PROVE  /\ ensure \in [Callers -> EnsureCall] /\ close \in [Closers -> CloseCall]
         /\ registry \in [Ids -> Slots \cup {None}] /\ content \in [Slots -> Tunnel \cup {None}]
         /\ slotLock \in [Slots -> Callers \cup {None}]
BY DEF TypeOK, EnsureCall, CloseCall

\* Whatever step a caller takes, its call stays good and it works on no slot
\* but its old one, except when it takes one from the registry.
CallerMoves(t) ==
  \E r \in EnsureCall :
    /\ EnsureBecomes(t, r) /\ EnsureGood(r)
    /\ \/ r.slot = None
       \/ r.slot = ensure[t].slot /\ r.id = ensure[t].id
       \/ ensure[t].pc = "slot" /\ r.pc = "lock"

CallerActs(t) == Works(t) \/ Waits(t) \/ \E i \in Ids : \E w \in Wants[i] : Call(t, i, w)

LEMMA CallMoves ==
  ASSUME TypeOK, NEW t \in Callers, NEW i \in Ids, NEW w \in Wants[i], Call(t, i, w)
  PROVE  CallerMoves(t)
<1> DEFINE r == [pc |-> "slot", id |-> i, want |-> w, slot |-> None]
<1>1. w \in Fingerprints
  BY DEF Fingerprints
<1>2. r \in EnsureCall /\ EnsureGood(r) /\ r.slot = None
  BY <1>1 DEF EnsureCall, EnsureGood
<1>3. ensure' = [ensure EXCEPT ![t] = r]
  BY DEF Call
<1> HIDE DEF r
<1>4. QED
  BY <1>2, <1>3, EnsureEffect DEF CallerMoves

\* slot_for fails, finds the slot of the connection, or makes an unused one
\* its slot.
SlotForNew(t) ==
  /\ ensure[t].id \notin Registered /\ CanAllocate(ensure[t].id) /\ NewSlot \in Unused
  /\ registry' = [registry EXCEPT ![ensure[t].id] = NewSlot]
  /\ content' = [content EXCEPT ![NewSlot] = None]
  /\ ensure' = [ensure EXCEPT ![t].pc = "lock", ![t].slot = NewSlot]

SlotForOld(t) ==
  /\ ensure[t].id \in Registered
  /\ ensure' = [ensure EXCEPT ![t].pc = "lock", ![t].slot = registry[ensure[t].id]]
  /\ UNCHANGED <<registry, content>>

LEMMA SlotForEffect ==
  ASSUME NEW t \in Callers, SlotFor(t)
  PROVE  /\ ensure[t].pc = "slot" /\ UNCHANGED <<regLock, slotLock, alive, late, close>>
         /\ \/ ensure' = [ensure EXCEPT ![t] = Returned] /\ UNCHANGED <<registry, content>>
            \/ SlotForOld(t)
            \/ SlotForNew(t)
<1>1. Unused # {} => NewSlot \in Unused
  BY DEF NewSlot
<1>2. QED
  BY <1>1 DEF SlotFor, SlotForOld, SlotForNew

LEMMA SlotForMoves ==
  ASSUME TypeOK, EnsureInv, NEW t \in Callers, SlotFor(t)
  PROVE  CallerMoves(t)
<1>0. ensure[t].pc = "slot" /\ EnsureGood(ensure[t]) /\ ensure[t].id \in Ids
  BY SlotForEffect DEF EnsureInv, EnsureGood
<1>1. CASE ensure' = [ensure EXCEPT ![t] = Returned]
  BY <1>1, EnsureEffect, ReturnedGood DEF CallerMoves
<1>2. CASE SlotForOld(t)
  <2>1. registry[ensure[t].id] \in Slots
    BY <1>0, <1>2, TypeFacts DEF SlotForOld, Registered
  <2>2. Moved(t, "lock", registry[ensure[t].id])
    BY <1>2 DEF SlotForOld, Moved
  <2>3. \E r \in EnsureCall : EnsureBecomes(t, r) /\ EnsureGood(r) /\ r.pc = "lock"
    BY <1>0, <2>1, <2>2, MoveEffect
  <2>4. QED
    BY <1>0, <2>3 DEF CallerMoves
<1>3. CASE SlotForNew(t)
  <2>1. NewSlot \in Slots
    BY <1>3 DEF SlotForNew, Unused
  <2>2. Moved(t, "lock", NewSlot)
    BY <1>3 DEF SlotForNew, Moved
  <2>3. \E r \in EnsureCall : EnsureBecomes(t, r) /\ EnsureGood(r) /\ r.pc = "lock"
    BY <1>0, <2>1, <2>2, MoveEffect
  <2>4. QED
    BY <1>0, <2>3 DEF CallerMoves
<1>4. QED
  BY <1>1, <1>2, <1>3, SlotForEffect

\* The other steps keep the slot or give it up.
LEMMA ReturnMoves ==
  ASSUME TypeOK, NEW t \in Callers, Reuse(t) \/ BuildReady(t) \/ CleanupLook(t)
  PROVE  CallerMoves(t)
BY EnsureEffect, ReturnedGood DEF Reuse, BuildReady, CleanupLook, CallerMoves

LEMMA MoveOnMoves ==
  ASSUME TypeOK, EnsureInv, NEW t \in Callers, Discard(t) \/ BuildFails(t) \/ CleanupLock(t)
  PROVE  CallerMoves(t)
<1>1. EnsureGood(ensure[t]) /\ ensure[t].slot # None
  BY DEF EnsureInv, EnsureGood, Discard, BuildFails, CleanupLock
<1>2. \E pc \in {"build", "cleanup", "unused"} : ensure' = [ensure EXCEPT ![t].pc = pc]
  BY DEF Discard, BuildFails, CleanupLock
<1>3. QED
  BY <1>1, <1>2, MoveOnEffect DEF CallerMoves

LEMMA CallersMove ==
  ASSUME TypeOK, EnsureInv, NEW t \in Callers, CallerActs(t)
  PROVE  CallerMoves(t)
BY CallMoves, SlotForMoves, ReturnMoves, MoveOnMoves DEF CallerActs, Works, Waits

(***************************************************************************)
(* What the steps of evict and shutdown_all do                             *)
(***************************************************************************)

CloseGood(r) == r.pc = "stop" <=> r.slot # None
Done(r) == r.pc = "idle" => r.todo = {}

\* A closer that does nothing has nothing left.
CloseInv == \A t \in Closers : Done(close[t])

CloserActs(t) == Stop(t) \/ ShutdownAll(t) \/ \E i \in Ids : Evict(t, i)

\* The slot of one connection leaves the map and is the closer's.
LEMMA EvictEffect ==
  ASSUME TypeOK, NEW t \in Closers, NEW i \in Ids, Evict(t, i)
  PROVE  /\ \E r \in CloseCall : CloseBecomes(t, r) /\ CloseGood(r) /\ Done(r) /\ r.slot = registry[i]
         /\ close[t].pc = "idle" /\ i \in Registered
         /\ registry' = [registry EXCEPT ![i] = None]
         /\ UNCHANGED <<regLock, content, slotLock, alive, late, ensure>>
<1> DEFINE r == [pc |-> "stop", slot |-> registry[i], todo |-> {}]
<1>1. registry[i] \in Slots
  BY TypeFacts DEF Evict, Registered
<1>2. r \in CloseCall /\ r.slot = registry[i] /\ CloseGood(r) /\ Done(r)
  BY <1>1, NameAssumption DEF CloseCall, CloseGood, Done
<1>3. close' = [close EXCEPT ![t] = r]
  BY DEF Evict
<1> HIDE DEF r
<1>4. CloseBecomes(t, r)
  BY <1>2, <1>3, CloseEffect
<1>5. QED
  BY <1>2, <1>4 DEF Evict

\* All slots leave the map and are the closer's.
LEMMA ShutdownEffect ==
  ASSUME TypeOK, NEW t \in Closers, ShutdownAll(t)
  PROVE  /\ \E r \in CloseCall : /\ CloseBecomes(t, r) /\ CloseGood(r) /\ Done(r)
                                 /\ {r.slot} \cup r.todo = RegisteredSlots
         /\ close[t].pc = "idle"
         /\ registry' = [i \in Ids |-> None]
         /\ UNCHANGED <<regLock, content, slotLock, alive, late, ensure>>
<1>1. PICK s \in RegisteredSlots :
        close' = [close EXCEPT ![t] = [pc |-> "stop", slot |-> s, todo |-> RegisteredSlots \ {s}]]
  BY DEF ShutdownAll
<1> DEFINE r == [pc |-> "stop", slot |-> s, todo |-> RegisteredSlots \ {s}]
<1>2. RegisteredSlots \subseteq Slots
  BY TypeFacts DEF RegisteredSlots, Registered
<1>3. /\ r \in CloseCall /\ CloseGood(r) /\ Done(r)
      /\ {r.slot} \cup r.todo = RegisteredSlots
  BY <1>2, NameAssumption DEF CloseCall, CloseGood, Done
<1>4. close' = [close EXCEPT ![t] = r]
  BY <1>1
<1> HIDE DEF r
<1>5. CloseBecomes(t, r)
  BY <1>3, <1>4, CloseEffect
<1>6. QED
  BY <1>3, <1>5 DEF ShutdownAll

\* One slot is emptied, its child killed; the closer has the others left.
LEMMA StopSlotEffect ==
  ASSUME TypeOK, NEW t \in Closers, Stop(t)
  PROVE  /\ \E r \in CloseCall : /\ CloseBecomes(t, r) /\ CloseGood(r) /\ Done(r)
                                 /\ close[t].todo \subseteq {r.slot} \cup r.todo
         /\ close[t].slot \in Slots
         /\ content' = [content EXCEPT ![close[t].slot] = None]
         /\ alive' = alive \ Killed(close[t].slot) /\ late' = late \ Killed(close[t].slot)
         /\ slotLock[close[t].slot] = None
         /\ UNCHANGED <<registry, regLock, slotLock, ensure>>
<1>1. close[t] \in CloseCall /\ close[t].slot \in Slots
  BY TypeFacts DEF Stop, TypeOK, CloseCall
<1>2. CASE close[t].todo = {} /\ close' = [close EXCEPT ![t] = Closed]
  <2>1. Closed \in CloseCall /\ CloseGood(Closed) /\ Done(Closed)
    BY DEF Closed, CloseCall, CloseGood, Done
  <2>2. CloseBecomes(t, Closed)
    BY <1>2, <2>1, CloseEffect
  <2>3. QED
    BY <1>1, <1>2, <2>1, <2>2 DEF Stop
<1>3. ASSUME NEW n \in close[t].todo, close' = [close EXCEPT ![t].slot = n, ![t].todo = @ \ {n}]
      PROVE  \E r \in CloseCall : /\ CloseBecomes(t, r) /\ CloseGood(r) /\ Done(r)
                                  /\ close[t].todo \subseteq {r.slot} \cup r.todo
  <2> DEFINE r == [close[t] EXCEPT !.slot = n, !.todo = close[t].todo \ {n}]
  <2>1. n \in Slots /\ close[t].pc = "stop"
    BY <1>1 DEF CloseCall, Stop
  <2>2. /\ r \in CloseCall /\ r.pc = "stop" /\ r.slot = n /\ r.todo = close[t].todo \ {n}
    BY <1>1, <2>1 DEF CloseCall
  <2>3. close' = [close EXCEPT ![t] = r]
    BY <1>3, TypeFacts DEF CloseCall
  <2> HIDE DEF r
  <2>4. CloseBecomes(t, r)
    BY <2>2, <2>3, CloseEffect
  <2>5. QED
    BY <2>1, <2>2, <2>4, NameAssumption DEF CloseGood, Done
<1>4. QED
  BY <1>1, <1>2, <1>3 DEF Stop

(***************************************************************************)
(* Types                                                                   *)
(***************************************************************************)

CloseType ==
  /\ close \in [Closers -> CloseCall]
  /\ \A t \in Closers : CloseGood(close[t])

LEMMA CloseTypeStays ==
  ASSUME TypeOK, NEW t \in Closers, NEW r \in CloseCall, CloseBecomes(t, r), CloseGood(r)
  PROVE  CloseType'
BY DEF TypeOK, CloseType, CloseBecomes, CloseGood

\* The variables but the calls.
DataType ==
  /\ registry \in [Ids -> Slots \cup {None}]
  /\ regLock \in Callers \cup {None}
  /\ content \in [Slots -> Tunnel \cup {None}]
  /\ slotLock \in [Slots -> Callers \cup {None}]
  /\ late \subseteq alive /\ alive \subseteq Pids

LEMMA TypeParts ==
  TypeOK <=> DataType /\ ensure \in [Callers -> EnsureCall] /\ CloseType
BY DEF TypeOK, DataType, CloseType, EnsureCall, CloseCall, CloseGood

LEMMA NextTypeParts ==
  ASSUME DataType', ensure' \in [Callers -> EnsureCall], CloseType'
  PROVE  TypeOK'
BY DEF TypeOK, DataType, CloseType, EnsureCall, CloseCall, CloseGood

LEMMA CallerTypeStep ==
  ASSUME TypeOK, EnsureInv, NEW t \in Callers, CallerActs(t)
  PROVE  TypeOK' /\ EnsureInv'
<1>1. PICK r \in EnsureCall : EnsureBecomes(t, r) /\ EnsureGood(r)
  BY CallersMove DEF CallerMoves
<1>2. EnsureInv' /\ ensure' \in [Callers -> EnsureCall]
  BY <1>1 DEF EnsureInv, EnsureBecomes, EnsureGood
<1>3. close' = close
  BY SlotForEffect DEF CallerActs, Works, Waits, Call, Reuse, Discard, BuildReady, BuildFails,
     CleanupLock, CleanupLook
<1>4. DataType /\ ensure[t] \in EnsureCall /\ EnsureGood(ensure[t])
  BY TypeParts DEF EnsureInv
<1>5. ensure[t].pc \in {"lock", "build", "cleanup", "unused"} => ensure[t].slot \in Slots
  BY <1>4 DEF EnsureGood, EnsureCall
<1>6. DataType'
  <2>1. CASE SlotFor(t)
    <3>1. CASE SlotForNew(t)
      <4>1. NewSlot \in Slots /\ ensure[t].id \in Ids
        BY <1>4, <2>1, <3>1, SlotForEffect DEF SlotForNew, Unused, EnsureGood
      <4>2. QED
        BY <1>4, <2>1, <3>1, <4>1, SlotForEffect DEF DataType, SlotForNew
    <3>2. CASE ~SlotForNew(t)
      BY <1>4, <2>1, <3>2, SlotForEffect DEF DataType, SlotForOld
    <3>3. QED
      BY <3>1, <3>2
  <2>2. CASE Discard(t)
    BY <1>4, <2>2 DEF DataType, Discard
  <2>3. CASE BuildReady(t)
    <3> DEFINE p == CHOOSE p \in NewPids : TRUE
               n == [pid |-> p, want |-> ensure[t].want]
    <3>1. p \in Pids
      BY <2>3 DEF BuildReady, NewPids
    <3>2. n \in Tunnel
      BY <1>4, <2>3, <3>1 DEF BuildReady, EnsureGood, Tunnel
    <3>3. /\ content' = [content EXCEPT ![ensure[t].slot] = n]
          /\ alive' = alive \cup {p} /\ (late' = late \/ late' = late \cup {p})
          /\ slotLock' = [slotLock EXCEPT ![ensure[t].slot] = None]
          /\ UNCHANGED <<registry, regLock>>
      BY <2>3 DEF BuildReady
    <3> HIDE DEF p, n
    <3>4. QED
      BY <1>4, <3>1, <3>2, <3>3 DEF DataType
  <2>4. CASE BuildFails(t)
    BY <1>4, <2>4 DEF DataType, BuildFails
  <2>5. CASE CleanupLock(t)
    BY <1>4, <2>5 DEF DataType, CleanupLock
  <2>6. CASE CleanupLook(t)
    BY <1>4, <2>6 DEF DataType, CleanupLook
  <2>7. CASE Reuse(t) \/ \E i \in Ids : \E w \in Wants[i] : Call(t, i, w)
    BY <1>4, <2>7 DEF DataType, Reuse, Call
  <2>8. QED
    BY <2>1, <2>2, <2>3, <2>4, <2>5, <2>6, <2>7 DEF CallerActs, Works, Waits
<1>7. CloseType'
  BY <1>3, TypeParts DEF CloseType
<1>8. QED
  BY <1>2, <1>6, <1>7, NextTypeParts

LEMMA CloserTypeStep ==
  ASSUME TypeOK, EnsureInv, NEW t \in Closers, CloserActs(t)
  PROVE  TypeOK' /\ EnsureInv'
<1>0. DataType /\ ensure \in [Callers -> EnsureCall]
  BY TypeParts
<1>1. ASSUME NEW i \in Ids, Evict(t, i)
      PROVE  TypeOK' /\ EnsureInv'
  <2>1. CloseType' /\ ensure' = ensure
    BY <1>1, EvictEffect, CloseTypeStays
  <2>2. DataType'
    BY <1>0, <1>1, EvictEffect DEF DataType
  <2>3. QED
    BY <1>0, <2>1, <2>2, NextTypeParts DEF EnsureInv
<1>2. CASE ShutdownAll(t)
  <2>1. CloseType' /\ ensure' = ensure
    BY <1>2, ShutdownEffect, CloseTypeStays
  <2>2. DataType'
    BY <1>0, <1>2, ShutdownEffect DEF DataType
  <2>3. QED
    BY <1>0, <2>1, <2>2, NextTypeParts DEF EnsureInv
<1>3. CASE Stop(t)
  <2>1. CloseType' /\ ensure' = ensure
    BY <1>3, StopSlotEffect, CloseTypeStays
  <2>2. DataType'
    BY <1>0, <1>3, StopSlotEffect DEF DataType
  <2>3. QED
    BY <1>0, <2>1, <2>2, NextTypeParts DEF EnsureInv
<1>4. QED
  BY <1>1, <1>2, <1>3 DEF CloserActs

LEMMA TypeStep ==
  ASSUME TypeOK, EnsureInv, [Next]_vars
  PROVE  TypeOK' /\ EnsureInv'
<1>1. ASSUME NEW p \in Pids, Dies(p)
      PROVE  TypeOK' /\ EnsureInv'
  <2>1. DataType /\ ensure \in [Callers -> EnsureCall] /\ CloseType
    BY TypeParts
  <2>2. DataType' /\ ensure' = ensure /\ close' = close
    BY <1>1, <2>1 DEF DataType, Dies
  <2>3. QED
    BY <2>1, <2>2, NextTypeParts DEF CloseType, EnsureInv
<1>2. CASE UNCHANGED vars
  BY <1>2 DEF vars, TypeOK, EnsureInv
<1>3. QED
  BY <1>1, <1>2, CallerTypeStep, CloserTypeStep DEF Next, CallerActs, CloserActs

(***************************************************************************)
(* Builders and closers                                                    *)
(***************************************************************************)

\* Nobody gets at the slot of a builder: it is locked, and another builder
\* has another slot.
LEMMA BuildStep ==
  ASSUME TypeOK, EnsureInv, BuildInv, [Next]_vars
  PROVE  BuildInv'
<1>0. /\ content \in [Slots -> Tunnel \cup {None}] /\ slotLock \in [Slots -> Callers \cup {None}]
      /\ \A u \in Callers : ensure[u].pc = "build" => ensure[u].slot \in Slots
      /\ None \notin Callers
  BY TypeFacts, NameAssumption DEF EnsureInv, EnsureGood, EnsureCall, Threads
<1>1. ASSUME NEW t \in Callers, CallerActs(t)
      PROVE  BuildInv'
  <2> SUFFICES ASSUME NEW u \in Callers, ensure'[u].pc = "build"
               PROVE  slotLock'[ensure'[u].slot] = u /\ content'[ensure'[u].slot] = None
    BY DEF BuildInv
  <2>1. PICK r \in EnsureCall : EnsureBecomes(t, r)
    BY <1>1, CallersMove DEF CallerMoves
  <2>2. CASE u = t
    <3>1. Discard(t)
      <4>0. ensure \in [Callers -> EnsureCall]
        BY TypeFacts
      <4>1. ~SlotFor(t)
        <5>1. ensure' # [ensure EXCEPT ![t] = Returned]
          BY <2>2, <4>0, ReturnedGood
        <5>2. ~SlotForOld(t)
          BY <2>2, <4>0 DEF SlotForOld, EnsureCall
        <5>3. ~SlotForNew(t)
          BY <2>2, <4>0 DEF SlotForNew, EnsureCall
        <5>4. QED
          BY <5>1, <5>2, <5>3, SlotForEffect
      <4>2. ~Reuse(t) /\ ~BuildReady(t) /\ ~CleanupLook(t)
        BY <2>2, <4>0, ReturnedGood DEF Reuse, BuildReady, CleanupLook
      <4>3. ~BuildFails(t) /\ ~CleanupLock(t)
        BY <2>2, <4>0 DEF BuildFails, CleanupLock, EnsureCall
      <4>4. \A i \in Ids : \A w \in Wants[i] : ~Call(t, i, w)
        BY <2>2, <4>0 DEF Call
      <4>5. QED
        BY <1>1, <4>1, <4>2, <4>3, <4>4 DEF CallerActs, Works, Waits
    <3>2. ensure'[t].slot = ensure[t].slot /\ ensure[t].slot \in Slots
      BY <3>1, TypeFacts DEF Discard, EnsureCall, EnsureInv, EnsureGood
    <3>3. QED
      BY <1>0, <2>2, <3>1, <3>2 DEF Discard
  <2>3. CASE u # t
    <3>1. /\ ensure'[u] = ensure[u] /\ ensure[u].slot \in Slots
          /\ slotLock[ensure[u].slot] = u /\ content[ensure[u].slot] = None
      BY <1>0, <2>1, <2>3 DEF EnsureBecomes, BuildInv
    <3>2. CASE SlotFor(t)
      BY <1>0, <3>1, <3>2, SlotForEffect DEF SlotForOld, SlotForNew
    <3>3. CASE Discard(t)
      BY <1>0, <3>1, <3>3 DEF Discard
    <3>4. CASE BuildReady(t) \/ BuildFails(t)
      <4>1. ensure[t].slot # ensure[u].slot
        BY <2>3, <3>1, <3>4 DEF BuildReady, BuildFails, BuildInv
      <4>2. \A s \in Slots : s # ensure[t].slot => slotLock'[s] = slotLock[s] /\ content'[s] = content[s]
        BY <1>0, <3>4 DEF BuildReady, BuildFails
      <4>3. QED
        BY <1>0, <3>1, <4>1, <4>2
    <3>5. CASE UNCHANGED <<slotLock, content>>
      BY <3>1, <3>5
    <3>6. QED
      BY <1>1, <3>2, <3>3, <3>4, <3>5
         DEF CallerActs, Works, Waits, Call, Reuse, CleanupLock, CleanupLook
  <2>4. QED
    BY <2>2, <2>3
<1>2. ASSUME NEW t \in Closers, CloserActs(t)
      PROVE  BuildInv'
  <2>1. ensure' = ensure /\ slotLock' = slotLock
    BY <1>2 DEF CloserActs, Stop, ShutdownAll, Evict
  <2>2. content' = content \/ content' = [content EXCEPT ![close[t].slot] = None]
    BY <1>2 DEF CloserActs, Stop, ShutdownAll, Evict
  <2>3. QED
    BY <1>0, <2>1, <2>2 DEF BuildInv
<1>3. ASSUME NEW p \in Pids, Dies(p)
      PROVE  BuildInv'
  BY <1>3 DEF Dies, BuildInv
<1>4. CASE UNCHANGED vars
  BY <1>4 DEF vars, BuildInv
<1>5. QED
  BY <1>1, <1>2, <1>3, <1>4 DEF Next, CallerActs, CloserActs

LEMMA CloseStep ==
  ASSUME TypeOK, CloseInv, [Next]_vars
  PROVE  CloseInv'
<1>1. ASSUME NEW t \in Closers, CloserActs(t)
      PROVE  CloseInv'
  <2>1. \E r \in CloseCall : CloseBecomes(t, r) /\ Done(r)
    BY <1>1, EvictEffect, ShutdownEffect, StopSlotEffect DEF CloserActs
  <2>2. QED
    BY <2>1 DEF CloseInv, CloseBecomes, Done
<1>2. CASE close' = close
  BY <1>2 DEF CloseInv
<1>3. QED
  BY <1>1, <1>2, SlotForEffect
     DEF Next, vars, CloserActs, Works, Waits, Call, Reuse, Discard, BuildReady, BuildFails,
         CleanupLock, CleanupLook, Dies

(***************************************************************************)
(* The limit                                                               *)
(***************************************************************************)

LEMMA RegisteredFinite == IsFiniteSet(Registered) /\ Cardinality(Registered) \in Nat
BY BoundAssumption, FS_Subset, FS_CardinalityType DEF Registered

\* How the registry changes: a connection gets a slot that nobody has, one
\* loses its slot, or all do.
LEMMA RegistryChange ==
  ASSUME TypeOK, EnsureInv, [Next]_vars
  PROVE  \/ registry' = registry
         \/ \E i \in Ids : registry' = [registry EXCEPT ![i] = None]
         \/ registry' = [i \in Ids |-> None]
         \/ \E i \in Ids : /\ i \notin Registered /\ Cardinality(Registered) < MaxActive
                           /\ NewSlot \in Unused /\ NewSlot # None
                           /\ registry' = [registry EXCEPT ![i] = NewSlot]
<1>1. ASSUME NEW t \in Callers, CallerActs(t)
      PROVE  \/ registry' = registry
             \/ \E i \in Ids : registry' = [registry EXCEPT ![i] = None]
             \/ \E i \in Ids : /\ i \notin Registered /\ Cardinality(Registered) < MaxActive
                               /\ NewSlot \in Unused /\ NewSlot # None
                               /\ registry' = [registry EXCEPT ![i] = NewSlot]
  <2>1. CASE SlotFor(t)
    <3>1. ensure[t].id \in Ids
      BY <2>1, SlotForEffect DEF EnsureInv, EnsureGood
    <3>2. QED
      BY <2>1, <3>1, SlotForEffect, NameAssumption DEF SlotForOld, SlotForNew, CanAllocate, Unused
  <2>2. CASE CleanupLook(t)
    BY <2>2 DEF CleanupLook, EnsureInv, EnsureGood
  <2>3. CASE ~SlotFor(t) /\ ~CleanupLook(t)
    BY <1>1, <2>3 DEF CallerActs, Works, Waits, Call, Reuse, Discard, BuildReady, BuildFails, CleanupLock
  <2>4. QED
    BY <2>1, <2>2, <2>3
<1>2. ASSUME NEW t \in Closers, CloserActs(t)
      PROVE  \/ registry' = registry
             \/ \E i \in Ids : registry' = [registry EXCEPT ![i] = None]
             \/ registry' = [i \in Ids |-> None]
  BY <1>2 DEF CloserActs, Stop, ShutdownAll, Evict
<1>3. QED
  BY <1>1, <1>2 DEF Next, vars, CallerActs, CloserActs, Dies

LEMMA BoundStep ==
  ASSUME TypeOK, EnsureInv, RegistryBound, [Next]_vars
  PROVE  RegistryBound'
<1>0. registry \in [Ids -> Slots \cup {None}] /\ MaxActive \in Nat
  BY TypeFacts, BoundAssumption
<1>1. CASE registry' = registry
  BY <1>1 DEF RegistryBound, Registered
<1>2. ASSUME NEW i \in Ids, registry' = [registry EXCEPT ![i] = None]
      PROVE  RegistryBound'
  <2>1. Registered' = Registered \ {i}
    BY <1>0, <1>2 DEF Registered
  <2>2. Cardinality(Registered') <= MaxActive
    <3>1. Cardinality(Registered \ {i}) <= Cardinality(Registered)
      BY RegisteredFinite, FS_RemoveElement
    <3>2. Cardinality(Registered \ {i}) \in Nat
      BY RegisteredFinite, FS_RemoveElement, FS_CardinalityType
    <3>3. QED
      BY <1>0, <2>1, <3>1, <3>2, RegisteredFinite DEF RegistryBound
  <2>3. \A j \in Registered' : registry'[j] = registry[j] /\ j \in Registered
    BY <1>0, <1>2, <2>1 DEF Registered
  <2>4. QED
    BY <2>2, <2>3 DEF RegistryBound
<1>3. CASE registry' = [i \in Ids |-> None]
  <2>1. Registered' = {}
    BY <1>3 DEF Registered
  <2>2. QED
    BY <1>0, <2>1, FS_EmptySet DEF RegistryBound
<1>4. ASSUME NEW i \in Ids, i \notin Registered, Cardinality(Registered) < MaxActive,
             NewSlot \in Unused, NewSlot # None, registry' = [registry EXCEPT ![i] = NewSlot]
      PROVE  RegistryBound'
  <2>1. Registered' = Registered \cup {i}
    BY <1>0, <1>4 DEF Registered
  <2>2. Cardinality(Registered') <= MaxActive
    <3>1. Cardinality(Registered') = Cardinality(Registered) + 1
      BY <1>4, <2>1, RegisteredFinite, FS_AddElement
    <3>2. QED
      BY <1>0, <1>4, <3>1, RegisteredFinite
  <2>3. \A j \in Registered : registry[j] # NewSlot
    BY <1>4, UnusedIsUnknown DEF InMap, Registered
  <2>4. \A j \in Registered : registry'[j] = registry[j] /\ j # i
    BY <1>0, <1>4 DEF Registered
  <2>5. registry'[i] = NewSlot
    BY <1>0, <1>4
  <2>6. QED
    BY <2>1, <2>2, <2>3, <2>4, <2>5 DEF RegistryBound
<1>5. QED
  BY <1>1, <1>2, <1>3, <1>4, RegistryChange

(***************************************************************************)
(* The children                                                            *)
(***************************************************************************)

\* Somebody will come to the slot s.
Known(s) == s \in RegisteredSlots \/ \E t \in Closers : close[t].slot = s \/ s \in close[t].todo

LEMMA OwnerIsKnown ==
  ASSUME NEW p, Owned(p)
  PROVE  \E s \in Slots : content[s] # None /\ content[s].pid = p /\ Known(s)
BY NameAssumption DEF Owned, Known, Holders

LEMMA KnownWillOwn ==
  ASSUME NEW p, NEW s \in Slots, content'[s] # None, content'[s].pid = p, Known(s)'
  PROVE  Owned(p)'
BY DEF Owned, Known, Holders

\* A child that nobody kills stays owned if nothing new runs that has no
\* owner, and the slots that have a child stay as they are, and known.
NoneNew == alive' \ late' \subseteq alive \ late
Keeps ==
  \A s \in Slots :
    content[s] # None /\ content[s].pid \in alive' \ late' /\ Known(s)
    => content'[s] = content[s] /\ Known(s)'

LEMMA StillOwned ==
  ASSUME LeftOnlyLate, NoneNew, Keeps
  PROVE  LeftOnlyLate'
<1> SUFFICES ASSUME NEW p \in alive' \ late'
             PROVE  Owned(p)'
  BY DEF LeftOnlyLate
<1>1. PICK s \in Slots : content[s] # None /\ content[s].pid = p /\ Known(s)
  BY OwnerIsKnown DEF LeftOnlyLate, NoneNew
<1>2. content'[s] = content[s] /\ Known(s)'
  BY <1>1 DEF Keeps
<1>3. QED
  BY <1>1, <1>2, KnownWillOwn

\* As long as the map and the closers' slots stay, so does what is known.
LEMMA KnownStays ==
  ASSUME UNCHANGED <<registry, close>>, NEW s
  PROVE  Known(s)' <=> Known(s)
BY DEF Known, RegisteredSlots, Registered

LEMMA CallersKeepChildren ==
  ASSUME TypeOK, EnsureInv, BuildInv, LeftOnlyLate, NEW t \in Callers, CallerActs(t)
  PROVE  LeftOnlyLate'
<1>0. /\ content \in [Slots -> Tunnel \cup {None}] /\ registry \in [Ids -> Slots \cup {None}]
      /\ ensure[t].pc \in {"lock", "build", "cleanup", "unused"} => ensure[t].slot \in Slots
      /\ ensure[t].pc # "idle" => ensure[t].id \in Ids
  BY TypeFacts DEF EnsureInv, EnsureGood, EnsureCall
<1>1. CASE UNCHANGED <<alive, late, content, registry, close>>
  <2>1. NoneNew /\ Keeps
    BY <1>1, KnownStays DEF NoneNew, Keeps
  <2>2. QED
    BY <2>1, StillOwned
<1>2. CASE SlotFor(t)
  <2>1. CASE SlotForNew(t)
    <3>1. /\ UNCHANGED <<alive, late, close>> /\ ensure[t].id \in Ids /\ ensure[t].id \notin Registered
          /\ registry' = [registry EXCEPT ![ensure[t].id] = NewSlot]
          /\ content' = [content EXCEPT ![NewSlot] = None]
          /\ NewSlot \in Unused
      BY <1>0, <1>2, <2>1, SlotForEffect DEF SlotForNew
    <3>2. ~Known(NewSlot)
      <4>1. InMap(NewSlot) = {} /\ Holders(NewSlot) = {}
        BY <3>1, UnusedIsUnknown
      <4>2. NewSlot \notin RegisteredSlots
        BY <4>1 DEF InMap, RegisteredSlots, Registered
      <4>3. \A u \in Closers : close[u].slot # NewSlot /\ NewSlot \notin close[u].todo
        BY <4>1 DEF Holders
      <4>4. QED
        BY <4>2, <4>3 DEF Known
    <3>3. \A s \in Slots : Known(s) => Known(s)'
      <4>1. \A i \in Registered : i \in Registered' /\ registry'[i] = registry[i]
        BY <1>0, <3>1 DEF Registered
      <4>2. RegisteredSlots \subseteq RegisteredSlots'
        BY <4>1 DEF RegisteredSlots
      <4>3. QED
        BY <3>1, <4>2 DEF Known
    <3>4. \A s \in Slots : s # NewSlot => content'[s] = content[s]
      BY <1>0, <3>1
    <3>5. NoneNew /\ Keeps
      BY <3>1, <3>2, <3>3, <3>4 DEF NoneNew, Keeps
    <3>6. QED
      BY <3>5, StillOwned
  <2>2. CASE ~SlotForNew(t)
    BY <1>1, <1>2, <2>2, SlotForEffect DEF SlotForOld
  <2>3. QED
    BY <2>1, <2>2
<1>3. CASE Discard(t)
  <2>1. /\ ensure[t].slot \in Slots /\ UNCHANGED <<registry, close>>
        /\ content' = [content EXCEPT ![ensure[t].slot] = None]
        /\ alive' = alive \ Killed(ensure[t].slot) /\ late' = late \ Killed(ensure[t].slot)
    BY <1>0, <1>3 DEF Discard
  <2>2. NoneNew
    BY <2>1 DEF NoneNew
  <2>3. Keeps
    <3> SUFFICES ASSUME NEW s \in Slots, content[s] # None, content[s].pid \in alive' \ late', Known(s)
                 PROVE  content'[s] = content[s] /\ Known(s)'
      BY DEF Keeps
    <3>1. s # ensure[t].slot
      BY <2>1 DEF Killed
    <3>2. QED
      BY <1>0, <2>1, <3>1, KnownStays
  <2>4. QED
    BY <2>2, <2>3, StillOwned
<1>4. CASE BuildReady(t)
  <2> DEFINE p == CHOOSE p \in NewPids : TRUE
             n == [pid |-> p, want |-> ensure[t].want]
  <2>1. PICK s \in Slots :
          /\ UNCHANGED <<registry, close>>
          /\ content' = [content EXCEPT ![s] = n] /\ content[s] = None
          /\ alive' = alive \cup {p}
          /\ late' = IF s \in RegisteredSlots THEN late ELSE late \cup {p}
    BY <1>0, <1>4 DEF BuildReady, BuildInv
  <2>2. n.pid = p /\ n # None
    <3>1. p \in Pids /\ ensure[t].want \in Fingerprints
      BY <1>4 DEF BuildReady, NewPids, EnsureInv, EnsureGood
    <3>2. n \in Tunnel
      BY <3>1 DEF Tunnel
    <3>3. QED
      BY <3>2, NameAssumption
  <2> HIDE DEF p, n
  <2> SUFFICES ASSUME NEW q \in alive' \ late'
               PROVE  Owned(q)'
    BY DEF LeftOnlyLate
  <2>3. CASE q \in alive \ late
    <3>1. PICK v \in Slots : content[v] # None /\ content[v].pid = q /\ Known(v)
      BY <2>3, OwnerIsKnown DEF LeftOnlyLate
    <3>2. content'[v] = content[v] /\ Known(v)'
      BY <1>0, <2>1, <3>1, KnownStays
    <3>3. QED
      BY <3>1, <3>2, KnownWillOwn
  <2>4. CASE q = p /\ s \in RegisteredSlots
    <3>1. Known(s)'
      BY <2>1, <2>4, KnownStays DEF Known
    <3>2. content'[s] # None /\ content'[s].pid = q
      BY <1>0, <2>1, <2>2, <2>4
    <3>3. QED
      BY <2>1, <3>1, <3>2, KnownWillOwn
  <2>5. QED
    BY <2>1, <2>3, <2>4
<1>5. CASE CleanupLook(t)
  <2>1. /\ UNCHANGED <<content, alive, late, close>> /\ ensure[t].id \in Ids
        /\ \/ registry' = registry
           \/ /\ registry' = [registry EXCEPT ![ensure[t].id] = None]
              /\ content[registry[ensure[t].id]] = None
    BY <1>0, <1>5 DEF CleanupLook, Removable
  <2>2. \A i \in Registered : content[registry[i]] # None => i \in Registered' /\ registry'[i] = registry[i]
    BY <1>0, <2>1 DEF Registered
  <2>3. \A s \in RegisteredSlots : content[s] # None => s \in RegisteredSlots'
    BY <2>2 DEF RegisteredSlots
  <2>4. NoneNew /\ Keeps
    BY <2>1, <2>3 DEF NoneNew, Keeps, Known
  <2>5. QED
    BY <2>4, StillOwned
<1>6. QED
  BY <1>1, <1>2, <1>3, <1>4, <1>5
     DEF CallerActs, Works, Waits, Call, Reuse, BuildFails, CleanupLock

\* A closer takes over the slots it removes, and kills what is in a slot
\* before it lets go of it.
LEMMA ClosersKeepChildren ==
  ASSUME TypeOK, CloseInv, LeftOnlyLate, NEW t \in Closers, CloserActs(t)
  PROVE  LeftOnlyLate'
<1>0. /\ content \in [Slots -> Tunnel \cup {None}] /\ registry \in [Ids -> Slots \cup {None}]
      /\ close[t].pc = "idle" => close[t].slot = None /\ close[t].todo = {}
  BY TypeFacts DEF TypeOK, CloseInv, Done
<1>1. ASSUME NEW i \in Ids, Evict(t, i)
      PROVE  LeftOnlyLate'
  <2>1. PICK r \in CloseCall : CloseBecomes(t, r) /\ r.slot = registry[i]
    BY <1>1, EvictEffect
  <2>2. /\ close[t].pc = "idle" /\ registry' = [registry EXCEPT ![i] = None]
        /\ UNCHANGED <<content, alive, late>>
    BY <1>1, EvictEffect
  <2>3. RegisteredSlots \subseteq RegisteredSlots' \cup {registry[i]}
    BY <1>0, <2>2 DEF RegisteredSlots, Registered
  <2>4. \A s \in Slots : Known(s) => Known(s)'
    <3>1. \A s \in Slots : s \in RegisteredSlots => Known(s)'
      BY <2>1, <2>3 DEF Known, CloseBecomes
    <3>2. \A s \in Slots, u \in Closers :
            close[u].slot = s \/ s \in close[u].todo => close'[u] = close[u]
      BY <1>0, <2>1, <2>2, NameAssumption DEF CloseBecomes
    <3>3. QED
      BY <3>1, <3>2 DEF Known
  <2>5. NoneNew /\ Keeps
    BY <2>2, <2>4 DEF NoneNew, Keeps
  <2>6. QED
    BY <2>5, StillOwned
<1>2. CASE ShutdownAll(t)
  <2>1. PICK r \in CloseCall : CloseBecomes(t, r) /\ {r.slot} \cup r.todo = RegisteredSlots
    BY <1>2, ShutdownEffect
  <2>2. close[t].pc = "idle" /\ UNCHANGED <<content, alive, late>>
    BY <1>2, ShutdownEffect
  <2>3. \A s \in Slots : Known(s) => Known(s)'
    <3>1. \A s \in Slots : s \in RegisteredSlots => Known(s)'
      BY <2>1 DEF Known, CloseBecomes
    <3>2. \A s \in Slots, u \in Closers :
            close[u].slot = s \/ s \in close[u].todo => close'[u] = close[u]
      BY <1>0, <2>1, <2>2, NameAssumption DEF CloseBecomes
    <3>3. QED
      BY <3>1, <3>2 DEF Known
  <2>4. NoneNew /\ Keeps
    BY <2>2, <2>3 DEF NoneNew, Keeps
  <2>5. QED
    BY <2>4, StillOwned
<1>3. CASE Stop(t)
  <2>1. PICK r \in CloseCall : CloseBecomes(t, r) /\ close[t].todo \subseteq {r.slot} \cup r.todo
    BY <1>3, StopSlotEffect
  <2>2. /\ close[t].slot \in Slots /\ registry' = registry
        /\ content' = [content EXCEPT ![close[t].slot] = None]
        /\ alive' = alive \ Killed(close[t].slot) /\ late' = late \ Killed(close[t].slot)
    BY <1>3, StopSlotEffect
  <2>3. \A s \in Slots : s # close[t].slot /\ Known(s) => Known(s)'
    BY <2>1, <2>2 DEF Known, RegisteredSlots, Registered, CloseBecomes
  <2>4. NoneNew
    BY <2>2 DEF NoneNew
  <2>5. Keeps
    <3> SUFFICES ASSUME NEW s \in Slots, content[s] # None, content[s].pid \in alive' \ late', Known(s)
                 PROVE  content'[s] = content[s] /\ Known(s)'
      BY DEF Keeps
    <3>1. s # close[t].slot
      BY <2>2 DEF Killed
    <3>2. QED
      BY <1>0, <2>2, <2>3, <3>1
  <2>6. QED
    BY <2>4, <2>5, StillOwned
<1>4. QED
  BY <1>1, <1>2, <1>3 DEF CloserActs

LEMMA ChildrenStep ==
  ASSUME TypeOK, EnsureInv, BuildInv, CloseInv, LeftOnlyLate, [Next]_vars
  PROVE  LeftOnlyLate'
<1>1. CASE UNCHANGED <<content, registry, close>> /\ NoneNew
  <2>1. Keeps
    BY <1>1, KnownStays DEF Keeps
  <2>2. QED
    BY <1>1, <2>1, StillOwned
<1>2. ASSUME NEW p \in Pids, Dies(p)
      PROVE  LeftOnlyLate'
  BY <1>1, <1>2 DEF Dies, NoneNew
<1>3. CASE UNCHANGED vars
  BY <1>1, <1>3 DEF vars, NoneNew
<1>4. QED
  BY <1>2, <1>3, CallersKeepChildren, ClosersKeepChildren DEF Next, CallerActs, CloserActs

(***************************************************************************)
(* What a step may never do                                                *)
(***************************************************************************)

Detached(t) ==
  /\ ensure[t].slot # None /\ registry[ensure[t].id] = ensure[t].slot
  /\ ensure'[t].slot = ensure[t].slot /\ registry'[ensure[t].id] # ensure[t].slot
TakenOver(s) == \E c \in Closers : close'[c].slot = s \/ s \in close'[c].todo

\* A clean-up that sees two references, the map's and its own, knows that
\* nobody else works on the slot.
LEMMA DetachStep ==
  ASSUME TypeOK, EnsureInv, [Next]_vars, NEW t \in Callers, Detached(t)
  PROVE  TakenOver(ensure[t].slot)
<1> DEFINE i == ensure[t].id
           s == ensure[t].slot
<1>0. /\ registry \in [Ids -> Slots \cup {None}] /\ i \in Ids /\ s # None
      /\ registry[i] = s /\ registry'[i] # s /\ ensure'[t].slot = s /\ i \in Registered
  BY TypeFacts DEF Detached, EnsureInv, EnsureGood, EnsureCall, Registered
<1> HIDE DEF i
<1>1. ASSUME NEW u \in Callers, CallerActs(u)
      PROVE  FALSE
  <2>1. ~SlotForNew(u)
    BY <1>0 DEF SlotForNew
  <2>2. SlotFor(u) => registry' = registry
    BY <2>1, SlotForEffect DEF SlotForOld
  <2>3. ~CleanupLook(u)
    <3> SUFFICES ASSUME CleanupLook(u)
                 PROVE  FALSE
      OBVIOUS
    <3>1. ensure[u].id = i /\ ensure[u].slot = s /\ StrongCount(s) = 2
      BY <1>0 DEF CleanupLook, Removable
    <3>2. i \in InMap(s) /\ u \in Holders(s) /\ t \in Holders(s)
      BY <1>0, <3>1 DEF InMap, Holders
    <3>3. u = t
      BY <3>1, <3>2, TwoReferences
    <3>4. ensure'[t].slot = None
      BY <3>3, TypeFacts DEF CleanupLook, Returned
    <3>5. QED
      BY <1>0, <3>4
  <2>4. registry' = registry
    BY <1>1, <2>2, <2>3
       DEF CallerActs, Works, Waits, Call, Reuse, Discard, BuildReady, BuildFails, CleanupLock
  <2>5. QED
    BY <1>0, <2>4
<1>2. ASSUME NEW c \in Closers, CloserActs(c)
      PROVE  TakenOver(s)
  <2>1. ASSUME NEW j \in Ids, Evict(c, j)
        PROVE  TakenOver(s)
    <3>1. PICK r \in CloseCall : CloseBecomes(c, r) /\ r.slot = registry[j]
      BY <2>1, EvictEffect
    <3>2. j = i
      BY <1>0, <2>1, EvictEffect
    <3>3. QED
      BY <1>0, <3>1, <3>2 DEF TakenOver, CloseBecomes
  <2>2. CASE ShutdownAll(c)
    <3>1. PICK r \in CloseCall : CloseBecomes(c, r) /\ {r.slot} \cup r.todo = RegisteredSlots
      BY <2>2, ShutdownEffect
    <3>2. s \in RegisteredSlots
      BY <1>0 DEF RegisteredSlots
    <3>3. QED
      BY <3>1, <3>2 DEF TakenOver, CloseBecomes
  <2>3. CASE Stop(c)
    BY <1>0, <2>3 DEF Stop
  <2>4. QED
    BY <1>2, <2>1, <2>2, <2>3 DEF CloserActs
<1>3. CASE registry' = registry
  BY <1>0, <1>3
<1>4. QED
  BY <1>1, <1>2, <1>3 DEF Next, vars, CallerActs, CloserActs, Dies

Delivers(t) ==
  /\ content'[ensure[t].slot] # None
  /\ content'[ensure[t].slot].want = ensure[t].want
  /\ content'[ensure[t].slot].pid \in alive'

\* Only finding a tunnel to use again and finishing a new one return from
\* where the slot is locked.
LEMMA ReturnStep ==
  ASSUME TypeOK, EnsureInv, [Next]_vars, NEW t \in Callers,
         ensure[t].pc \in {"lock", "build"}, ensure'[t].pc = "idle"
  PROVE  Delivers(t)
<1>0. /\ ensure \in [Callers -> EnsureCall] /\ content \in [Slots -> Tunnel \cup {None}]
      /\ ensure[t].slot \in Slots /\ ensure[t].want \in Fingerprints
  BY TypeFacts DEF EnsureInv, EnsureGood, EnsureCall
<1>1. CASE ensure'[t] = ensure[t]
  BY <1>1
<1>2. ASSUME NEW u \in Callers, CallerActs(u)
      PROVE  Delivers(t)
  <2>1. CASE u # t
    <3>1. ensure'[t] = ensure[t]
      BY <1>2, <2>1, CallersMove DEF CallerMoves, EnsureBecomes
    <3>2. QED
      BY <1>1, <3>1
  <2>2. CASE u = t
    <3>1. ~SlotFor(t) /\ ~CleanupLock(t) /\ ~CleanupLook(t)
      BY SlotForEffect DEF CleanupLock, CleanupLook
    <3>2. ~Discard(t) /\ ~BuildFails(t)
      BY <1>0 DEF Discard, BuildFails, EnsureCall
    <3>3. \A i \in Ids : \A w \in Wants[i] : ~Call(t, i, w)
      BY DEF Call
    <3>4. CASE Reuse(t)
      BY <3>4 DEF Reuse, Reusable, Delivers
    <3>5. CASE BuildReady(t)
      <4> DEFINE p == CHOOSE p \in NewPids : TRUE
                 n == [pid |-> p, want |-> ensure[t].want]
      <4>1. content' = [content EXCEPT ![ensure[t].slot] = n] /\ alive' = alive \cup {p}
        BY <3>5 DEF BuildReady
      <4>2. n.pid = p /\ n.want = ensure[t].want
        OBVIOUS
      <4>3. n \in Tunnel
        BY <1>0, <3>5 DEF BuildReady, NewPids, Tunnel
      <4> HIDE DEF p, n
      <4>4. content'[ensure[t].slot] = n /\ n # None
        BY <1>0, <4>1, <4>3, NameAssumption
      <4>5. QED
        BY <4>1, <4>2, <4>4 DEF Delivers
    <3>6. QED
      BY <1>2, <2>2, <3>1, <3>2, <3>3, <3>4, <3>5 DEF CallerActs, Works, Waits
  <2>3. QED
    BY <2>1, <2>2
<1>3. CASE ensure' = ensure
  BY <1>1, <1>3
<1>4. QED
  BY <1>2, <1>3 DEF Next, vars, CallerActs, Stop, ShutdownAll, Evict, Dies

(***************************************************************************)
(* The specification                                                       *)
(***************************************************************************)

\* Nobody shares a slot, and every child that is not late has an owner,
\* because builders have their slots to themselves and closers nothing left
\* when they are done.
IInv == TypeOK /\ EnsureInv /\ BuildInv /\ CloseInv /\ RegistryBound /\ LeftOnlyLate

LEMMA InitInv == Init => IInv
<1> SUFFICES ASSUME Init
             PROVE  IInv
  OBVIOUS
<1>1. TypeOK
  <2>1. \A t \in Callers : ensure[t] = Returned
    BY DEF Init
  <2>2. ensure \in [Callers -> EnsureCall]
    BY ReturnedGood DEF Init
  <2>3. CloseType
    BY DEF Init, Closed, CloseType, CloseCall, CloseGood
  <2>4. DataType
    BY DEF Init, DataType
  <2>5. QED
    BY <2>2, <2>3, <2>4, TypeParts
<1>2. EnsureInv /\ BuildInv
  BY ReturnedGood DEF Init, EnsureInv, BuildInv
<1>3. CloseInv
  BY DEF Init, CloseInv, Closed, Done
<1>4. Registered = {}
  BY DEF Init, Registered
<1>5. RegistryBound
  BY <1>4, FS_EmptySet, BoundAssumption DEF RegistryBound
<1>6. LeftOnlyLate
  BY DEF Init, LeftOnlyLate
<1>7. QED
  BY <1>1, <1>2, <1>3, <1>5, <1>6 DEF IInv

LEMMA NextInv == IInv /\ [Next]_vars => IInv'
BY TypeStep, BuildStep, CloseStep, BoundStep, ChildrenStep DEF IInv

\* The invariant from which the theorems below follow.
THEOREM Invariant == Spec => []IInv
BY InitInv, NextInv, PTL DEF Spec

\* Every variable keeps its type, and a closer that stops something has a
\* slot to stop.
THEOREM TypeCorrect == Spec => []TypeOK
<1>1. IInv => TypeOK
  BY DEF IInv
<1>2. QED
  BY <1>1, Invariant, PTL

\* However calls, failed set-ups and evictions interleave, there are never
\* more slots than MAX_ACTIVE_TUNNELS and never one for two connections.
THEOREM RegistryBounded == Spec => []RegistryBound
<1>1. IInv => RegistryBound
  BY DEF IInv
<1>2. QED
  BY <1>1, Invariant, PTL

\* Whoever replaces, evicts or shuts down a tunnel leaves no child behind:
\* only one that was started after its slot had left the map is nobody's.
THEOREM ChildrenOwned == Spec => []LeftOnlyLate
<1>1. IInv => LeftOnlyLate
  BY DEF IInv
<1>2. QED
  BY <1>1, Invariant, PTL

\* A call that failed takes the slot out of the map only if nobody else works
\* on it: a thread that holds on to its slot loses it to a closer only.
THEOREM DetachedByClosersOnly == Spec => OnlyEvictionDetaches
<1>1. IInv /\ [Next]_vars =>
        [\A t \in Callers :
           LET i == ensure[t].id
               s == ensure[t].slot
           IN s # None /\ registry[i] = s /\ ensure'[t].slot = s /\ registry'[i] # s
              => \E c \in Closers : close'[c].slot = s \/ s \in close'[c].todo]_vars
  BY DetachStep DEF IInv, Detached, TakenOver
<1>2. QED
  BY <1>1, Invariant, PTL DEF Spec, OnlyEvictionDetaches

\* Whatever happens to the slot in the meantime, a call that succeeds leaves
\* in it a tunnel that runs and has the fingerprint it asked for.
THEOREM WantedReturned == Spec => ReturnsWanted
<1>1. IInv /\ [Next]_vars =>
        [\A t \in Callers :
           ensure[t].pc \in {"lock", "build"} /\ ensure'[t].pc = "idle"
           => /\ content'[ensure[t].slot] # None
              /\ content'[ensure[t].slot].want = ensure[t].want
              /\ content'[ensure[t].slot].pid \in alive']_vars
  BY ReturnStep DEF IInv, Delivers
<1>2. QED
  BY <1>1, Invariant, PTL DEF Spec, ReturnsWanted

(***************************************************************************)
(* What the leak rests on                                                  *)
(***************************************************************************)

\* A call that may start a child has the slot of its connection in the map.
InPlace(t) ==
  ensure[t].pc \in {"lock", "build"} => registry[ensure[t].id] = ensure[t].slot

\* A call comes to its slot's lock from the map, and keeps slot and
\* connection until it has built.
LEMMA ComesFromMap ==
  ASSUME TypeOK, EnsureInv, NEW t \in Callers, CallerActs(t), ensure'[t].pc \in {"lock", "build"}
  PROVE  \/ ensure[t].pc \in {"lock", "build"} /\ ensure'[t].id = ensure[t].id
            /\ ensure'[t].slot = ensure[t].slot
         \/ registry'[ensure'[t].id] = ensure'[t].slot
<1>0. ensure \in [Callers -> EnsureCall] /\ registry \in [Ids -> Slots \cup {None}]
      /\ (ensure[t].pc # "idle" => ensure[t].id \in Ids)
  BY TypeFacts DEF EnsureInv, EnsureGood
<1>1. CASE SlotFor(t)
  <2>1. ensure'[t].pc # "idle" /\ Returned.pc = "idle"
    BY DEF Returned
  <2>2. ensure' # [ensure EXCEPT ![t] = Returned]
    BY <1>0, <2>1
  <2>3. CASE SlotForOld(t)
    BY <1>0, <1>1, <2>3, SlotForEffect DEF SlotForOld, EnsureCall
  <2>4. CASE SlotForNew(t)
    <3>1. ensure'[t].id = ensure[t].id /\ ensure'[t].slot = NewSlot
      BY <1>0, <2>4 DEF SlotForNew, EnsureCall
    <3>2. ensure[t].id \in Ids
      BY <1>0, <1>1, SlotForEffect
    <3>3. registry'[ensure[t].id] = NewSlot
      BY <1>0, <2>4, <3>2 DEF SlotForNew
    <3>4. QED
      BY <3>1, <3>3
  <2>5. QED
    BY <1>1, <2>2, <2>3, <2>4, SlotForEffect
<1>2. CASE Discard(t)
  BY <1>0, <1>2 DEF Discard, EnsureCall
<1>3. CASE BuildFails(t) \/ CleanupLock(t)
  BY <1>0, <1>3 DEF BuildFails, CleanupLock, EnsureCall
<1>4. CASE Reuse(t) \/ BuildReady(t) \/ CleanupLook(t)
  BY <1>0, <1>4 DEF Reuse, BuildReady, CleanupLook, Returned
<1>5. ASSUME NEW i \in Ids, NEW w \in Wants[i], Call(t, i, w)
      PROVE  FALSE
  BY <1>0, <1>5 DEF Call
<1>6. QED
  BY <1>1, <1>2, <1>3, <1>4, <1>5 DEF CallerActs, Works, Waits

\* Every step that leaves the slots of such calls in the map keeps them in
\* place, and none of the children started is late.
LEMMA InPlaceStep ==
  ASSUME IInv, \A t \in Callers : InPlace(t), late = {}, [Next]_vars, [StaysRegistered]_vars
  PROVE  (\A t \in Callers : InPlace(t)') /\ late' = {}
<1>0. TypeOK /\ EnsureInv
  BY DEF IInv
<1>1. CASE UNCHANGED vars
  BY <1>1 DEF vars, InPlace
<1>2. ASSUME StaysRegistered, Next
      PROVE  \A t \in Callers : InPlace(t)'
  <2> SUFFICES ASSUME NEW t \in Callers, ensure'[t].pc \in {"lock", "build"}
               PROVE  registry'[ensure'[t].id] = ensure'[t].slot
    BY DEF InPlace
  <2>1. CASE ensure'[t] = ensure[t]
    BY <1>2, <2>1 DEF StaysRegistered, InPlace
  <2>2. CASE ensure'[t] # ensure[t]
    <3>1. ASSUME NEW u \in Callers, CallerActs(u)
          PROVE  u = t
      BY <1>0, <2>2, <3>1, CallersMove DEF CallerMoves, EnsureBecomes
    <3>2. CallerActs(t)
      <4>1. \A u \in Closers : CloserActs(u) => ensure' = ensure
        BY DEF CloserActs, Stop, ShutdownAll, Evict
      <4>2. \A p \in Pids : Dies(p) => ensure' = ensure
        BY DEF Dies
      <4>3. \/ \E u \in Callers : CallerActs(u)
            \/ \E u \in Closers : CloserActs(u)
            \/ \E p \in Pids : Dies(p)
        BY <1>2 DEF Next, CallerActs, CloserActs
      <4>4. QED
        BY <2>2, <3>1, <4>1, <4>2, <4>3
    <3>3. QED
      BY <1>0, <1>2, <3>2, ComesFromMap DEF StaysRegistered, InPlace
  <2>3. QED
    BY <2>1, <2>2
<1>3. ASSUME Next
      PROVE  late' = {}
  <2>1. ASSUME NEW t \in Callers, BuildReady(t)
        PROVE  late' = late
    <3>1. ensure[t].id \in Ids /\ ensure[t].slot # None /\ registry[ensure[t].id] = ensure[t].slot
      BY <1>0, <2>1 DEF BuildReady, EnsureInv, EnsureGood, InPlace
    <3>2. ensure[t].slot \in RegisteredSlots
      BY <3>1 DEF RegisteredSlots, Registered
    <3>3. QED
      BY <2>1, <3>2 DEF BuildReady
  <2>2. ASSUME NEW t \in Callers, CallerActs(t), ~BuildReady(t)
        PROVE  late' \subseteq late
    BY <2>2 DEF CallerActs, Works, Waits, Call, SlotFor, Reuse, Discard, BuildFails, CleanupLock,
                CleanupLook
  <2>3. ASSUME NEW t \in Closers, CloserActs(t)
        PROVE  late' \subseteq late
    BY <2>3 DEF CloserActs, Stop, ShutdownAll, Evict
  <2>4. ASSUME NEW p \in Pids, Dies(p)
        PROVE  late' \subseteq late
    BY <2>4 DEF Dies
  <2>5. QED
    BY <1>3, <2>1, <2>2, <2>3, <2>4 DEF Next, CallerActs, CloserActs
<1>4. (Next /\ StaysRegistered) \/ UNCHANGED vars
  OBVIOUS
<1>5. QED
  BY <1>1, <1>2, <1>3, <1>4 DEF vars

\* Unless an eviction takes a slot away in which a call may still start its
\* child, no child is left behind: replaced and failed tunnels, children that
\* die, and evictions at any other moment never leave one.
THEOREM NoneForgotten == Spec /\ [][StaysRegistered]_vars => []NoOrphanTunnel
<1> DEFINE Placed == (\A t \in Callers : InPlace(t)) /\ late = {}
<1>1. Init => Placed
  BY ReturnedGood DEF Init, InPlace
<1>2. IInv /\ Placed /\ [Next]_vars /\ [StaysRegistered]_vars => Placed'
  BY InPlaceStep
<1>3. IInv /\ Placed => NoOrphanTunnel
  BY DEF IInv, LeftOnlyLate, NoOrphanTunnel
<1> HIDE DEF Placed
<1>4. QED
  BY <1>1, <1>2, <1>3, Invariant, PTL DEF Spec
=============================================================================
