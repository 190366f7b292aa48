--------------------------- MODULE DataSync_proofs ---------------------------
(***************************************************************************)
(* Proofs about DataSync, for any number of tasks, objects and rows, any   *)
(* batches and sizes of rows, any kinds of identities.                     *)
(*                                                                         *)
(* A step of an execution either goes on or ends the task, and meanwhile   *)
(* the target only grows (Grow). So each invariant is shown once for steps *)
(* that go on, once for steps that end, and each action is shown to be     *)
(* such a step.                                                            *)
(***************************************************************************)
EXTENDS DataSync, TLAPS

(***************************************************************************)
(* The invariants                                                          *)
(***************************************************************************)

\* A task that has the gate executes, or has ended.
GateInv ==
  /\ OneExecutor
  /\ gate.task # None => pc[gate.task] \in Working \cup {"over"}

\* Where rows may be in hand.
Copying == {"scan", "compare", "fetch", "insert", "check", "index", "final"}

\* What a task knows to exist does; it has created only what was missing, and
\* all of it by the time it copies.
StructAt(t) ==
  /\ plan[t].exists \subseteq tables /\ created[t] \subseteq tables
  /\ created[t] \subseteq Missing(t)
  /\ pc[t] \in {"new", "listed", "prepared", "verify"} => created[t] = {}
  /\ pc[t] = "create" => ~ IsMongo
  /\ pc[t] \in Copying => work[t].object \in plan[t].exists \cup created[t]
  /\ pc[t] \in Copying \cup {"head"} => IsMongo \/ Missing(t) \subseteq created[t]

StructInv == \A t \in Tasks : StructAt(t)

\* Rows are of tasks that have executed.
RowsInv ==
  /\ ConfirmedOnly
  /\ \A o \in Objects : \A i \in Copied(o) : pc[target[o][i]] \in Working \cup {"over"}

\* Rows that stay are there, rows that are there are offered.
SourceInv == \A o \in Objects : steady[o] \subseteq source[o] /\ source[o] \subseteq offered[o]

\* What a task has in hand, by the step it is at.
HandAt(t) ==
  /\ pc[t] \notin Copying \cup {"head"} => work[t] = Fresh
  /\ pc[t] \in {"head", "index", "final"} => work[t].last = 0
  /\ pc[t] \in {"head", "scan", "compare", "index", "final"} => work[t].rows = {}
  /\ pc[t] \in {"head", "scan", "insert", "index", "final"} => work[t].missing = {}
  /\ pc[t] = "index" => IsMongo
  /\ pc[t] = "final" => ~ IsMongo
  /\ work[t].rows \subseteq offered[work[t].object]

HandInv == \A t \in Tasks : HandAt(t)

Inv == TypeOK /\ GateInv /\ StructInv /\ RowsInv /\ SourceInv /\ HandInv

\* Where pages reach all, every steady row up to the last one read is in the
\* target or in hand.
Accounted(t) ==
  PagesReachAll(work[t].object) =>
    \A i \in steady[work[t].object] :
      i <= work[t].last => i \in Present(work[t].object) \cup work[t].missing \cup work[t].rows

\* Objects before the one at work are complete.
ProgressAt(t) ==
  /\ pc[t] \in Copying \cup {"head"} => \A o \in Objects : o < work[t].object => Complete(o)
  /\ pc[t] \in Copying \ {"index", "final"} => Accounted(t)
  /\ pc[t] = "index" => Complete(work[t].object)
  /\ pc[t] = "final" => /\ \A o \in Objects : Complete(o)
                        /\ \A o \in Objects : o < work[t].object => o \in finalized

\* The results of completed and of cancelled tasks.
ResultInv == CompletedIsComplete /\ SafeCancel

FullInv == Inv /\ (\A t \in Tasks : ProgressAt(t)) /\ ResultInv

(***************************************************************************)
(* Identities and what the task knows of them                              *)
(***************************************************************************)

\* A page is part of what it is taken from.
LEMMA UpToIsPart ==
  ASSUME NEW o, NEW S, NEW k
  PROVE  UpTo(o, S, k) \subseteq S
BY DEF UpTo

\* What the task knows of an identity is an identity.
LEMMA KeysAreIds ==
  ASSUME TypeOK, NEW o \in Objects, NEW S \in SUBSET Ids
  PROVE  /\ \A i \in Ids : Carried(o, i) \in Ids
         /\ Keys(o, S) \subseteq Ids
<1>1. \A i \in Ids : Carried(o, i) \in Ids
  BY DataAssumption DEF Carried
<1>2. QED
  BY <1>1 DEF Keys

\* Where pages reach all it is the identity itself, and pages are in its order.
LEMMA Exact ==
  ASSUME TypeOK, NEW o \in Objects, PagesReachAll(o)
  PROVE  \A i : Carried(o, i) = i /\ Rank(o, i) = i
<1>1. Kind[engine][o] = "exact"
  BY KindAssumption DEF PagesReachAll, IsMongo, TypeOK
<1>2. QED
  BY <1>1 DEF Carried, Rank

LEMMA ExactKeys ==
  ASSUME TypeOK, NEW o \in Objects, PagesReachAll(o), NEW S
  PROVE  Keys(o, S) = S
BY Exact DEF Keys

\* It is a matter of the engine and the object alone.
LEMMA SameReach ==
  ASSUME engine' = engine, NEW o
  PROVE  /\ PagesReachAll(o)' = PagesReachAll(o) /\ IsMongo' = IsMongo
         /\ \A S : Keys(o, S)' = Keys(o, S)
<1>1. IsMongo' = IsMongo /\ TooLarge' = TooLarge
  BY DEF IsMongo, TooLarge
<1>2. PagesReachAll(o)' = PagesReachAll(o)
  BY <1>1 DEF PagesReachAll
<1>3. \A i : Carried(o, i)' = Carried(o, i)
  BY DEF Carried
<1>4. QED
  BY <1>1, <1>2, <1>3 DEF Keys

(***************************************************************************)
(* Going on and ending                                                     *)
(***************************************************************************)

LEMMA Constants ==
  /\ NObjects \in Nat /\ 1 \in Objects /\ MaxId \in Nat /\ 0 \in 0 .. MaxId
  /\ Ids \subseteq 0 .. MaxId
  /\ None \notin Tasks /\ Other \notin Tasks /\ None # Other
BY BoundAssumption, DataAssumption DEF Objects, Ids

LEMMA FreshIsWork ==
  /\ Fresh \in Work
  /\ Fresh.object = 1 /\ Fresh.last = 0 /\ Fresh.rows = {} /\ Fresh.missing = {}
BY Constants DEF Fresh, Work

\* There is one execution at a time.
LEMMA Exclusive ==
  ASSUME TypeOK, GateInv, NEW t \in Tasks, pc[t] \in Working
  PROVE  /\ gate = [task |-> t, phase |-> gate.phase] /\ gate.phase \in Busy
         /\ \A u \in Tasks : pc[u] \in Working => u = t
<1>1. gate.task = t /\ gate.phase \in Busy
  BY DEF GateInv, OneExecutor
<1>2. gate = [task |-> t, phase |-> gate.phase]
  BY <1>1 DEF TypeOK, Gate
<1>3. QED
  BY <1>1, <1>2 DEF GateInv, OneExecutor

Steps == Working \cup {"new", "listed", "prepared", "over"}

\* Only the state of t changes, to step s and work w.
Becomes(t, s, w) ==
  /\ pc' \in [Tasks -> Steps] /\ work' \in [Tasks -> Work]
  /\ pc'[t] = s /\ work'[t] = w
  /\ \A u \in Tasks : u # t => pc'[u] = pc[u] /\ work'[u] = work[u]

LEMMA EndEffect ==
  ASSUME TypeOK, GateInv, NEW t \in Tasks, pc[t] \in Working, NEW ph \in Terminal, End(t, ph)
  PROVE  gate' = [task |-> t, phase |-> ph] /\ gate' \in Gate /\ Becomes(t, "over", Fresh) /\ GateInv'
<1>1. gate = [task |-> t, phase |-> gate.phase] /\ gate.phase \in Busy
      /\ \A u \in Tasks : pc[u] \in Working => u = t
  BY Exclusive
<1>2. gate' = [gate EXCEPT !.phase = ph]
  BY <1>1 DEF End
<1>3. gate' = [task |-> t, phase |-> ph]
  BY <1>1, <1>2
<1>4. gate' \in Gate
  BY <1>3 DEF Gate
<1>5. Becomes(t, "over", Fresh)
  BY FreshIsWork DEF End, TypeOK, Becomes, Steps
<1>6. GateInv'
  BY <1>1, <1>3, <1>5, Constants DEF GateInv, OneExecutor, Becomes, Terminal, Busy, Working
<1>7. QED
  BY <1>3, <1>4, <1>5, <1>6

LEMMA GotoEffect ==
  ASSUME TypeOK, GateInv, NEW t \in Tasks, pc[t] \in Working, NEW s \in Working, NEW w \in Work,
         Goto(t, s), work' = [work EXCEPT ![t] = w]
  PROVE  gate' = gate /\ gate' \in Gate /\ Becomes(t, s, w) /\ GateInv'
<1>1. gate = [task |-> t, phase |-> gate.phase] /\ gate.phase \in Busy
      /\ \A u \in Tasks : pc[u] \in Working => u = t
  BY Exclusive
<1>2. gate' = gate /\ gate' \in Gate /\ gate.task = t
  BY <1>1 DEF Goto, TypeOK
<1>3. Becomes(t, s, w)
  BY DEF Goto, TypeOK, Becomes, Steps
<1>4. GateInv'
  BY <1>1, <1>2, <1>3, Constants DEF GateInv, OneExecutor, Becomes
<1>5. QED
  BY <1>2, <1>3, <1>4

\* What a step of an execution may do to the target.
Grow(t) ==
  /\ Still
  /\ tables \subseteq tables' /\ tables' \subseteq Objects
  /\ created' \in [Tasks -> SUBSET Objects]
  /\ \A u \in Tasks : u # t => created'[u] = created[u]
  /\ created[t] \subseteq created'[t] /\ created'[t] \subseteq Missing(t) \cap tables'
  /\ finalized \subseteq finalized' /\ finalized' \subseteq Objects
  /\ target' \in [Objects -> [Ids -> Tasks \cup {None, Other}]]
  /\ \A o \in Objects, i \in Ids :
       \/ target'[o][i] = target[o][i]
       \/ /\ target[o][i] = None /\ target'[o][i] = t
          /\ pc[t] = "insert" /\ o = work[t].object /\ i \in Keys(o, work[t].rows)

LEMMA NothingGrows ==
  ASSUME Inv, NEW t \in Tasks, UNCHANGED <<targetVars, created, finalized>>, Still
  PROVE  Grow(t)
BY DEF Grow, Inv, TypeOK, StructInv, StructAt, targetVars

\* What holds of plans, rows and source whatever grows.
LEMMA Frame ==
  ASSUME Inv, NEW t \in Tasks, pc[t] \in Working, Grow(t)
  PROVE  /\ engine' = engine /\ IsMongo' = IsMongo /\ plan' = plan /\ asked' = asked
         /\ \A o \in Objects : PagesReachAll(o)' = PagesReachAll(o)
         /\ source' = source /\ steady' = steady /\ offered' = offered
         /\ \A u \in Tasks : Missing(u)' = Missing(u)
         /\ \A o \in Objects : Present(o) \subseteq Present(o)'
         /\ SourceInv'
<1>1. engine' = engine /\ plan' = plan /\ asked' = asked /\ source' = source /\ steady' = steady
      /\ offered' = offered
  BY DEF Grow, Still, sourceVars
<1>2. \A u \in Tasks : Missing(u)' = Missing(u)
  BY <1>1 DEF Missing
<1>3. \A o \in Objects : Present(o) \subseteq Present(o)'
  BY Constants DEF Grow, Present
<1>4. SourceInv'
  BY <1>1 DEF Inv, SourceInv
<1>5. IsMongo' = IsMongo /\ \A o \in Objects : PagesReachAll(o)' = PagesReachAll(o)
  BY <1>1, SameReach
<1>6. QED
  BY <1>1, <1>2, <1>3, <1>4, <1>5

\* New rows are of a task that executes, in an object it knows or has made.
LEMMA RowsKeep ==
  ASSUME Inv, NEW t \in Tasks, pc[t] \in Working, Grow(t), NEW s \in Steps, NEW w, Becomes(t, s, w),
         s \in Working \cup {"over"}
  PROVE  RowsInv' /\ \A o \in Objects : Present(o)' # {} => o \in tables'
<1>1. plan' = plan
  BY Frame
<1>2. ASSUME NEW o \in Objects, NEW i \in Ids, target'[o][i] \in Tasks
      PROVE  /\ o \in plan[target'[o][i]].exists \cup created'[target'[o][i]]
             /\ pc'[target'[o][i]] \in Working \cup {"over"}
  <2>1. CASE target'[o][i] = target[o][i]
    <3>1. i \in Copied(o)
      BY <1>2, <2>1 DEF Copied
    <3>2. o \in plan[target[o][i]].exists \cup created[target[o][i]]
          /\ pc[target[o][i]] \in Working \cup {"over"}
      BY <3>1 DEF Inv, RowsInv, ConfirmedOnly
    <3>3. created[target[o][i]] \subseteq created'[target[o][i]]
      BY <1>2, <2>1 DEF Grow
    <3>4. QED
      BY <1>2, <2>1, <3>2, <3>3 DEF Becomes
  <2>2. CASE target'[o][i] = t /\ pc[t] = "insert" /\ o = work[t].object
    <3>1. o \in plan[t].exists \cup created[t]
      BY <2>2 DEF Inv, StructInv, StructAt, Copying
    <3>2. QED
      BY <2>2, <3>1 DEF Grow, Becomes
  <2>3. QED
    BY <2>1, <2>2 DEF Grow
<1>3. RowsInv'
  BY <1>1, <1>2 DEF RowsInv, ConfirmedOnly, Copied
<1>4. ASSUME NEW o \in Objects, Present(o)' # {}
      PROVE  o \in tables'
  <2>1. PICK i \in Ids : target'[o][i] # None
    BY <1>4 DEF Present
  <2>2. CASE target'[o][i] = target[o][i]
    BY <2>1, <2>2 DEF Grow, Inv, TypeOK, Present
  <2>3. CASE pc[t] = "insert" /\ o = work[t].object
    BY <2>3 DEF Grow, Inv, StructInv, StructAt, Copying
  <2>4. QED
    BY <2>2, <2>3 DEF Grow
<1>5. QED
  BY <1>3, <1>4

LEMMA OthersKeep ==
  ASSUME Inv, NEW t \in Tasks, pc[t] \in Working, Grow(t), NEW s, NEW w, Becomes(t, s, w),
         NEW u \in Tasks, u # t
  PROVE  StructAt(u)' /\ HandAt(u)' /\ ProgressAt(u)'
<1>1. pc'[u] = pc[u] /\ pc[u] \notin Working /\ work'[u] = work[u]
  BY Exclusive DEF Inv, Becomes
<1>2. StructAt(u)
  BY DEF Inv, StructInv
<1>3. HandAt(u)
  BY DEF Inv, HandInv
<1>4. plan' = plan /\ offered' = offered /\ IsMongo' = IsMongo /\ Missing(u)' = Missing(u)
  BY Frame
<1>5. created'[u] = created[u] /\ tables \subseteq tables'
  BY DEF Grow
<1>6. StructAt(u)'
  BY <1>1, <1>2, <1>4, <1>5 DEF StructAt, Working, Copying
<1>7. HandAt(u)'
  BY <1>1, <1>3, <1>4 DEF HandAt, Working, Copying
<1>8. ProgressAt(u)'
  BY <1>1 DEF ProgressAt, Working, Copying
<1>9. QED
  BY <1>6, <1>7, <1>8

\* A step that ends the task.
LEMMA EndKeeps ==
  ASSUME FullInv, NEW t \in Tasks, pc[t] \in Working, Grow(t), NEW ph \in Terminal, End(t, ph),
         ph = "completed" => \A o \in Objects : Complete(o)',
         ph = "cancelled" => IsMongo \/ created'[t] = {} \/
           (/\ Missing(t) \subseteq created'[t]
            /\ finalized' = Objects
            /\ \A o \in Objects : Complete(o)')
  PROVE  FullInv'
<1>1. gate' = [task |-> t, phase |-> ph] /\ gate' \in Gate /\ Becomes(t, "over", Fresh) /\ GateInv'
  BY EndEffect DEF FullInv, Inv
<1>2. /\ engine' = engine /\ IsMongo' = IsMongo /\ plan' = plan /\ asked' = asked
      /\ source' = source /\ steady' = steady /\ offered' = offered
      /\ \A u \in Tasks : Missing(u)' = Missing(u)
      /\ SourceInv'
  BY Frame DEF FullInv
<1>3. RowsInv' /\ \A o \in Objects : Present(o)' # {} => o \in tables'
  BY <1>1, RowsKeep DEF FullInv, Steps
<1>4. TypeOK'
  BY <1>1, <1>2, <1>3 DEF FullInv, Inv, TypeOK, Grow, Still, Becomes, Steps
<1>5. StructAt(t)' /\ HandAt(t)' /\ ProgressAt(t)'
  <2>1. pc'[t] = "over" /\ work'[t] = Fresh
    BY <1>1 DEF Becomes
  <2>2. StructAt(t)'
    BY <2>1, <1>2 DEF StructAt, Copying, Grow, FullInv, Inv, StructInv
  <2>3. HandAt(t)'
    BY <2>1, FreshIsWork DEF HandAt, Copying
  <2>4. ProgressAt(t)'
    BY <2>1 DEF ProgressAt, Copying
  <2>5. QED
    BY <2>2, <2>3, <2>4
<1>6. \A u \in Tasks : StructAt(u)' /\ HandAt(u)' /\ ProgressAt(u)'
  BY <1>1, <1>5, OthersKeep DEF FullInv
<1>7. ResultInv'
  BY <1>1, <1>2 DEF ResultInv, CompletedIsComplete, SafeCancel
<1>8. QED
  BY <1>1, <1>2, <1>3, <1>4, <1>6, <1>7 DEF FullInv, Inv, StructInv, HandInv

\* A step that goes on.
LEMMA GoKeeps ==
  ASSUME FullInv, NEW t \in Tasks, pc[t] \in Working, Grow(t), NEW s \in Working, NEW w \in Work,
         Goto(t, s), work' = [work EXCEPT ![t] = w],
         StructAt(t)', HandAt(t)', ProgressAt(t)'
  PROVE  FullInv'
<1>1. gate' = gate /\ gate' \in Gate /\ Becomes(t, s, w) /\ GateInv' /\ gate.phase \in Busy
  BY GotoEffect, Exclusive DEF FullInv, Inv
<1>2. /\ engine' = engine /\ IsMongo' = IsMongo /\ plan' = plan /\ asked' = asked
      /\ source' = source /\ steady' = steady /\ offered' = offered
      /\ SourceInv'
  BY Frame DEF FullInv
<1>3. RowsInv' /\ \A o \in Objects : Present(o)' # {} => o \in tables'
  BY <1>1, RowsKeep DEF FullInv, Steps
<1>4. TypeOK'
  BY <1>1, <1>2, <1>3 DEF FullInv, Inv, TypeOK, Grow, Still, Becomes, Steps
<1>6. \A u \in Tasks : StructAt(u)' /\ HandAt(u)' /\ ProgressAt(u)'
  BY <1>1, OthersKeep DEF FullInv
<1>7. ResultInv'
  BY <1>1 DEF ResultInv, CompletedIsComplete, SafeCancel, Busy
<1>8. QED
  BY <1>1, <1>2, <1>3, <1>4, <1>6, <1>7 DEF FullInv, Inv, StructInv, HandInv

(***************************************************************************)
(* The steps of an execution                                               *)
(***************************************************************************)

LEMMA SameWork ==
  ASSUME Inv, NEW t \in Tasks, work' = work
  PROVE  work[t] \in Work /\ work' = [work EXCEPT ![t] = work[t]]
BY DEF Inv, TypeOK

LEMMA StillComplete ==
  ASSUME Inv, NEW t \in Tasks, pc[t] \in Working, Grow(t), NEW o \in Objects, Complete(o)
  PROVE  Complete(o)'
BY Frame DEF Complete

\* A cancellation that is honoured finds nothing half made.
LEMMA HonourCancelKeeps ==
  ASSUME FullInv, NEW t \in Tasks, HonourCancel(t)
  PROVE  FullInv'
<1>1. pc[t] \in Working /\ End(t, "cancelled") /\ "cancelled" \in Terminal
  BY DEF HonourCancel, StopsNow, Looks, Working, Terminal
<1>2. Grow(t)
  BY NothingGrows DEF HonourCancel, FullInv
<1>3. IsMongo \/ created'[t] = {}
  <2>1. IsMongo \/ Missing(t) = {}
    BY DEF HonourCancel, StopsNow, Stops, Honours
  <2>2. created'[t] \subseteq Missing(t)
    BY <1>2 DEF Grow
  <2>3. QED
    BY <2>1, <2>2
<1>4. QED
  BY <1>1, <1>2, <1>3, EndKeeps

LEMMA FailsKeeps ==
  ASSUME FullInv, NEW t \in Tasks, Fails(t)
  PROVE  FullInv'
<1>1. pc[t] \in Working /\ End(t, "failed") /\ "failed" \in Terminal
  BY DEF Fails, Terminal
<1>2. Grow(t)
  BY NothingGrows DEF Fails, FullInv
<1>3. QED
  BY <1>1, <1>2, EndKeeps

LEMMA RowTooLargeKeeps ==
  ASSUME FullInv, NEW t \in Tasks, RowTooLarge(t)
  PROVE  FullInv'
<1>1. pc[t] \in Working /\ End(t, "failed") /\ "failed" \in Terminal
  BY DEF RowTooLarge, Terminal, Working
<1>2. Grow(t)
  BY NothingGrows DEF RowTooLarge, FullInv
<1>3. QED
  BY <1>1, <1>2, EndKeeps

LEMMA VerifyKeeps ==
  ASSUME FullInv, NEW t \in Tasks, Verify(t)
  PROVE  FullInv'
<1>1. pc[t] = "verify" /\ pc[t] \in Working /\ created[t] = {} /\ work[t] = Fresh
  BY DEF Verify, Working, FullInv, Inv, StructInv, StructAt, HandInv, HandAt, Copying
<1>2. Grow(t)
  BY NothingGrows DEF Verify, FullInv
<1>3. created' = created
  BY DEF Verify
<1>4. CASE End(t, "failed")
  BY <1>1, <1>2, <1>4, EndKeeps DEF Terminal
<1>5. CASE End(t, "cancelled")
  BY <1>1, <1>2, <1>3, <1>5, EndKeeps DEF Terminal
<1>6. ASSUME NEW s \in {"head", "create"}, Stay(t, s), s = "head" <=> IsMongo \/ Missing(t) = {}
      PROVE  FullInv'
  <2>1. Goto(t, s) /\ work' = [work EXCEPT ![t] = work[t]] /\ work[t] \in Work
    BY <1>6, SameWork DEF Stay, FullInv
  <2>2. Becomes(t, s, work[t])
    BY <1>1, <1>6, <2>1, GotoEffect DEF FullInv, Inv, Working
  <2>3. pc'[t] = s /\ work'[t] = Fresh
    BY <1>1, <2>2 DEF Becomes
  <2>4. StructAt(t)'
    BY <1>1, <1>2, <1>6, <2>3, Frame DEF StructAt, Copying, FullInv, Inv, StructInv, Grow
  <2>5. HandAt(t)'
    BY <2>3, <1>6, FreshIsWork DEF HandAt, Copying
  <2>6. ProgressAt(t)'
    BY <2>3, <1>6, FreshIsWork DEF ProgressAt, Copying, Objects
  <2>7. QED
    BY <1>1, <1>2, <1>6, <2>1, <2>4, <2>5, <2>6, GoKeeps DEF Working
<1>7. QED
  BY <1>4, <1>5, <1>6 DEF Verify

\* A statement that creates o.
LEMMA MakeGrows ==
  ASSUME Inv, NEW t \in Tasks, NEW o \in Missing(t), NEW s, Make(t, o, s),
         UNCHANGED <<target, finalized>>, Still
  PROVE  /\ Grow(t)
         /\ o \in tables' \/ UNCHANGED <<tables, created>>
         /\ \/ End(t, "failed")
            \/ Stay(t, s) /\ created'[t] = created[t] \cup {o}
<1>1. o \in Objects
  BY DEF Missing
<1>2. CASE UNCHANGED <<tables, created>> /\ End(t, "failed")
  BY <1>2, NothingGrows DEF targetVars
<1>3. CASE tables' = tables \cup {o} /\ created' = [created EXCEPT ![t] = @ \cup {o}]
  <2>1. created' \in [Tasks -> SUBSET Objects] /\ created'[t] = created[t] \cup {o}
        /\ \A u \in Tasks : u # t => created'[u] = created[u]
    BY <1>1, <1>3 DEF Inv, TypeOK
  <2>2. created[t] \subseteq Missing(t) /\ created[t] \subseteq tables
    BY DEF Inv, StructInv, StructAt
  <2>3. Grow(t)
    BY <1>1, <1>3, <2>1, <2>2 DEF Grow, Inv, TypeOK
  <2>4. QED
    BY <1>3, <2>1, <2>3 DEF Make
<1>4. QED
  BY <1>2, <1>3 DEF Make

LEMMA CreateKeeps ==
  ASSUME FullInv, NEW t \in Tasks, Create(t)
  PROVE  FullInv'
<1>1. pc[t] = "create" /\ pc[t] \in Working /\ work[t] = Fresh /\ ~ IsMongo
  BY DEF Create, Working, FullInv, Inv, StructInv, StructAt, HandInv, HandAt, Copying
<1>2. PICK o \in Missing(t) \ created[t] :
        Make(t, o, IF Missing(t) \ created[t] = {o} THEN "head" ELSE "create")
  BY DEF Create
<1> DEFINE s == IF Missing(t) \ created[t] = {o} THEN "head" ELSE "create"
<1>3. Grow(t) /\ (End(t, "failed") \/ (Stay(t, s) /\ created'[t] = created[t] \cup {o}))
  BY <1>2, MakeGrows DEF Create, FullInv
<1>4. s \in {"head", "create"} /\ s \in Working
  BY DEF Working
<1>5. s = "head" /\ created'[t] = created[t] \cup {o} => Missing(t) \subseteq created'[t]
  OBVIOUS
<1> HIDE DEF s
<1>6. CASE End(t, "failed")
  BY <1>1, <1>3, <1>6, EndKeeps DEF Terminal
<1>7. CASE Stay(t, s) /\ created'[t] = created[t] \cup {o}
  <2>1. Goto(t, s) /\ work' = [work EXCEPT ![t] = work[t]] /\ work[t] \in Work
    BY <1>7, SameWork DEF Stay, FullInv
  <2>2. pc'[t] = s /\ work'[t] = Fresh
    BY <1>1, <1>4, <2>1, GotoEffect DEF FullInv, Inv, Becomes
  <2>3. StructAt(t)'
    <3>1. plan' = plan /\ IsMongo' = IsMongo /\ Missing(t)' = Missing(t)
      BY <1>1, <1>3, Frame DEF FullInv
    <3>2. plan[t].exists \subseteq tables'
      BY <1>3 DEF FullInv, Inv, StructInv, StructAt, Grow
    <3>3. created'[t] \subseteq tables' /\ created'[t] \subseteq Missing(t)
      BY <1>3 DEF Grow
    <3>4. QED
      BY <1>1, <1>4, <1>5, <1>7, <2>2, <3>1, <3>2, <3>3 DEF StructAt, Copying
  <2>4. HandAt(t)'
    BY <1>4, <2>2, FreshIsWork DEF HandAt, Copying
  <2>5. ProgressAt(t)'
    BY <1>4, <2>2, FreshIsWork DEF ProgressAt, Copying, Objects
  <2>6. QED
    BY <1>1, <1>3, <1>4, <2>1, <2>3, <2>4, <2>5, GoKeeps
<1>8. QED
  BY <1>3, <1>6, <1>7

\* What is known where rows are copied.
LEMMA Facts ==
  ASSUME FullInv, NEW t \in Tasks
  PROVE  /\ StructAt(t) /\ HandAt(t) /\ ProgressAt(t)
         /\ work[t] \in Work /\ work[t].object \in Objects /\ work[t].last \in 0 .. MaxId
         /\ work[t].missing \subseteq Ids /\ work[t].rows \subseteq Ids
         /\ steady[work[t].object] \subseteq source[work[t].object]
         /\ source[work[t].object] \subseteq offered[work[t].object]
         /\ offered[work[t].object] \subseteq Ids
<1>1. work[t] \in Work /\ work[t].object \in Objects
  BY DEF FullInv, Inv, TypeOK, Work
<1>2. work[t].last \in 0 .. MaxId /\ work[t].missing \subseteq Ids /\ work[t].rows \subseteq Ids
  BY <1>1 DEF Work
<1>3. offered[work[t].object] \subseteq Ids
  BY <1>1 DEF FullInv, Inv, TypeOK, Rows
<1>4. QED
  BY <1>1, <1>2, <1>3 DEF FullInv, Inv, StructInv, HandInv, SourceInv

\* A step of a task whose structures exist.
LEMMA CopyKeeps ==
  ASSUME FullInv, NEW t \in Tasks, pc[t] \in Copying \cup {"head"}, Grow(t),
         NEW s \in Copying \cup {"head"}, NEW w \in Work, Goto(t, s), work' = [work EXCEPT ![t] = w],
         s \in Copying => w.object \in plan[t].exists \cup created'[t],
         HandAt(t)', ProgressAt(t)'
  PROVE  FullInv'
<1>1. pc[t] \in Working /\ s \in Working
  BY DEF Copying, Working
<1>2. pc'[t] = s /\ work'[t] = w
  BY <1>1, GotoEffect DEF FullInv, Inv, Becomes
<1>3. plan' = plan /\ IsMongo' = IsMongo /\ Missing(t)' = Missing(t)
  BY <1>1, Frame DEF FullInv
<1>4. plan[t].exists \subseteq tables' /\ created'[t] \subseteq tables' /\ created'[t] \subseteq Missing(t)
  BY DEF Grow, FullInv, Inv, StructInv, StructAt
<1>5. IsMongo \/ Missing(t) \subseteq created'[t]
  BY DEF Grow, FullInv, Inv, StructInv, StructAt
<1>6. StructAt(t)'
  BY <1>2, <1>3, <1>4, <1>5 DEF StructAt, Copying
<1>7. QED
  BY <1>1, <1>6, GoKeeps

\* What the step makes of pc and work, and what stays complete.
LEMMA CopyEffect ==
  ASSUME FullInv, NEW t \in Tasks, pc[t] \in Copying \cup {"head"}, Grow(t),
         NEW s \in Copying \cup {"head"}, NEW w \in Work, Goto(t, s), work' = [work EXCEPT ![t] = w]
  PROVE  /\ pc'[t] = s /\ work'[t] = w
         /\ steady' = steady /\ offered' = offered /\ IsMongo' = IsMongo
         /\ \A o \in Objects : PagesReachAll(o)' = PagesReachAll(o)
         /\ \A o \in Objects : Complete(o) => Complete(o)'
         /\ \A o \in Objects : Present(o) \subseteq Present(o)'
<1>1. pc[t] \in Working /\ s \in Working
  BY DEF Copying, Working
<1>2. pc'[t] = s /\ work'[t] = w
  BY <1>1, GotoEffect DEF FullInv, Inv, Becomes
<1>3. QED
  BY <1>1, <1>2, Frame, StillComplete DEF FullInv

LEMMA HeadKeeps ==
  ASSUME FullInv, NEW t \in Tasks, Head(t)
  PROVE  FullInv'
<1>1. pc[t] = "head" /\ pc[t] \in Working /\ pc[t] \in Copying \cup {"head"}
      /\ "scan" \in Copying \cup {"head"}
  BY DEF Head, Working, Copying
<1>2. /\ StructAt(t) /\ HandAt(t) /\ ProgressAt(t)
      /\ work[t] \in Work /\ work[t].object \in Objects
      /\ \A i \in steady[work[t].object] : i \in 1 .. MaxId
  BY Facts DEF Ids
<1>3. ASSUME NEW w \in Work, w.object = work[t].object, w.last = work[t].last,
             w.missing = work[t].missing, w.rows = work[t].rows,
             Goto(t, "scan"), work' = [work EXCEPT ![t] = w], Grow(t),
             w.object \in plan[t].exists \cup created'[t]
      PROVE  FullInv'
  <2>1. /\ pc'[t] = "scan" /\ work'[t] = w
        /\ steady' = steady /\ offered' = offered
        /\ \A o \in Objects : Complete(o) => Complete(o)'
    BY <1>1, <1>3, CopyEffect
  <2>2. HandAt(t)'
    BY <1>1, <1>2, <1>3, <2>1 DEF HandAt, Copying
  <2>3. Accounted(t)'
    <3>1. w.last = 0
      BY <1>1, <1>2, <1>3 DEF HandAt
    <3>2. \A i \in steady'[work'[t].object] : i \in 1 .. MaxId
      BY <1>2, <1>3, <2>1
    <3>3. QED
      BY <2>1, <3>1, <3>2, Constants DEF Accounted
  <2>4. ProgressAt(t)'
    BY <1>1, <1>2, <1>3, <2>1, <2>3 DEF ProgressAt, Copying
  <2>5. QED
    BY <1>1, <1>3, <2>2, <2>4, CopyKeeps
<1>4. CASE IsMongo /\ work[t].object \in Missing(t)
  <2>1. Make(t, work[t].object, "scan") /\ UNCHANGED <<target, finalized>> /\ Still
    BY <1>4 DEF Head
  <2>2. Grow(t) /\ \/ End(t, "failed")
                   \/ Stay(t, "scan") /\ created'[t] = created[t] \cup {work[t].object}
    BY <1>4, <2>1, MakeGrows DEF FullInv
  <2>3. CASE End(t, "failed")
    BY <1>1, <2>2, <2>3, EndKeeps DEF Terminal
  <2>4. CASE Stay(t, "scan") /\ created'[t] = created[t] \cup {work[t].object}
    <3>1. Goto(t, "scan") /\ work' = [work EXCEPT ![t] = work[t]]
      BY <2>4, SameWork DEF Stay, FullInv
    <3>2. QED
      BY <1>2, <1>3, <2>2, <2>4, <3>1
  <2>5. QED
    BY <2>2, <2>3, <2>4
<1>5. CASE ~ (IsMongo /\ work[t].object \in Missing(t))
  <2>1. PICK w : w = [work[t] EXCEPT !.deferred = @ \/ t \in asked]
    OBVIOUS
  <2>2. w \in Work /\ w.object = work[t].object /\ w.last = work[t].last
        /\ w.missing = work[t].missing /\ w.rows = work[t].rows
    BY <1>2, <2>1 DEF Work
  <2>3. Goto(t, "scan") /\ UNCHANGED <<tables, created>>
        /\ work' = [work EXCEPT ![t].deferred = @ \/ t \in asked]
    BY <1>5 DEF Head
  <2>4. work' = [work EXCEPT ![t] = w]
    BY <2>1, <2>3 DEF FullInv, Inv, TypeOK
  <2>5. Grow(t)
    BY <2>3, NothingGrows DEF Head, targetVars, FullInv
  <2>6. w.object \in plan[t].exists \cup created'[t]
    BY <1>1, <1>2, <1>5, <2>2, <2>3 DEF StructAt, Missing
  <2>7. QED
    BY <1>3, <2>2, <2>3, <2>4, <2>5, <2>6
<1>6. QED
  BY <1>4, <1>5

\* Where pages reach all, every steady row beyond the last one read is ahead.
LEMMA AheadReaches ==
  ASSUME FullInv, NEW t \in Tasks, PagesReachAll(work[t].object),
         NEW i \in steady[work[t].object], i > work[t].last
  PROVE  i \in Ahead(t)
<1>1. i \in source[work[t].object] /\ i \in Ids /\ work[t].last \in 0 .. MaxId
  BY Facts
<1>2. work[t].last # 0 => work[t].last \in Ids
  BY <1>1, Constants DEF Ids
<1>3. IsMongo => \A j, k \in Ids : BsonType[j] = BsonType[k]
  BY DEF PagesReachAll
<1>4. QED
  BY <1>1, <1>2, <1>3 DEF Ahead

LEMMA AheadIsOffered ==
  ASSUME FullInv, NEW t \in Tasks
  PROVE  Ahead(t) \subseteq offered[work[t].object] /\ Ahead(t) \subseteq Ids
BY Facts DEF Ahead

LEMMA TakePageKeeps ==
  ASSUME FullInv, NEW t \in Tasks, TakePage(t)
  PROVE  FullInv'
<1>1. pc[t] = "scan" /\ pc[t] \in Copying \cup {"head"}
  BY DEF TakePage, Copying
<1>2. /\ StructAt(t) /\ HandAt(t) /\ ProgressAt(t)
      /\ work[t] \in Work /\ work[t].object \in Objects /\ work[t].last \in 0 .. MaxId
      /\ steady[work[t].object] \subseteq Ids
  BY Facts
<1>3. PICK k \in Ahead(t) : work' = Turned(t, k)
  BY DEF TakePage, Cuts, FittingCuts
<1>4. /\ k \in Ids /\ Carried(work[t].object, k) \in 0 .. MaxId
      /\ Page(t, k) \subseteq offered[work[t].object] /\ Page(t, k) \subseteq Ids
  BY <1>2, <1>3, AheadIsOffered, KeysAreIds, UpToIsPart, Constants DEF Page, FullInv, Inv
<1> DEFINE page == Page(t, k)
           last == Carried(work[t].object, k)
           s == IF IsNew(t) THEN "insert" ELSE "compare"
<1>5. PICK w : w = IF IsNew(t) THEN [work[t] EXCEPT !.last = last, !.rows = page]
                   ELSE [work[t] EXCEPT !.last = last, !.missing = page]
  OBVIOUS
<1>6. /\ w \in Work /\ w.object = work[t].object /\ w.last = last
      /\ w.missing \cup w.rows = page
      /\ IsNew(t) => w.missing = {} /\ w.rows = page
      /\ ~ IsNew(t) => w.rows = {}
  BY <1>1, <1>2, <1>4, <1>5 DEF Work, HandAt
<1>7. work' = [work EXCEPT ![t] = w]
  BY <1>3, <1>5 DEF Turned, IsNew, FullInv, Inv, TypeOK
<1>8. Goto(t, s) /\ s \in Copying \cup {"head"}
  BY DEF TakePage, Copying
<1>9. Grow(t) /\ created' = created
  BY NothingGrows DEF TakePage, FullInv
<1>10. s = "insert" <=> IsNew(t)
  OBVIOUS
<1>11. s \in {"insert", "compare"}
  OBVIOUS
<1>12. PagesReachAll(work[t].object) =>
         last = k /\ \A i \in Ids : i \in page <=> i \in Ahead(t) /\ i <= k
  BY <1>2, Exact DEF Page, UpTo, FullInv, Inv
<1> HIDE DEF s, page, last
<1>13. /\ pc'[t] = s /\ work'[t] = w
       /\ steady' = steady /\ offered' = offered
       /\ \A o \in Objects : PagesReachAll(o)' = PagesReachAll(o)
       /\ \A o \in Objects : Complete(o) => Complete(o)'
       /\ \A o \in Objects : Present(o) \subseteq Present(o)'
  BY <1>1, <1>6, <1>7, <1>8, <1>9, CopyEffect
<1>14. HandAt(t)'
  BY <1>4, <1>6, <1>10, <1>11, <1>13 DEF HandAt, Copying, page
<1>15. ProgressAt(t)'
  <2>1. ASSUME PagesReachAll(work[t].object), NEW i \in steady[work[t].object], i <= last
        PROVE  i \in Present(work[t].object) \cup page
    <3>1. i \in Ids
      BY <1>2
    <3>2. CASE i <= work[t].last
      BY <1>1, <1>2, <2>1, <3>2 DEF ProgressAt, Accounted, HandAt, Copying
    <3>3. CASE i > work[t].last
      BY <1>12, <2>1, <3>1, <3>3, AheadReaches
    <3>4. QED
      BY <1>2, <3>1, <3>2, <3>3 DEF Ids
  <2>2. Accounted(t)'
    BY <1>2, <1>6, <1>13, <2>1 DEF Accounted
  <2>3. QED
    BY <1>1, <1>2, <1>6, <1>11, <1>13, <2>2 DEF ProgressAt, Copying
<1>16. QED
  BY <1>1, <1>2, <1>6, <1>7, <1>8, <1>9, <1>14, <1>15, CopyKeeps DEF StructAt

\* The end of an object: all its steady rows are in the target.
LEMMA ObjectEndsKeeps ==
  ASSUME FullInv, NEW t \in Tasks, ObjectEnds(t)
  PROVE  FullInv'
<1>1. pc[t] = "scan" /\ pc[t] \in Copying \cup {"head"}
  BY DEF ObjectEnds, Copying
<1>2. /\ StructAt(t) /\ HandAt(t) /\ ProgressAt(t)
      /\ work[t] \in Work /\ work[t].object \in Objects /\ work[t].last \in 0 .. MaxId
      /\ steady[work[t].object] \subseteq Ids
  BY Facts
<1>3. Grow(t) /\ created' = created
  BY NothingGrows DEF ObjectEnds, FullInv
<1>4. Complete(work[t].object)
  <2> SUFFICES ASSUME PagesReachAll(work[t].object)
               PROVE  steady[work[t].object] \subseteq Present(work[t].object)
    BY DEF Complete
  <2>1. Ahead(t) = {}
    <3>1. ASSUME NothingFits(t), IsMongo
          PROVE  FALSE
      <4>1. TooLarge = {}
        BY <3>1 DEF PagesReachAll
      <4>2. QED
        BY <3>1, <4>1 DEF NothingFits, FirstTooLarge
    <3>2. QED
      BY <3>1 DEF ObjectEnds
  <2>2. \A i \in steady[work[t].object] : ~ (i > work[t].last)
    BY <2>1, AheadReaches
  <2>3. \A i \in steady[work[t].object] : i <= work[t].last
    BY <1>2, <2>2 DEF Ids
  <2>4. QED
    BY <1>1, <1>2, <2>3 DEF ProgressAt, Accounted, HandAt, Copying
<1>5. ASSUME NEW s \in {"index", "head", "final"}, NEW w \in Work, Goto(t, s),
             work' = [work EXCEPT ![t] = w],
             w.rows = {}, w.missing = {}, w.last = 0,
             s = "index" => IsMongo /\ w.object = work[t].object,
             s = "head" => ~ IsMongo /\ w.object = work[t].object + 1,
             s = "final" => ~ IsMongo /\ w.object = 1 /\ work[t].object = NObjects
      PROVE  FullInv'
  <2>1. s \in Copying \cup {"head"}
    BY DEF Copying
  <2>2. /\ pc'[t] = s /\ work'[t] = w
        /\ steady' = steady /\ offered' = offered /\ IsMongo' = IsMongo
        /\ \A o \in Objects : Complete(o) => Complete(o)'
    BY <1>1, <1>3, <1>5, <2>1, CopyEffect
  <2>3. HandAt(t)'
    BY <1>5, <2>2 DEF HandAt, Copying
  <2>4. s \in Copying => w.object \in plan[t].exists \cup created'[t]
    BY <1>1, <1>2, <1>3, <1>5, Constants DEF StructAt, Copying, Missing
  <2>5. w.object \in Objects
    BY DEF Work
  <2>6. ProgressAt(t)'
    <3>1. \A o \in Objects : o < work[t].object => Complete(o)
      BY <1>1, <1>2 DEF ProgressAt, Copying
    <3>2. Complete(work[t].object)
      BY <1>4
    <3>3. \A o \in Objects : o \in Nat /\ o <= NObjects
      BY Constants DEF Objects
    <3>4. CASE s = "index"
      BY <1>2, <1>5, <2>2, <3>1, <3>2, <3>4 DEF ProgressAt, Copying
    <3>5. CASE s = "head"
      <4>1. \A o \in Objects : o < w.object => o = work[t].object \/ o < work[t].object
        BY <1>2, <1>5, <3>3, <3>5
      <4>2. \A o \in Objects : o < w.object => Complete(o)'
        BY <1>2, <2>2, <3>1, <3>2, <4>1
      <4>3. QED
        BY <2>2, <3>5, <4>2 DEF ProgressAt, Copying
    <3>6. CASE s = "final"
      <4>1. \A o \in Objects : o = work[t].object \/ o < work[t].object
        BY <1>2, <1>5, <3>3, <3>6
      <4>2. \A o \in Objects : Complete(o)'
        BY <1>2, <2>2, <3>1, <3>2, <4>1
      <4>3. \A o \in Objects : ~ (o < 1)
        BY DEF Objects
      <4>4. QED
        BY <1>5, <2>2, <3>6, <4>2, <4>3 DEF ProgressAt, Copying
    <3>7. QED
      BY <3>4, <3>5, <3>6
  <2>7. QED
    BY <1>1, <1>3, <1>5, <2>1, <2>3, <2>4, <2>6, CopyKeeps
<1>6. work[t].rows = {} /\ work[t].missing = {}
  BY <1>1, <1>2 DEF HandAt
<1>7. CASE IsMongo
  <2>1. PICK w : w = [work[t] EXCEPT !.last = 0]
    OBVIOUS
  <2>2. w \in Work /\ w.rows = {} /\ w.missing = {} /\ w.last = 0 /\ w.object = work[t].object
    BY <1>2, <1>6, <2>1, Constants DEF Work
  <2>3. Goto(t, "index") /\ work' = [work EXCEPT ![t] = w]
    BY <1>7, <2>1 DEF ObjectEnds, FullInv, Inv, TypeOK
  <2>4. QED
    BY <1>5, <1>7, <2>2, <2>3
<1>8. CASE ~ IsMongo /\ work[t].object < NObjects
  <2>1. PICK w : w = [work[t] EXCEPT !.last = 0, !.object = work[t].object + 1]
    OBVIOUS
  <2>2. w \in Work /\ w.rows = {} /\ w.missing = {} /\ w.last = 0 /\ w.object = work[t].object + 1
    <3>1. work[t].object + 1 \in Objects
      BY <1>2, <1>8, Constants DEF Objects
    <3>2. QED
      BY <1>2, <1>6, <2>1, <3>1, Constants DEF Work
  <2>3. Goto(t, "head") /\ work' = [work EXCEPT ![t] = w]
    <3>1. ~ (work[t].object = NObjects)
      BY <1>2, <1>8, Constants DEF Objects
    <3>2. Goto(t, "head") /\ work' = [work EXCEPT ![t] = [@ EXCEPT !.last = 0, !.object = work[t].object + 1]]
      BY <1>8, <3>1 DEF ObjectEnds
    <3>3. QED
      BY <2>1, <3>2
  <2>4. QED
    BY <1>5, <1>8, <2>2, <2>3
<1>9. CASE ~ IsMongo /\ work[t].object = NObjects
  <2>1. PICK w : w = [work[t] EXCEPT !.last = 0, !.object = 1]
    OBVIOUS
  <2>2. w \in Work /\ w.rows = {} /\ w.missing = {} /\ w.last = 0 /\ w.object = 1
    BY <1>2, <1>6, <2>1, Constants DEF Work
  <2>3. Goto(t, "final") /\ work' = [work EXCEPT ![t] = w]
    BY <1>9, <2>1, Constants DEF ObjectEnds, FullInv, Inv, TypeOK
  <2>4. QED
    BY <1>5, <1>9, <2>2, <2>3
<1>10. QED
  BY <1>2, <1>7, <1>8, <1>9, Constants DEF Objects, ObjectEnds

\* A step with a page in hand: what it no longer has in hand is in the target.
LEMMA OnPage ==
  ASSUME FullInv, NEW t \in Tasks, pc[t] \in {"compare", "fetch", "insert", "check"}, Grow(t),
         NEW s \in {"scan", "fetch", "insert", "check"}, NEW w \in Work,
         w.object = work[t].object, w.last = work[t].last,
         NEW o \in Objects, o = work[t].object,
         Goto(t, s), work' = [work EXCEPT ![t] = w],
         s = "scan" => w.rows = {}, s \in {"scan", "insert"} => w.missing = {},
         w.rows \subseteq offered[work[t].object],
         PagesReachAll(o) =>
           \A i \in steady[o] : i \in work[t].missing \cup work[t].rows =>
             i \in Present(o)' \cup w.missing \cup w.rows
  PROVE  FullInv'
<1>1. pc[t] \in Copying \cup {"head"} /\ s \in Copying \cup {"head"}
  BY DEF Copying
<1>2. StructAt(t) /\ HandAt(t) /\ ProgressAt(t) /\ work[t].object \in Objects
  BY Facts
<1>3. /\ pc'[t] = s /\ work'[t] = w
      /\ steady' = steady /\ offered' = offered
      /\ \A p \in Objects : PagesReachAll(p)' = PagesReachAll(p)
      /\ \A p \in Objects : Complete(p) => Complete(p)'
      /\ \A p \in Objects : Present(p) \subseteq Present(p)'
  BY <1>1, CopyEffect
<1>4. HandAt(t)'
  BY <1>3 DEF HandAt, Copying
<1>5. ProgressAt(t)'
  <2>1. Accounted(t)
    BY <1>2 DEF ProgressAt, Copying
  <2>2. Accounted(t)'
    BY <1>2, <1>3, <2>1 DEF Accounted
  <2>3. QED
    BY <1>2, <1>3, <2>2 DEF ProgressAt, Copying
<1>6. w.object \in plan[t].exists \cup created'[t]
  BY <1>1, <1>2 DEF StructAt, Copying, Grow
<1>7. QED
  BY <1>1, <1>4, <1>5, <1>6, CopyKeeps

LEMMA CompareKeeps ==
  ASSUME FullInv, NEW t \in Tasks, Compare(t)
  PROVE  FullInv'
<1>0. PICK o \in Objects : o = work[t].object
  BY Facts
<1>1. pc[t] = "compare" /\ pc[t] \in Working
  BY DEF Compare, Working
<1>2. /\ HandAt(t) /\ work[t] \in Work /\ work[t].object \in Objects
      /\ work[t].missing \subseteq Ids /\ work[t].rows = {}
  BY <1>1, Facts DEF HandAt
<1>3. Grow(t) /\ created' = created
  BY NothingGrows DEF Compare, FullInv
<1> DEFINE absent == {i \in work[t].missing : Carried(work[t].object, i) \notin Present(work[t].object)}
           s == IF absent = {} THEN "scan" ELSE "fetch"
<1>4. CASE End(t, "cancelled") /\ Stops(t) /\ ~ IsMongo
  <2>1. created'[t] = {}
    BY <1>3, <1>4 DEF Stops, Honours, Grow
  <2>2. QED
    BY <1>1, <1>3, <1>4, <2>1, EndKeeps DEF Terminal
<1>5. CASE work' = [work EXCEPT ![t].missing = absent] /\ Goto(t, s)
  <2>1. PICK w : w = [work[t] EXCEPT !.missing = absent]
    OBVIOUS
  <2>2. /\ w \in Work /\ w.object = work[t].object /\ w.last = work[t].last
        /\ w.missing = absent /\ w.rows = {}
    BY <1>2, <2>1 DEF Work
  <2>3. work' = [work EXCEPT ![t] = w]
    BY <1>5, <2>1 DEF FullInv, Inv, TypeOK
  <2>4. /\ s \in {"scan", "fetch"} /\ (s = "scan" => absent = {})
    OBVIOUS
  <2>5. Present(o) \subseteq Present(o)'
    BY <1>0, <1>1, <1>2, <1>3, Frame DEF FullInv
  <2>6. PagesReachAll(o) => \A i \in work[t].missing \cup work[t].rows :
          i \in Present(o)' \cup w.missing \cup w.rows
    BY <1>0, <1>2, <2>2, <2>5, Exact DEF FullInv, Inv
  <2>7. /\ s = "scan" => w.rows = {}
        /\ s \in {"scan", "insert"} => w.missing = {}
        /\ w.rows \subseteq offered[work[t].object]
    BY <2>2, <2>4
  <2>8. PICK next : next = s
    OBVIOUS
  <2>9. /\ Goto(t, next) /\ next \in {"scan", "fetch"}
        /\ next = "scan" => w.rows = {}
        /\ next \in {"scan", "insert"} => w.missing = {}
    BY <1>5, <2>4, <2>7, <2>8
  <2> HIDE DEF s, absent
  <2>10. QED
    BY <1>0, <1>1, <1>3, <2>2, <2>3, <2>6, <2>7, <2>9, OnPage
<1>6. QED
  BY <1>4, <1>5 DEF Compare

\* Fetching a part keeps the steady rows of the part.
LEMMA FetchedKeeps ==
  ASSUME FullInv, NEW t \in Tasks, pc[t] = "fetch", Grow(t), NEW part, NEW found,
         Fetched(t, part, found), found \subseteq source[work[t].object],
         PagesReachAll(work[t].object) =>
           steady[work[t].object] \cap work[t].missing \cap part \subseteq found
  PROVE  FullInv'
<1>0. PICK o \in Objects : o = work[t].object
  BY Facts
<1>1. /\ HandAt(t) /\ work[t] \in Work /\ work[t].object \in Objects
      /\ work[t].missing \subseteq Ids /\ work[t].rows \subseteq Ids
      /\ source[work[t].object] \subseteq offered[work[t].object]
      /\ offered[work[t].object] \subseteq Ids
  BY Facts
<1> DEFINE left == work[t].missing \ part
           rows == work[t].rows \cup found
           s == IF left # {} THEN "fetch" ELSE IF rows # {} THEN "insert" ELSE "scan"
<1>2. rows \subseteq offered[work[t].object] /\ rows \subseteq Ids
  BY <1>1 DEF HandAt
<1>3. Goto(t, s) /\ work' = [work EXCEPT ![t].missing = left, ![t].rows = rows]
  BY DEF Fetched
<1>4. PICK w : w = [work[t] EXCEPT !.missing = left, !.rows = rows]
  OBVIOUS
<1>5. /\ w \in Work /\ w.object = work[t].object /\ w.last = work[t].last
      /\ w.missing = left /\ w.rows = rows
  BY <1>1, <1>2, <1>4 DEF Work
<1>6. work' = [work EXCEPT ![t] = w]
  BY <1>3, <1>4 DEF FullInv, Inv, TypeOK
<1>7. /\ s \in {"scan", "fetch", "insert"}
      /\ (s = "scan" => rows = {} /\ left = {}) /\ (s = "insert" => left = {})
  OBVIOUS
<1>8. PagesReachAll(o) =>
        \A i \in steady[o] : i \in work[t].missing \cup work[t].rows =>
          i \in Present(o)' \cup w.missing \cup w.rows
  BY <1>0, <1>5
<1> HIDE DEF s, left, rows
<1>9. PICK next : next = s
  OBVIOUS
<1>10. /\ Goto(t, next) /\ next \in {"scan", "fetch", "insert"}
       /\ next = "scan" => w.rows = {}
       /\ next \in {"scan", "insert"} => w.missing = {}
       /\ w.rows \subseteq offered[work[t].object]
  BY <1>2, <1>3, <1>5, <1>7, <1>9
<1>11. QED
  BY <1>0, <1>5, <1>6, <1>8, <1>10, OnPage

LEMMA FetchSqlKeeps ==
  ASSUME FullInv, NEW t \in Tasks, FetchSql(t)
  PROVE  FullInv'
<1>1. pc[t] = "fetch" /\ pc[t] \in Working
  BY DEF FetchSql, Working
<1>2. Grow(t)
  BY NothingGrows DEF FetchSql, FullInv
<1>3. CASE End(t, "failed")
  BY <1>1, <1>2, <1>3, EndKeeps DEF Terminal
<1> DEFINE o == work[t].object
           part(k) == UpTo(o, work[t].missing, k)
<1>4. ASSUME NEW k, Fetched(t, part(k), Keys(o, part(k)) \cap source[o])
      PROVE  FullInv'
  <2>1. steady[o] \subseteq source[o] /\ o \in Objects
    BY Facts
  <2>2. PagesReachAll(o) => Keys(o, part(k)) = part(k)
    BY <2>1, ExactKeys DEF FullInv, Inv
  <2>3. PICK found : found = Keys(o, part(k)) \cap source[o]
    OBVIOUS
  <2>4. PICK rows : rows = part(k)
    OBVIOUS
  <2>5. Fetched(t, rows, found) /\ found \subseteq source[o]
    BY <1>4, <2>3, <2>4
  <2>6. PagesReachAll(o) => steady[o] \cap work[t].missing \cap rows \subseteq found
    BY <2>1, <2>2, <2>3, <2>4
  <2>7. QED
    BY <1>1, <1>2, <2>5, <2>6, FetchedKeeps
<1>5. QED
  BY <1>3, <1>4 DEF FetchSql

LEMMA FetchMongoKeeps ==
  ASSUME FullInv, NEW t \in Tasks, FetchMongo(t)
  PROVE  FullInv'
<1>1. pc[t] = "fetch"
  BY DEF FetchMongo
<1>2. Grow(t)
  BY NothingGrows DEF FetchMongo, FullInv
<1>3. steady[work[t].object] \subseteq source[work[t].object]
  BY Facts
<1> DEFINE left == work[t].missing \cap source[work[t].object]
<1>4. CASE (left = {} \/ FirstTooLarge(work[t].object, left)) /\ Fetched(t, work[t].missing, {})
  <2>1. PagesReachAll(work[t].object) => TooLarge = {}
    BY DEF FetchMongo, PagesReachAll
  <2>2. PagesReachAll(work[t].object) => left = {}
    BY <1>4, <2>1 DEF FirstTooLarge
  <2>3. QED
    BY <1>1, <1>2, <1>3, <1>4, <2>2, FetchedKeeps
<1> DEFINE page(k) == UpTo(work[t].object, left, k)
<1>5. ASSUME NEW k, Fetched(t, IF page(k) = left THEN work[t].missing ELSE page(k), page(k))
      PROVE  FullInv'
  <2>1. page(k) \subseteq left
    BY UpToIsPart
  <2>2. PICK part : part = IF page(k) = left THEN work[t].missing ELSE page(k)
    OBVIOUS
  <2>3. PICK found : found = page(k)
    OBVIOUS
  <2>4. Fetched(t, part, found)
    BY <1>5, <2>2, <2>3
  <2>5. steady[work[t].object] \cap work[t].missing \cap part \subseteq found
    BY <1>3, <2>2, <2>3
  <2>6. found \subseteq source[work[t].object]
    BY <2>1, <2>3
  <2>7. QED
    BY <1>1, <1>2, <2>4, <2>5, <2>6, FetchedKeeps
<1>6. QED
  BY <1>4, <1>5 DEF FetchMongo

LEMMA InsertionGrows ==
  ASSUME FullInv, NEW t \in Tasks, pc[t] = "insert", NEW B, B \subseteq work[t].rows, Insertion(t, B),
         UNCHANGED <<tables, created, finalized>>, Still,
         NEW o \in Objects, o = work[t].object
  PROVE  Grow(t) /\ Keys(o, B) \subseteq Present(o)'
<1>1. /\ work[t].object \in Objects /\ Keys(work[t].object, B) \subseteq Ids
      /\ Keys(work[t].object, B) \subseteq Keys(work[t].object, work[t].rows)
  <2>1. work[t].object \in Objects /\ work[t].rows \subseteq Ids
    BY Facts
  <2>2. QED
    BY <2>1, KeysAreIds DEF FullInv, Inv, Keys
<1>2. \A p \in Objects, i \in Ids :
        target'[p][i] =
          IF p = work[t].object /\ i \in Keys(p, B) /\ target[p][i] = None THEN t ELSE target[p][i]
  BY <1>1 DEF Insertion, FullInv, Inv, TypeOK
<1>3. target' \in [Objects -> [Ids -> Tasks \cup {None, Other}]]
  BY <1>1 DEF Insertion, FullInv, Inv, TypeOK
<1>4. Grow(t)
  <2>1. \A p \in Objects, i \in Ids :
          \/ target'[p][i] = target[p][i]
          \/ /\ target[p][i] = None /\ target'[p][i] = t
             /\ pc[t] = "insert" /\ p = work[t].object /\ i \in Keys(p, work[t].rows)
    BY <1>1, <1>2
  <2>2. created[t] \subseteq Missing(t) \cap tables
    BY DEF FullInv, Inv, StructInv, StructAt
  <2>3. QED
    BY <1>3, <2>1, <2>2 DEF Grow, FullInv, Inv, TypeOK
<1>5. Keys(o, B) \subseteq Present(o)'
  BY <1>1, <1>2, Constants DEF Present
<1>6. QED
  BY <1>4, <1>5

LEMMA InsertKeeps ==
  ASSUME FullInv, NEW t \in Tasks, Insert(t)
  PROVE  FullInv'
<1>0. PICK o \in Objects : o = work[t].object
  BY Facts
<1>1. pc[t] = "insert" /\ pc[t] \in Working
  BY DEF Insert, Working
<1>2. /\ HandAt(t) /\ work[t] \in Work /\ work[t].object \in Objects
      /\ work[t].missing = {} /\ work[t].rows \subseteq Ids
      /\ work[t].rows \subseteq offered[work[t].object]
  BY <1>1, Facts DEF HandAt
<1>3. PICK B : B \subseteq work[t].rows /\ Inserted(t, B)
  BY UpToIsPart DEF Insert
<1>4. UNCHANGED <<tables, created, finalized>> /\ Still
  BY DEF Insert
<1> DEFINE left == work[t].rows \ B
           part == B \ Clashing(work[t].object, B)
<1>5. CASE Insertion(t, part) /\ work' = [work EXCEPT ![t].rows = left, ![t].missing = B]
           /\ Goto(t, "check")
  <2>1. part \subseteq work[t].rows
    BY <1>3
  <2>2. Grow(t)
    BY <1>0, <1>1, <1>4, <1>5, <2>1, InsertionGrows
  <2>3. PICK w : w = [work[t] EXCEPT !.rows = left, !.missing = B]
    OBVIOUS
  <2>4. /\ w \in Work /\ w.object = work[t].object /\ w.last = work[t].last
        /\ w.missing = B /\ w.rows = left
    BY <1>2, <1>3, <2>3 DEF Work
  <2>5. work' = [work EXCEPT ![t] = w]
    BY <1>5, <2>3 DEF FullInv, Inv, TypeOK
  <2>6. \A i \in work[t].missing \cup work[t].rows : i \in w.missing \cup w.rows
    BY <1>2, <2>4
  <2>7. w.rows \subseteq offered[work[t].object]
    BY <1>2, <2>4
  <2> HIDE DEF left, part
  <2>8. QED
    BY <1>0, <1>1, <1>5, <2>2, <2>4, <2>5, <2>6, <2>7, OnPage
<1>6. CASE Insertion(t, B) /\ work' = [work EXCEPT ![t].rows = left]
           /\ Goto(t, IF left = {} THEN "scan" ELSE "insert")
  <2>1. Grow(t) /\ Keys(o, B) \subseteq Present(o)'
    BY <1>0, <1>1, <1>3, <1>4, <1>6, InsertionGrows
  <2>2. PICK w : w = [work[t] EXCEPT !.rows = left]
    OBVIOUS
  <2>3. /\ w \in Work /\ w.object = work[t].object /\ w.last = work[t].last
        /\ w.missing = {} /\ w.rows = left
    BY <1>2, <1>3, <2>2 DEF Work
  <2>4. work' = [work EXCEPT ![t] = w]
    BY <1>6, <2>2 DEF FullInv, Inv, TypeOK
  <2>5. PagesReachAll(o) =>
          \A i \in work[t].missing \cup work[t].rows : i \in Present(o)' \cup w.rows
    BY <1>2, <2>1, <2>3, ExactKeys DEF FullInv, Inv
  <2>6. w.rows \subseteq offered[work[t].object]
    BY <1>2, <2>3
  <2>7. PICK s : s = IF left = {} THEN "scan" ELSE "insert"
    OBVIOUS
  <2>8. Goto(t, s) /\ s \in {"scan", "insert"} /\ (s = "scan" => left = {})
    BY <1>6, <2>7
  <2> HIDE DEF left
  <2>9. QED
    BY <1>0, <1>1, <2>1, <2>3, <2>4, <2>5, <2>6, <2>8, OnPage
<1>7. CASE Insertion(t, part) /\ End(t, "failed")
  <2>1. part \subseteq work[t].rows
    BY <1>3
  <2>2. Grow(t)
    BY <1>0, <1>1, <1>4, <1>7, <2>1, InsertionGrows
  <2>3. QED
    BY <1>1, <1>7, <2>2, EndKeeps DEF Terminal
<1>8. QED
  BY <1>3, <1>5, <1>6, <1>7 DEF Inserted

LEMMA CheckKeeps ==
  ASSUME FullInv, NEW t \in Tasks, Check(t)
  PROVE  FullInv'
<1>0. PICK o \in Objects : o = work[t].object
  BY Facts
<1>1. pc[t] = "check" /\ pc[t] \in Working
  BY DEF Check, Working
<1>2. /\ work[t] \in Work /\ work[t].object \in Objects
      /\ work[t].rows \subseteq offered[work[t].object]
  BY <1>1, Facts DEF HandAt
<1>3. Grow(t)
  BY NothingGrows DEF Check, FullInv
<1>4. CASE End(t, "failed")
  BY <1>1, <1>3, <1>4, EndKeeps DEF Terminal
<1>5. CASE /\ AllFound(work[t].object, work[t].missing)
           /\ work' = [work EXCEPT ![t].missing = {}]
           /\ Goto(t, IF work[t].rows = {} THEN "scan" ELSE "insert")
  <2>1. PICK w : w = [work[t] EXCEPT !.missing = {}]
    OBVIOUS
  <2>2. /\ w \in Work /\ w.object = work[t].object /\ w.last = work[t].last
        /\ w.missing = {} /\ w.rows = work[t].rows
    BY <1>2, <2>1 DEF Work
  <2>3. work' = [work EXCEPT ![t] = w]
    BY <1>5, <2>1 DEF FullInv, Inv, TypeOK
  <2>4. Present(o) \subseteq Present(o)'
    BY <1>0, <1>1, <1>2, <1>3, Frame DEF FullInv
  <2>5. PagesReachAll(o) =>
          \A i \in work[t].missing \cup work[t].rows : i \in Present(o)' \cup w.rows
    BY <1>0, <1>5, <2>2, <2>4, ExactKeys DEF AllFound, FullInv, Inv
  <2>6. PICK s : s = IF work[t].rows = {} THEN "scan" ELSE "insert"
    OBVIOUS
  <2>7. Goto(t, s) /\ s \in {"scan", "insert"} /\ (s = "scan" => w.rows = {})
    BY <1>5, <2>2, <2>6
  <2>8. QED
    BY <1>0, <1>1, <1>2, <1>3, <2>2, <2>3, <2>5, <2>7, OnPage
<1>6. QED
  BY <1>4, <1>5 DEF Check

\* The next collection, or the result.
LEMMA IndexKeeps ==
  ASSUME FullInv, NEW t \in Tasks, Index(t)
  PROVE  FullInv'
<1>1. pc[t] = "index" /\ pc[t] \in Working /\ pc[t] \in Copying \cup {"head"}
      /\ "head" \in Copying \cup {"head"}
  BY DEF Index, Working, Copying
<1>2. /\ HandAt(t) /\ ProgressAt(t) /\ work[t] \in Work /\ work[t].object \in Objects
      /\ work[t].last = 0 /\ work[t].rows = {} /\ work[t].missing = {}
  BY <1>1, Facts DEF HandAt
<1>3. Grow(t)
  BY <1>2, Constants DEF Index, Grow, FullInv, Inv, TypeOK, StructInv, StructAt, targetVars
<1>4. \A p \in Objects : p \in Nat /\ p <= NObjects
  BY Constants DEF Objects
<1>5. \A p \in Objects : p <= work[t].object => Complete(p)
  <2>1. \A p \in Objects : p < work[t].object => Complete(p)
    BY <1>1, <1>2 DEF ProgressAt
  <2>2. Complete(work[t].object)
    BY <1>1, <1>2 DEF ProgressAt
  <2>3. \A p \in Objects : p <= work[t].object => p = work[t].object \/ p < work[t].object
    BY <1>2, <1>4
  <2>4. QED
    BY <2>1, <2>2, <2>3
<1>6. CASE work[t].object = NObjects /\ End(t, "completed")
  <2>1. \A p \in Objects : Complete(p)
    BY <1>4, <1>5, <1>6
  <2>2. \A p \in Objects : Complete(p)'
    BY <1>1, <1>3, <2>1, StillComplete DEF FullInv
  <2>3. QED
    BY <1>1, <1>3, <1>6, <2>2, EndKeeps DEF Terminal
<1>7. CASE /\ work[t].object # NObjects /\ Goto(t, "head")
           /\ work' = [work EXCEPT ![t].object = @ + 1]
  <2>1. PICK w : w = [work[t] EXCEPT !.object = @ + 1]
    OBVIOUS
  <2>2. work[t].object + 1 \in Objects
    BY <1>2, <1>7, Constants DEF Objects
  <2>3. /\ w \in Work /\ w.object = work[t].object + 1
        /\ w.last = 0 /\ w.rows = {} /\ w.missing = {}
    BY <1>2, <2>1, <2>2 DEF Work
  <2>4. work' = [work EXCEPT ![t] = w]
    BY <1>7, <2>1 DEF FullInv, Inv, TypeOK
  <2>5. /\ pc'[t] = "head" /\ work'[t] = w
        /\ \A p \in Objects : Complete(p) => Complete(p)'
    BY <1>1, <1>3, <1>7, <2>3, <2>4, CopyEffect
  <2>6. HandAt(t)'
    BY <2>3, <2>5 DEF HandAt, Copying
  <2>7. ProgressAt(t)'
    <3>1. \A p \in Objects : p < w.object => p <= work[t].object
      BY <1>2, <1>4, <2>3
    <3>2. \A p \in Objects : p < w.object => Complete(p)'
      BY <1>5, <2>5, <3>1
    <3>3. QED
      BY <2>5, <3>2 DEF ProgressAt, Copying
  <2>8. "head" \notin Copying
    BY DEF Copying
  <2>9. QED
    BY <1>1, <1>3, <1>7, <2>3, <2>4, <2>6, <2>7, <2>8, CopyKeeps
<1>8. QED
  BY <1>6, <1>7 DEF Index

LEMMA FinalKeeps ==
  ASSUME FullInv, NEW t \in Tasks, Final(t)
  PROVE  FullInv'
<1>1. pc[t] = "final" /\ pc[t] \in Working /\ pc[t] \in Copying \cup {"head"}
      /\ "final" \in Copying \cup {"head"}
  BY DEF Final, Working, Copying
<1>2. /\ StructAt(t) /\ HandAt(t) /\ ProgressAt(t)
      /\ work[t] \in Work /\ work[t].object \in Objects
      /\ work[t].last = 0 /\ work[t].rows = {} /\ work[t].missing = {}
  BY <1>1, Facts DEF HandAt
<1>3. ~ IsMongo
  BY <1>1, <1>2 DEF HandAt
<1>4. Grow(t) /\ finalized' = finalized \cup {work[t].object} /\ created' = created
  BY <1>2, Constants DEF Final, Grow, FullInv, Inv, TypeOK, StructInv, StructAt, targetVars
<1>5. \A p \in Objects : p \in Nat /\ p <= NObjects
  BY Constants DEF Objects
<1>6. /\ \A p \in Objects : Complete(p)
      /\ \A p \in Objects : p < work[t].object => p \in finalized
  BY <1>1, <1>2, <1>3 DEF ProgressAt
<1>7. \A p \in Objects : Complete(p)'
  BY <1>1, <1>4, <1>6, StillComplete DEF FullInv
<1>8. \A p \in Objects : p <= work[t].object => p \in finalized'
  <2>1. \A p \in Objects : p <= work[t].object => p = work[t].object \/ p < work[t].object
    BY <1>2, <1>5
  <2>2. QED
    BY <1>4, <1>6, <2>1
<1>9. ASSUME work[t].object = NObjects,
             End(t, IF work[t].deferred THEN "cancelled" ELSE "completed")
      PROVE  FullInv'
  <2>1. PICK ph : ph = IF work[t].deferred THEN "cancelled" ELSE "completed"
    OBVIOUS
  <2>2. End(t, ph) /\ ph \in Terminal
    BY <1>9, <2>1 DEF Terminal
  <2>3. finalized' = Objects
    BY <1>4, <1>5, <1>8, <1>9 DEF Grow
  <2>4. Missing(t) \subseteq created'[t]
    BY <1>1, <1>2, <1>3, <1>4 DEF StructAt, Copying
  <2>5. QED
    BY <1>1, <1>4, <1>7, <2>2, <2>3, <2>4, EndKeeps
<1>10. CASE /\ work[t].object # NObjects /\ UNCHANGED <<gate, pc>>
            /\ work' = [work EXCEPT ![t].object = @ + 1]
  <2>1. PICK w : w = [work[t] EXCEPT !.object = @ + 1]
    OBVIOUS
  <2>2. work[t].object + 1 \in Objects
    BY <1>2, <1>10, Constants DEF Objects
  <2>3. /\ w \in Work /\ w.object = work[t].object + 1
        /\ w.last = 0 /\ w.rows = {} /\ w.missing = {}
    BY <1>2, <2>1, <2>2 DEF Work
  <2>4. work' = [work EXCEPT ![t] = w] /\ Goto(t, "final")
    BY <1>1, <1>10, <2>1 DEF Goto, FullInv, Inv, TypeOK
  <2>5. pc'[t] = "final" /\ work'[t] = w /\ IsMongo' = IsMongo
    BY <1>1, <1>4, <2>3, <2>4, CopyEffect
  <2>6. HandAt(t)'
    BY <1>3, <2>3, <2>5 DEF HandAt, Copying
  <2>7. ProgressAt(t)'
    <3>1. \A p \in Objects : p < w.object => p <= work[t].object
      BY <1>2, <1>5, <2>3
    <3>2. \A p \in Objects : p < w.object => p \in finalized'
      BY <1>8, <3>1
    <3>3. QED
      BY <1>7, <2>5, <3>2 DEF ProgressAt, Copying
  <2>8. w.object \in plan[t].exists \cup created'[t]
    BY <1>1, <1>2, <1>3, <1>4, <2>2, <2>3 DEF StructAt, Copying, Missing
  <2>9. QED
    BY <1>1, <1>4, <2>3, <2>4, <2>6, <2>7, <2>8, CopyKeeps
<1>11. QED
  BY <1>9, <1>10 DEF Final

LEMMA ExecuteKeeps ==
  ASSUME FullInv, NEW t \in Tasks, Execute(t)
  PROVE  FullInv'
BY HonourCancelKeeps, VerifyKeeps, CreateKeeps, HeadKeeps, TakePageKeeps, RowTooLargeKeeps,
   ObjectEndsKeeps, CompareKeeps, FetchSqlKeeps, FetchMongoKeeps, InsertKeeps, CheckKeeps,
   IndexKeeps, FinalKeeps, FailsKeeps
   DEF Execute

(***************************************************************************)
(* The steps of users and of other clients                                 *)
(***************************************************************************)

\* A step that changes the gate, or asks for a cancellation.
LEMMA GateStepKeeps ==
  ASSUME FullInv, UNCHANGED <<engine, sourceVars, targetVars, pc, plan, created, work, finalized, changes>>,
         gate' \in Gate, asked' \subseteq Tasks, GateInv', gate'.phase \in Busy \cup {"free"}
  PROVE  FullInv'
<1>1. TypeOK'
  BY DEF FullInv, Inv, TypeOK, sourceVars, targetVars, Present
<1>2. \A t \in Tasks : StructAt(t)' /\ HandAt(t)' /\ (ProgressAt(t) => ProgressAt(t)')
  <2>1. ASSUME NEW t \in Tasks
        PROVE  StructAt(t)'
    BY DEF FullInv, Inv, StructInv, StructAt, Missing, IsMongo, targetVars
  <2>2. ASSUME NEW t \in Tasks
        PROVE  HandAt(t)'
    BY DEF FullInv, Inv, HandInv, HandAt, IsMongo, sourceVars
  <2>3. ASSUME NEW t \in Tasks, ProgressAt(t)
        PROVE  ProgressAt(t)'
    BY <2>3 DEF ProgressAt, Accounted, Complete, PagesReachAll, IsMongo, TooLarge, Present,
                sourceVars, targetVars
  <2>4. QED
    BY <2>1, <2>2, <2>3
<1>3. RowsInv'
  BY DEF FullInv, Inv, RowsInv, ConfirmedOnly, Copied, targetVars
<1>4. SourceInv'
  BY DEF FullInv, Inv, SourceInv, sourceVars
<1>5. ResultInv'
  BY DEF ResultInv, CompletedIsComplete, SafeCancel, Busy
<1>6. QED
  BY <1>1, <1>2, <1>3, <1>4, <1>5 DEF FullInv, Inv, StructInv, HandInv

LEMMA RequestCancelKeeps ==
  ASSUME FullInv, NEW t \in Tasks, RequestCancel(t)
  PROVE  FullInv'
<1>1. gate' = [task |-> t, phase |-> "cancelling"]
  BY DEF RequestCancel
<1>2. gate' \in Gate /\ gate'.phase \in Busy /\ gate'.task = t /\ gate.task = t
  BY <1>1 DEF Gate, Busy, RequestCancel
<1>3. GateInv'
  BY <1>2 DEF RequestCancel, FullInv, Inv, GateInv, OneExecutor, Busy
<1>4. QED
  BY <1>2, <1>3, GateStepKeeps DEF RequestCancel, FullInv, Inv, TypeOK

LEMMA AcknowledgeKeeps ==
  ASSUME FullInv, NEW t \in Tasks, Acknowledge(t)
  PROVE  FullInv'
<1>1. gate' \in Gate /\ gate'.phase = "free" /\ gate'.task = None /\ gate.phase \notin Busy
  BY DEF Acknowledge, Free, Gate, Terminal, Busy
<1>2. GateInv'
  BY <1>1 DEF Acknowledge, FullInv, Inv, GateInv, OneExecutor, Busy
<1>3. QED
  BY <1>1, <1>2, GateStepKeeps DEF Acknowledge, FullInv, Inv, TypeOK

\* A task that has not started, and so has neither rows nor the gate, gets
\* another plan.
LEMMA PlanKeeps ==
  ASSUME FullInv, NEW t \in Tasks, pc[t] \in {"new", "listed", "prepared"},
         NEW s \in {"listed", "prepared", "over"}, NEW p \in Plan, p.exists \subseteq tables,
         pc' = [pc EXCEPT ![t] = s], plan' = [plan EXCEPT ![t] = p],
         UNCHANGED <<engine, sourceVars, targetVars, gate, asked, created, work, finalized, changes>>
  PROVE  FullInv'
<1>1. /\ pc' \in [Tasks -> Steps] /\ plan' \in [Tasks -> Plan] /\ pc'[t] = s /\ plan'[t] = p
      /\ \A u \in Tasks : u # t => pc'[u] = pc[u] /\ plan'[u] = plan[u]
  BY DEF FullInv, Inv, TypeOK, Steps
<1>2. pc[t] \notin Working \cup {"over"} /\ s \notin Working
  BY DEF Working
<1>3. TypeOK'
  BY <1>1 DEF FullInv, Inv, TypeOK, sourceVars, targetVars, Present, Steps
<1>4. gate.task # t
  BY <1>2, Constants DEF FullInv, Inv, GateInv
<1>5. GateInv'
  <2>1. \A u \in Tasks : pc'[u] \in Working => u # t /\ pc[u] \in Working
    BY <1>1, <1>2
  <2>2. gate.task # None => gate.task \in Tasks
    BY DEF FullInv, Inv, TypeOK, Gate
  <2>3. gate.phase \in Busy => gate.task \in Tasks
    BY DEF FullInv, Inv, TypeOK, Gate, Busy
  <2>4. QED
    BY <1>1, <1>4, <2>1, <2>2, <2>3 DEF FullInv, Inv, GateInv, OneExecutor
<1>6. ASSUME NEW u \in Tasks
      PROVE  StructAt(u)' /\ HandAt(u)' /\ (ProgressAt(u) => ProgressAt(u)')
  <2>1. StructAt(u) /\ HandAt(u)
    BY DEF FullInv, Inv, StructInv, HandInv
  <2>2. CASE u = t
    <3>1. created[t] = {} /\ work[t] = Fresh
      BY <2>1, <2>2 DEF StructAt, HandAt, Copying
    <3>2. StructAt(t)'
      BY <1>1, <3>1 DEF StructAt, Copying, targetVars
    <3>3. HandAt(t)'
      BY <1>1, <3>1, FreshIsWork DEF HandAt, Copying
    <3>4. ProgressAt(t)'
      BY <1>1 DEF ProgressAt, Copying
    <3>5. QED
      BY <2>2, <3>2, <3>3, <3>4
  <2>3. CASE u # t
    <3>1. pc'[u] = pc[u] /\ plan'[u] = plan[u]
      BY <1>1, <2>3
    <3>2. StructAt(u)'
      BY <2>1, <3>1 DEF StructAt, Missing, IsMongo, targetVars
    <3>3. HandAt(u)'
      BY <2>1, <3>1 DEF HandAt, IsMongo, sourceVars
    <3>4. ProgressAt(u) => ProgressAt(u)'
      BY <3>1 DEF ProgressAt, Accounted, Complete, PagesReachAll, IsMongo, TooLarge, Present,
                  sourceVars, targetVars
    <3>5. QED
      BY <3>2, <3>3, <3>4
  <2>4. QED
    BY <2>2, <2>3
<1>7. RowsInv'
  <2>1. ASSUME NEW o \in Objects, NEW i \in Copied(o)
        PROVE  /\ target[o][i] \in Tasks /\ target[o][i] # t
               /\ o \in plan[target[o][i]].exists \cup created[target[o][i]]
               /\ pc[target[o][i]] \in Working \cup {"over"}
    BY <1>2 DEF FullInv, Inv, RowsInv, ConfirmedOnly, Copied
  <2>2. QED
    BY <1>1, <2>1 DEF RowsInv, ConfirmedOnly, Copied, targetVars
<1>8. SourceInv'
  BY DEF FullInv, Inv, SourceInv, sourceVars
<1>9. ResultInv'
  <2>1. \A o \in Objects : Complete(o)' = Complete(o)
    BY SameReach DEF Complete, Present, sourceVars, targetVars
  <2>2. gate.phase = "cancelled" => gate.task \in Tasks
    BY DEF FullInv, Inv, TypeOK, Gate
  <2>3. SafeCancel'
    BY <1>1, <1>4, <2>1, <2>2 DEF FullInv, ResultInv, SafeCancel, Missing, IsMongo
  <2>4. QED
    BY <2>1, <2>3 DEF FullInv, ResultInv, CompletedIsComplete
<1>10. QED
  BY <1>3, <1>5, <1>6, <1>7, <1>8, <1>9 DEF FullInv, Inv, StructInv, HandInv

LEMMA PreflightKeeps ==
  ASSUME FullInv, NEW t \in Tasks, ListTarget(t) \/ TakeSnapshot(t) \/ Withdraw(t)
  PROVE  FullInv'
<1>1. tables \subseteq Objects /\ plan[t] \in Plan /\ plan[t].exists \subseteq tables
  BY DEF FullInv, Inv, TypeOK, StructInv, StructAt
<1>2. CASE ListTarget(t)
  <2>1. [exists |-> tables, snapshot |-> IF IsMongo THEN tables ELSE {}] \in Plan
    BY <1>1 DEF Plan
  <2>2. QED
    BY <1>2, <2>1, PlanKeeps DEF ListTarget, Goto
<1>3. CASE TakeSnapshot(t)
  <2>1. PICK p : p = [plan[t] EXCEPT !.snapshot = tables]
    OBVIOUS
  <2>2. p \in Plan /\ p.exists \subseteq tables
    BY <1>1, <2>1 DEF Plan
  <2>3. plan' = [plan EXCEPT ![t] = p]
    BY <1>3, <2>1 DEF TakeSnapshot, FullInv, Inv, TypeOK
  <2>4. QED
    BY <1>3, <2>2, <2>3, PlanKeeps DEF TakeSnapshot, Goto
<1>4. CASE Withdraw(t)
  <2>1. NoPlan \in Plan /\ NoPlan.exists \subseteq tables
    BY DEF NoPlan, Plan
  <2>2. QED
    BY <1>4, <2>1, PlanKeeps DEF Withdraw, Goto
<1>5. QED
  BY <1>2, <1>3, <1>4

LEMMA StartKeeps ==
  ASSUME FullInv, NEW t \in Tasks, Start(t)
  PROVE  FullInv'
<1>1. pc[t] = "prepared"
  BY DEF Start
<1>2. CASE gate.task # None /\ Goto(t, "over") /\ plan' = [plan EXCEPT ![t] = NoPlan]
           /\ UNCHANGED <<sourceVars, finalized>>
  <2>1. NoPlan \in Plan /\ NoPlan.exists \subseteq tables
    BY DEF NoPlan, Plan
  <2>2. QED
    BY <1>1, <1>2, <2>1, PlanKeeps DEF Start, Goto
<1>3. CASE /\ gate.task = None
           /\ gate' = [task |-> t, phase |-> "running"]
           /\ pc' = [pc EXCEPT ![t] = "verify"]
           /\ finalized' = {}
           /\ steady' = source /\ offered' = source
           /\ UNCHANGED <<source, plan>>
  <2>1. UNCHANGED <<engine, tables, target, asked, created, work, changes, source, plan>>
    BY <1>3 DEF Start, targetVars
  <2>2. \A u \in Tasks : pc[u] \notin Working
    BY <1>3, Constants DEF FullInv, Inv, GateInv, OneExecutor
  <2>3. /\ pc' \in [Tasks -> Steps] /\ pc'[t] = "verify"
        /\ \A u \in Tasks : u # t => pc'[u] = pc[u]
    BY <1>3 DEF FullInv, Inv, TypeOK, Steps, Working
  <2>4. gate' \in Gate /\ gate'.task = t /\ gate'.phase \in Busy
    BY <1>3 DEF Gate, Busy
  <2>5. TypeOK'
    BY <1>3, <2>1, <2>3, <2>4 DEF FullInv, Inv, TypeOK, Present, Steps
  <2>6. GateInv'
    BY <2>2, <2>3, <2>4 DEF GateInv, OneExecutor, Working
  <2>7. ASSUME NEW u \in Tasks
        PROVE  StructAt(u)' /\ HandAt(u)' /\ ProgressAt(u)'
    <3>1. StructAt(u) /\ HandAt(u) /\ work[u] = Fresh
      BY <2>2 DEF FullInv, Inv, StructInv, HandInv, HandAt, Copying, Working
    <3>2. pc'[u] \notin Copying \cup {"head", "create"}
      BY <2>2, <2>3 DEF Copying, Working
    <3>3. pc'[u] \in {"new", "listed", "prepared", "verify"} => created[u] = {}
      BY <1>1, <2>3, <3>1 DEF StructAt
    <3>4. StructAt(u)'
      BY <2>1, <3>1, <3>2, <3>3 DEF StructAt, Copying, Missing
    <3>5. HandAt(u)'
      BY <2>1, <3>1, <3>2, FreshIsWork DEF HandAt, Copying
    <3>6. ProgressAt(u)'
      BY <3>2 DEF ProgressAt, Copying
    <3>7. QED
      BY <3>4, <3>5, <3>6
  <2>8. RowsInv'
    <3>1. \A u \in Tasks : pc[u] \in Working \cup {"over"} => pc'[u] \in Working \cup {"over"}
      BY <1>1, <2>3 DEF Working
    <3>2. QED
      BY <2>1, <3>1 DEF FullInv, Inv, RowsInv, ConfirmedOnly, Copied
  <2>9. SourceInv'
    BY <1>3 DEF SourceInv
  <2>10. ResultInv'
    BY <2>4 DEF ResultInv, CompletedIsComplete, SafeCancel, Busy
  <2>11. QED
    BY <2>5, <2>6, <2>7, <2>8, <2>9, <2>10 DEF FullInv, Inv, StructInv, HandInv
<1>4. QED
  BY <1>2, <1>3 DEF Start

\* Other clients take rows out of the source or put rows where none are.
LEMMA ClientsKeep ==
  ASSUME FullInv, UNCHANGED <<engine, gate, asked, pc, plan, created, work, finalized>>,
         changes' \in 0 .. MaxChanges,
         tables \subseteq tables', tables' \subseteq Objects,
         source' \in Rows, steady' \in Rows, offered' \in Rows, SourceInv',
         \A o \in Objects : steady'[o] \subseteq steady[o] /\ offered[o] \subseteq offered'[o],
         target' \in [Objects -> [Ids -> Tasks \cup {None, Other}]],
         \A o \in Objects, i \in Ids :
           \/ target'[o][i] = target[o][i]
           \/ target[o][i] = None /\ target'[o][i] = Other /\ o \in tables
  PROVE  FullInv'
<1>1. \A o \in Objects : Present(o) \subseteq Present(o)' /\ Copied(o)' = Copied(o)
  BY Constants DEF Present, Copied
<1>2. \A o \in Objects : Present(o)' # {} => o \in tables'
  BY DEF Present, FullInv, Inv, TypeOK
<1>3. TypeOK'
  BY <1>2 DEF FullInv, Inv, TypeOK
<1>4. GateInv'
  BY DEF FullInv, Inv, GateInv, OneExecutor
<1>5. \A o \in Objects : Complete(o) => Complete(o)'
  BY <1>1, SameReach DEF Complete
<1>6. ASSUME NEW t \in Tasks
      PROVE  StructAt(t)' /\ HandAt(t)' /\ (ProgressAt(t) => ProgressAt(t)')
  <2>1. StructAt(t) /\ HandAt(t) /\ work[t].object \in Objects
    BY DEF FullInv, Inv, StructInv, HandInv, TypeOK, Work
  <2>2. StructAt(t)'
    BY <2>1 DEF StructAt, Missing, IsMongo
  <2>3. offered[work[t].object] \subseteq offered'[work[t].object]
    BY <2>1
  <2>4. HandAt(t)'
    BY <2>1, <2>3 DEF HandAt, IsMongo
  <2>5. Accounted(t) => Accounted(t)'
    <3>1. PICK o \in Objects : o = work[t].object
      BY <2>1
    <3>2. steady'[o] \subseteq steady[o] /\ Present(o) \subseteq Present(o)'
      BY <1>1, <3>1
    <3>3. work' = work
      OBVIOUS
    <3>4. PagesReachAll(o)' = PagesReachAll(o)
      BY SameReach
    <3>5. QED
      BY <3>1, <3>2, <3>3, <3>4 DEF Accounted
  <2>6. PICK o \in Objects : o = work[t].object
    BY <2>1
  <2>7. ProgressAt(t) => ProgressAt(t)'
    BY <1>5, <2>5, <2>6 DEF ProgressAt
  <2>8. QED
    BY <2>2, <2>4, <2>7
<1>7. RowsInv'
  <2>1. ASSUME NEW o \in Objects, NEW i \in Copied(o)
        PROVE  target'[o][i] = target[o][i]
    BY <2>1, Constants DEF Copied
  <2>2. QED
    BY <1>1, <2>1 DEF FullInv, Inv, RowsInv, ConfirmedOnly
<1>8. ResultInv'
  BY <1>5 DEF FullInv, ResultInv, CompletedIsComplete, SafeCancel, Missing, IsMongo
<1>9. QED
  BY <1>3, <1>4, <1>6, <1>7, <1>8 DEF FullInv, Inv, StructInv, HandInv

LEMMA OtherClientsKeep ==
  ASSUME FullInv, NEW o \in Objects, NEW i \in Ids,
         SourceInserts(o, i) \/ SourceDeletes(o, i) \/ TargetInserts(o, i) \/ TargetCreates(o)
  PROVE  FullInv'
<1>1. /\ UNCHANGED <<engine, gate, asked, pc, plan, created, work, finalized>>
      /\ changes' \in 0 .. MaxChanges
  BY BoundAssumption
     DEF SourceInserts, SourceDeletes, TargetInserts, TargetCreates, Elsewhere, FullInv, Inv, TypeOK
<1>2. /\ source \in Rows /\ steady \in Rows /\ offered \in Rows /\ tables \subseteq Objects
      /\ target \in [Objects -> [Ids -> Tasks \cup {None, Other}]] /\ SourceInv
  BY DEF FullInv, Inv, TypeOK
<1>3. CASE SourceInserts(o, i)
  <2>1. UNCHANGED <<steady, tables, target>>
    BY <1>3 DEF SourceInserts, targetVars
  <2>2. source' \in Rows /\ offered' \in Rows
    BY <1>2, <1>3 DEF SourceInserts, Rows
  <2>3. \A p \in Objects : offered[p] \subseteq offered'[p]
    BY <1>2, <1>3 DEF SourceInserts, Rows
  <2>4. SourceInv'
    BY <1>2, <1>3, <2>1 DEF SourceInserts, SourceInv, Rows
  <2>5. QED
    BY <1>1, <1>2, <2>1, <2>2, <2>3, <2>4, ClientsKeep
<1>4. CASE SourceDeletes(o, i)
  <2>1. UNCHANGED <<offered, tables, target>>
    BY <1>4 DEF SourceDeletes, targetVars
  <2>2. source' \in Rows /\ steady' \in Rows
    BY <1>2, <1>4 DEF SourceDeletes, Rows
  <2>3. \A p \in Objects : steady'[p] \subseteq steady[p]
    BY <1>2, <1>4 DEF SourceDeletes, Rows
  <2>4. SourceInv'
    BY <1>2, <1>4, <2>1 DEF SourceDeletes, SourceInv, Rows
  <2>5. QED
    BY <1>1, <1>2, <2>1, <2>2, <2>3, <2>4, ClientsKeep
<1>5. CASE TargetInserts(o, i)
  <2>1. UNCHANGED <<source, steady, offered, tables>> /\ SourceInv'
    BY <1>2, <1>5 DEF TargetInserts, sourceVars, SourceInv
  <2>2. target' \in [Objects -> [Ids -> Tasks \cup {None, Other}]]
    BY <1>2, <1>5 DEF TargetInserts
  <2>3. \A p \in Objects, j \in Ids :
          \/ target'[p][j] = target[p][j]
          \/ target[p][j] = None /\ target'[p][j] = Other /\ p \in tables
    BY <1>2, <1>5 DEF TargetInserts
  <2>4. QED
    BY <1>1, <1>2, <2>1, <2>2, <2>3, ClientsKeep
<1>6. CASE TargetCreates(o)
  <2>1. UNCHANGED <<source, steady, offered, target>> /\ SourceInv'
    BY <1>2, <1>6 DEF TargetCreates, sourceVars, SourceInv
  <2>2. tables \subseteq tables' /\ tables' \subseteq Objects
    BY <1>2, <1>6 DEF TargetCreates
  <2>3. QED
    BY <1>1, <1>2, <2>1, <2>2, ClientsKeep
<1>7. QED
  BY <1>3, <1>4, <1>5, <1>6

(***************************************************************************)
(* The theorems                                                            *)
(***************************************************************************)

LEMMA InitHolds ==
  ASSUME Init
  PROVE  FullInv
<1>1. /\ Free \in Gate /\ Free.task = None /\ Free.phase = "free" /\ NoPlan \in Plan
      /\ NoPlan.exists = {}
  BY DEF Free, Gate, NoPlan, Plan
<1>2. source \in Rows /\ steady = source /\ offered = source
  BY Constants DEF Init, Rows, Objects, Ids
<1>3. target \in [Objects -> [Ids -> {None, Other}]]
  BY DEF Init
<1>4. TypeOK
  BY <1>1, <1>2, <1>3, FreshIsWork, BoundAssumption DEF Init, TypeOK, Present
<1>5. GateInv
  BY <1>1, Constants DEF Init, GateInv, OneExecutor, Working, Busy
<1>6. \A t \in Tasks : StructAt(t) /\ HandAt(t) /\ ProgressAt(t)
  BY <1>1, FreshIsWork DEF Init, StructAt, HandAt, ProgressAt, Copying
<1>7. RowsInv
  BY <1>3, Constants DEF RowsInv, ConfirmedOnly, Copied
<1>8. SourceInv
  BY <1>2 DEF SourceInv
<1>9. ResultInv
  BY <1>1 DEF Init, ResultInv, CompletedIsComplete, SafeCancel
<1>10. QED
  BY <1>4, <1>5, <1>6, <1>7, <1>8, <1>9 DEF FullInv, Inv, StructInv, HandInv

LEMMA StutterKeeps ==
  ASSUME FullInv, UNCHANGED vars
  PROVE  FullInv'
<1>1. /\ UNCHANGED <<engine, sourceVars, targetVars, pc, plan, created, work, finalized, changes>>
      /\ UNCHANGED <<gate, asked>>
  BY DEF vars
<1>2. CASE gate.phase \in Busy \cup {"free"}
  BY <1>1, <1>2, GateStepKeeps DEF FullInv, Inv, TypeOK, GateInv, OneExecutor
<1>3. CASE gate.phase \notin Busy \cup {"free"}
  <2>1. UNCHANGED <<engine, source, steady, offered, tables, target, gate, asked, pc, plan, created,
                    work, finalized, changes>>
    BY DEF vars, sourceVars, targetVars
  <2>2. QED
    BY <2>1, ClientsKeep DEF FullInv, Inv, TypeOK, SourceInv
<1>4. QED
  BY <1>2, <1>3

LEMMA NextKeeps ==
  ASSUME FullInv, [Next]_vars
  PROVE  FullInv'
<1>1. ASSUME NEW t \in Tasks, RequestCancel(t) \/ Acknowledge(t) \/ ListTarget(t) \/ TakeSnapshot(t)
                              \/ Withdraw(t) \/ Start(t) \/ Execute(t)
      PROVE  FullInv'
  BY <1>1, RequestCancelKeeps, AcknowledgeKeeps, PreflightKeeps, StartKeeps, ExecuteKeeps
<1>2. ASSUME NEW o \in Objects, TargetCreates(o)
      PROVE  FullInv'
  <2>1. ASSUME Ids = {}
        PROVE  FullInv'
    <3>1. UNCHANGED <<source, steady, offered, target>> /\ SourceInv'
      BY <1>2 DEF TargetCreates, sourceVars, FullInv, Inv, SourceInv
    <3>2. tables \subseteq tables' /\ tables' \subseteq Objects
      BY <1>2 DEF TargetCreates, FullInv, Inv, TypeOK
    <3>3. QED
      BY <1>2, <3>1, <3>2, BoundAssumption, ClientsKeep
         DEF TargetCreates, Elsewhere, FullInv, Inv, TypeOK
  <2>2. QED
    BY <1>2, <2>1, OtherClientsKeep
<1>3. ASSUME NEW o \in Objects, NEW i \in Ids,
             SourceInserts(o, i) \/ SourceDeletes(o, i) \/ TargetInserts(o, i)
      PROVE  FullInv'
  BY <1>3, OtherClientsKeep
<1>4. QED
  BY <1>1, <1>2, <1>3, StutterKeeps DEF Next

\* The inductive invariant: the gate and the one execution, the plan and what was
\* created of it, where each page stands, and what a result says, fit together.
THEOREM Invariance == Spec => []FullInv
<1>1. Init => FullInv
  BY InitHolds
<1>2. FullInv /\ [Next]_vars => FullInv'
  BY NextKeeps
<1>3. QED
  BY <1>1, <1>2, PTL DEF Spec

\* Every variable keeps its type, and only objects that exist have rows.
THEOREM TypeCorrect == Spec => []TypeOK
<1>1. FullInv => TypeOK
  BY DEF FullInv, Inv
<1>2. QED
  BY <1>1, Invariance, PTL

\* The gate is held exactly while one task executes.
THEOREM GateExclusive == Spec => []OneExecutor
<1>1. FullInv => OneExecutor
  BY DEF FullInv, Inv, GateInv
<1>2. QED
  BY <1>1, Invariance, PTL

\* No task writes into an object that came into being without it after the
\* user had seen the plan.
THEOREM WritesConfirmed == Spec => []ConfirmedOnly
<1>1. FullInv => ConfirmedOnly
  BY DEF FullInv, Inv, RowsInv
<1>2. QED
  BY <1>1, Invariance, PTL

\* A SQL task that has created anything ends as cancelled only when all is
\* created and finished, and each object filled that is read without a gap.
THEOREM CancelIsSafe == Spec => []SafeCancel
<1>1. FullInv => SafeCancel
  BY DEF FullInv, ResultInv
<1>2. QED
  BY <1>1, Invariance, PTL

\* A completed task has copied all that stayed in the source, of every object
\* that is read without a gap: on SQL one whose keys are sorted as they are
\* compared and arrive unchanged, on MongoDB one with no document larger than
\* a page and identities of one type.
THEOREM CompletedHasAll == Spec => []CompletedIsComplete
<1>1. FullInv => CompletedIsComplete
  BY DEF FullInv, ResultInv
<1>2. QED
  BY <1>1, Invariance, PTL

(***************************************************************************)
(* The promise                                                             *)
(***************************************************************************)

\* A step of an execution goes on or ends, and only an insertion writes.
LEMMA ExecuteShape ==
  ASSUME FullInv, NEW t \in Tasks, Execute(t)
  PROVE  /\ pc[t] \in Working /\ Still
         /\ UNCHANGED target \/ Insert(t)
         /\ UNCHANGED gate \/ \E ph \in Terminal : End(t, ph) /\ (Insert(t) => ph = "failed")
<1>2. CASE HonourCancel(t) \/ Verify(t) \/ Fails(t)
  BY <1>2 DEF HonourCancel, StopsNow, Looks, Verify, Fails, Working, Terminal, Stay, Goto, Insert,
              targetVars
<1>3. CASE Create(t)
  <2>1. pc[t] = "create" /\ UNCHANGED <<target, finalized>> /\ Still
    BY <1>3 DEF Create
  <2>2. UNCHANGED gate \/ End(t, "failed")
    BY <1>3 DEF Create, Make, Stay, Goto
  <2>3. QED
    BY <2>1, <2>2 DEF Insert, Working, Terminal
<1>4. CASE Head(t)
  BY <1>4 DEF Head, Make, Stay, Goto, Insert, Working, Terminal
<1>5. CASE TakePage(t) \/ RowTooLarge(t) \/ ObjectEnds(t)
  BY <1>5 DEF TakePage, RowTooLarge, ObjectEnds, Goto, Insert, Working, Terminal, targetVars
<1>6. CASE Compare(t)
  BY <1>6 DEF Compare, Goto, Insert, Working, Terminal, targetVars
<1>7. CASE FetchSql(t) \/ FetchMongo(t)
  BY <1>7 DEF FetchSql, FetchMongo, Fetched, Goto, Insert, Working, Terminal, targetVars
<1>8. CASE Insert(t)
  <2>1. PICK B : Inserted(t, B)
    BY <1>8 DEF Insert
  <2>2. UNCHANGED gate \/ End(t, "failed")
    BY <2>1 DEF Inserted, Goto
  <2>3. QED
    BY <1>8, <2>2 DEF Insert, Working, Terminal
<1>9. CASE Check(t)
  BY <1>9 DEF Check, Goto, Insert, Working, Terminal, targetVars
<1>10. CASE Index(t) \/ Final(t)
  BY <1>10 DEF Index, Final, Goto, Insert, Working, Terminal, targetVars
<1>11. QED
  BY <1>2, <1>3, <1>4, <1>5, <1>6, <1>7, <1>8, <1>9, <1>10 DEF Execute

Phase == IF gate.phase \in Busy THEN "busy" ELSE gate.phase
CopiedRows == [o \in Objects |-> Copied(o)]
TheirRows == [o \in Objects |-> Theirs(o)]
Must == [o \in Objects |-> IF PagesReachAll(o) THEN steady[o] ELSE {}]
May == [o \in Objects |-> Keys(o, offered[o])]

\* A row that an insertion writes is offered and was nobody's.
LEMMA InsertAdds ==
  ASSUME FullInv, NEW t \in Tasks, Insert(t)
  PROVE  \A o \in Objects, i \in Ids :
           \/ target'[o][i] = target[o][i]
           \/ target[o][i] = None /\ target'[o][i] = t /\ i \in Keys(o, offered[o])
<1>1. pc[t] = "insert" /\ UNCHANGED <<tables, created, finalized>> /\ Still
  BY DEF Insert
<1>2. PICK B : B \subseteq work[t].rows /\ Insertion(t, B)
  <2>1. PICK B : B \subseteq work[t].rows /\ Inserted(t, B)
    BY UpToIsPart DEF Insert
  <2>2. Insertion(t, B) \/ Insertion(t, B \ Clashing(work[t].object, B))
    BY <2>1 DEF Inserted
  <2>3. QED
    BY <2>1, <2>2
<1>3. PICK q \in Objects : q = work[t].object
  BY Facts
<1>4. Grow(t)
  BY <1>1, <1>2, <1>3, InsertionGrows
<1>5. Keys(q, work[t].rows) \subseteq Keys(q, offered[q])
  <2>1. work[t].rows \subseteq offered[q]
    BY <1>3, Facts DEF HandAt
  <2>2. QED
    BY <2>1 DEF Keys
<1>6. QED
  BY <1>3, <1>4, <1>5 DEF Grow

\* The same of the sets of rows.
LEMMA InsertCopies ==
  ASSUME FullInv, NEW t \in Tasks, Insert(t)
  PROVE  /\ \A o \in Objects : Copied(o) \subseteq Copied(o)' /\ Theirs(o)' = Theirs(o)
         /\ \A o \in Objects : Copied(o)' \ Copied(o) \subseteq Keys(o, offered[o]) \ Theirs(o)
<1>1. \A o \in Objects, i \in Ids :
        \/ target'[o][i] = target[o][i]
        \/ target[o][i] = None /\ target'[o][i] = t /\ i \in Keys(o, offered[o])
  BY InsertAdds
<1>2. t # None /\ t # Other
  BY Constants
<1>3. \A o \in Objects, i \in Ids :
        /\ target[o][i] \in Tasks => target'[o][i] \in Tasks
        /\ target'[o][i] = Other <=> target[o][i] = Other
        /\ target'[o][i] \in Tasks /\ target[o][i] \notin Tasks =>
             i \in Keys(o, offered[o]) /\ target[o][i] # Other
  BY <1>1, <1>2, Constants
<1>4. \A o \in Objects : Copied(o) \subseteq Copied(o)' /\ Theirs(o)' = Theirs(o)
  BY <1>3 DEF Copied, Theirs
<1>5. \A o \in Objects : Copied(o)' \ Copied(o) \subseteq Keys(o, offered[o]) \ Theirs(o)
  BY <1>3 DEF Copied, Theirs
<1>6. QED
  BY <1>4, <1>5

LEMMA RowSets ==
  ASSUME FullInv
  PROVE  Must \in Rows /\ May \in Rows /\ CopiedRows \in Rows /\ TheirRows \in Rows
<1>1. \A o \in Objects : offered[o] \in SUBSET Ids
  BY DEF FullInv, Inv, TypeOK, Rows
<1>2. \A o \in Objects : Keys(o, offered[o]) \subseteq Ids
  BY <1>1, KeysAreIds DEF FullInv, Inv
<1>3. May \in Rows
  BY <1>2 DEF May, Rows
<1>4. QED
  BY <1>3 DEF FullInv, Inv, TypeOK, Rows, Must, CopiedRows, TheirRows, Copied, Theirs

\* What is to be copied, and what may be, changes with the source alone.
LEMMA SameRows ==
  ASSUME UNCHANGED <<engine, steady, offered>>
  PROVE  Must' = Must /\ May' = May
<1>1. \A o \in Objects : PagesReachAll(o)' = PagesReachAll(o) /\ Keys(o, offered[o])' = Keys(o, offered[o])
  BY SameReach DEF Keys, Carried
<1>2. QED
  BY <1>1 DEF Must, May

LEMMA ExecuteMaps ==
  ASSUME FullInv, FullInv', NEW t \in Tasks, Execute(t)
  PROVE  Promise!Next
<1>1. /\ pc[t] \in Working /\ Still
      /\ UNCHANGED target \/ Insert(t)
      /\ UNCHANGED gate \/ \E ph \in Terminal : End(t, ph) /\ (Insert(t) => ph = "failed")
  BY ExecuteShape
<1>2. steady' = steady /\ engine' = engine /\ Must' = Must /\ May' = May
  BY <1>1, SameRows DEF Still, sourceVars
<1>3. Phase = "busy"
  BY <1>1, Exclusive DEF FullInv, Inv, Phase
<1>4. /\ CopiedRows' \in Rows /\ TheirRows' = TheirRows
      /\ \A o \in Objects : CopiedRows[o] \subseteq CopiedRows'[o]
      /\ \A o \in Objects : CopiedRows'[o] \ CopiedRows[o] \subseteq May[o] \ TheirRows[o]
      /\ UNCHANGED target => CopiedRows' = CopiedRows
  <2>1. /\ \A o \in Objects : Copied(o) \subseteq Copied(o)' /\ Theirs(o)' = Theirs(o)
        /\ \A o \in Objects : Copied(o)' \ Copied(o) \subseteq Keys(o, offered[o]) \ Theirs(o)
        /\ UNCHANGED target => \A o \in Objects : Copied(o)' = Copied(o)
    <3>1. CASE UNCHANGED target
      BY <3>1 DEF Copied, Theirs
    <3>2. CASE Insert(t) /\ ~ UNCHANGED target
      BY <3>2, InsertCopies
    <3>3. QED
      BY <1>1, <3>1, <3>2
  <2>2. CopiedRows' \in Rows
    BY RowSets DEF Rows, CopiedRows, Copied
  <2>3. QED
    BY <2>1, <2>2 DEF CopiedRows, TheirRows, May
<1>5. Objects' = Objects /\ Rows = Promise!Rows
  BY DEF Rows, Promise!Rows
<1>6. CASE Phase' \in {"busy", "failed"}
  <2>1. Promise!Copy
    BY <1>2, <1>3, <1>4, <1>5, <1>6 DEF Promise!Copy, Phase, CopiedRows, TheirRows, Must, May
  <2>2. QED
    BY <2>1 DEF Promise!Next
<1>7. ASSUME NEW ph \in {"cancelled", "completed"}, End(t, ph), ~ Insert(t)
      PROVE  Promise!Next
  <2>1. CopiedRows' = CopiedRows /\ UNCHANGED target
    BY <1>1, <1>4, <1>7
  <2>2. gate'.phase = ph
    BY <1>1, <1>7, EndEffect DEF FullInv, Inv, Terminal
  <2>3. Phase' = ph
    BY <2>2 DEF Phase, Busy
  <2>4. CASE ph = "cancelled"
    <3>1. Promise!Cancel
      BY <1>2, <1>3, <1>4, <2>1, <2>3, <2>4 DEF Promise!Cancel, Phase, CopiedRows, TheirRows, Must, May
    <3>2. QED
      BY <3>1 DEF Promise!Next
  <2>5. CASE ph = "completed"
    <3>1. \A o \in Objects : Complete(o)
      <4>1. \A o \in Objects : Complete(o)'
        BY <2>2, <2>5 DEF FullInv, ResultInv, CompletedIsComplete
      <4>2. \A o \in Objects : PagesReachAll(o)' = PagesReachAll(o)
        BY <1>2, SameReach
      <4>3. QED
        BY <1>2, <2>1, <4>1, <4>2 DEF Complete, Present
    <3>2. \A o \in Objects, i \in Ids : target[o][i] # None => i \in Copied(o) \cup Theirs(o)
      BY Constants DEF FullInv, Inv, TypeOK, Copied, Theirs
    <3>3. \A o \in Objects : Must[o] \subseteq CopiedRows[o] \cup TheirRows[o]
      BY <3>1, <3>2 DEF CopiedRows, TheirRows, Must, Complete, Present
    <3>4. Promise!Complete
      BY <1>2, <1>3, <1>4, <2>1, <2>3, <2>5, <3>3
         DEF Promise!Complete, Phase, CopiedRows, TheirRows, Must, May
    <3>5. QED
      BY <3>4 DEF Promise!Next
  <2>6. QED
    BY <2>4, <2>5
<1>8. Phase' \in {"busy", "failed"}
      \/ \E ph \in {"cancelled", "completed"} : End(t, ph) /\ ~ Insert(t)
  <2>1. CASE UNCHANGED gate
    BY <1>3, <2>1 DEF Phase
  <2>2. CASE End(t, "failed")
    <3>1. gate'.phase = "failed"
      BY <1>1, <2>2, EndEffect DEF FullInv, Inv, Terminal
    <3>2. QED
      BY <3>1 DEF Phase, Busy
  <2>3. QED
    BY <1>1, <2>1, <2>2 DEF Terminal
<1>9. QED
  BY <1>6, <1>7, <1>8

\* The other steps.
LEMMA OthersMap ==
  ASSUME FullInv, FullInv', Next, \A t \in Tasks : ~ Execute(t)
  PROVE  Promise!Next \/ UNCHANGED Promise!vars
<1>1. Rows = Promise!Rows
  BY DEF Rows, Promise!Rows
<1>2. ASSUME UNCHANGED target
      PROVE  CopiedRows' = CopiedRows /\ TheirRows' = TheirRows
  BY <1>2 DEF CopiedRows, TheirRows, Copied, Theirs
<1>3. ASSUME NEW t \in Tasks, RequestCancel(t)
      PROVE  UNCHANGED Promise!vars
  <2>1. UNCHANGED <<engine, target, steady, offered>> /\ gate.phase \in Busy
    BY <1>3 DEF RequestCancel, targetVars, sourceVars, Busy
  <2>2. gate'.phase = "cancelling"
    BY <1>3 DEF RequestCancel
  <2>3. QED
    BY <1>2, <2>1, <2>2, SameRows DEF Promise!vars, Busy, CopiedRows, TheirRows, Must, May
<1>4. ASSUME NEW t \in Tasks, Acknowledge(t)
      PROVE  Promise!Next
  <2>1. UNCHANGED <<engine, target, steady, offered>>
    BY <1>4 DEF Acknowledge, targetVars, sourceVars
  <2>2. gate'.phase = "free" /\ gate.phase \in Terminal
    BY <1>4 DEF Acknowledge, Free
  <2>3. Promise!Acknowledge
    BY <1>2, <2>1, <2>2, SameRows
       DEF Promise!Acknowledge, Busy, Terminal, CopiedRows, TheirRows, Must, May
  <2>4. QED
    BY <2>3 DEF Promise!Next
<1>5. ASSUME NEW t \in Tasks, ListTarget(t) \/ TakeSnapshot(t) \/ Withdraw(t)
      PROVE  UNCHANGED Promise!vars
  <2>1. UNCHANGED <<engine, target, steady, offered, gate>>
    BY <1>5 DEF ListTarget, TakeSnapshot, Withdraw, Goto, targetVars, sourceVars
  <2>2. QED
    BY <1>2, <2>1, SameRows DEF Promise!vars, CopiedRows, TheirRows, Must, May
<1>6. ASSUME NEW t \in Tasks, Start(t)
      PROVE  Promise!Next \/ UNCHANGED Promise!vars
  <2>1. UNCHANGED <<engine, target>>
    BY <1>6 DEF Start, targetVars
  <2>2. CASE UNCHANGED <<gate, steady, offered>>
    BY <1>2, <2>1, <2>2, SameRows DEF Promise!vars, CopiedRows, TheirRows, Must, May
  <2>3. CASE gate.task = None /\ gate' = [task |-> t, phase |-> "running"]
             /\ steady' = source /\ offered' = source
    <3>1. gate.phase = "free"
      BY <2>3, Constants DEF FullInv, Inv, TypeOK, Gate
    <3>2. \A o \in Objects : Keys(o, source[o]) \subseteq Ids /\ source[o] \subseteq Ids
      BY KeysAreIds DEF FullInv, Inv, TypeOK, Rows
    <3>3. \A o \in Objects : PagesReachAll(o) => Keys(o, source[o]) = source[o]
      BY ExactKeys DEF FullInv, Inv
    <3>4. /\ Must' = [o \in Objects |-> IF PagesReachAll(o) THEN source[o] ELSE {}]
          /\ May' = [o \in Objects |-> Keys(o, source[o])]
      <4>1. \A o \in Objects : /\ PagesReachAll(o)' = PagesReachAll(o)
                              /\ Keys(o, offered[o])' = Keys(o, source[o])
        BY <2>1, <2>3, SameReach DEF Keys, Carried
      <4>2. QED
        BY <2>3, <4>1 DEF Must, May
    <3>5. Must' \in Rows /\ May' \in Rows /\ \A o \in Objects : Must'[o] \subseteq May'[o]
      BY <3>2, <3>3, <3>4 DEF Rows
    <3>6. Promise!Begin
      BY <1>1, <1>2, <2>1, <2>3, <3>1, <3>5
         DEF Promise!Begin, Busy, CopiedRows, TheirRows, Must, May
    <3>7. QED
      BY <3>6 DEF Promise!Next
  <2>4. QED
    BY <1>6, <2>2, <2>3 DEF Start, Goto, sourceVars
<1>7. ASSUME NEW o \in Objects, TargetCreates(o)
      PROVE  UNCHANGED Promise!vars
  <2>1. UNCHANGED <<engine, target, steady, offered, gate>>
    BY <1>7 DEF TargetCreates, Elsewhere, sourceVars
  <2>2. QED
    BY <1>2, <2>1, SameRows DEF Promise!vars, CopiedRows, TheirRows, Must, May
<1>8. ASSUME NEW o \in Objects, NEW i \in Ids, SourceInserts(o, i) \/ SourceDeletes(o, i)
      PROVE  Promise!Next
  <2>1. UNCHANGED <<engine, target, gate>>
    BY <1>8 DEF SourceInserts, SourceDeletes, Elsewhere, targetVars
  <2>2. steady \in Rows /\ offered \in Rows /\ steady' \in Rows /\ offered' \in Rows
    BY DEF FullInv, Inv, TypeOK
  <2>3. \A p \in Objects : steady'[p] \subseteq steady[p] /\ offered[p] \subseteq offered'[p]
    BY <1>8, <2>2 DEF SourceInserts, SourceDeletes, Rows
  <2>4. \A p \in Objects : /\ PagesReachAll(p)' = PagesReachAll(p)
                          /\ Keys(p, offered[p])' = Keys(p, offered'[p])
                          /\ Keys(p, offered[p]) \subseteq Keys(p, offered'[p])
                          /\ Keys(p, offered'[p]) \subseteq Ids
    <3>1. \A p \in Objects : offered'[p] \in SUBSET Ids
      BY <2>2 DEF Rows
    <3>2. \A p \in Objects : Keys(p, offered'[p]) \subseteq Ids
      BY <3>1, KeysAreIds DEF FullInv, Inv
    <3>3. QED
      BY <2>1, <2>3, <3>2, SameReach DEF Keys, Carried
  <2>5. Must' \in Rows /\ \A p \in Objects : Must'[p] \subseteq Must[p]
    BY <2>2, <2>3, <2>4 DEF Must, Rows
  <2>6. May' \in Rows /\ \A p \in Objects : May[p] \subseteq May'[p]
    BY <2>4 DEF May, Rows
  <2>7. Promise!SourceChanges
    BY <1>1, <1>2, <2>1, <2>5, <2>6 DEF Promise!SourceChanges, CopiedRows, TheirRows, Must, May
  <2>8. QED
    BY <2>7 DEF Promise!Next
<1>9. ASSUME NEW o \in Objects, NEW i \in Ids, TargetInserts(o, i)
      PROVE  Promise!Next
  <2>1. UNCHANGED <<engine, steady, offered, gate>>
    BY <1>9 DEF TargetInserts, Elsewhere, sourceVars
  <2>2. \A p \in Objects, j \in Ids :
          \/ target'[p][j] = target[p][j]
          \/ target[p][j] = None /\ target'[p][j] = Other
    BY <1>9 DEF TargetInserts, FullInv, Inv, TypeOK
  <2>3. \A p \in Objects : /\ Copied(p)' = Copied(p) /\ Theirs(p) \subseteq Theirs(p)'
                           /\ Theirs(p)' \cap Copied(p) = {}
    BY <2>2, Constants DEF Copied, Theirs
  <2>4. CopiedRows' = CopiedRows /\ TheirRows' \in Rows
    BY <2>3, Constants DEF CopiedRows, TheirRows, Theirs, Rows
  <2>5. \A p \in Objects : TheirRows[p] \subseteq TheirRows'[p] /\ TheirRows'[p] \cap CopiedRows[p] = {}
    BY <2>3 DEF CopiedRows, TheirRows
  <2>6. Promise!OthersInsert
    BY <1>1, <2>1, <2>4, <2>5, SameRows
       DEF Promise!OthersInsert, CopiedRows, TheirRows, Must, May
  <2>7. QED
    BY <2>6 DEF Promise!Next
<1>10. QED
  BY <1>3, <1>4, <1>5, <1>6, <1>7, <1>8, <1>9 DEF Next

LEMMA InitMaps ==
  ASSUME Init
  PROVE  Promise!Init
<1>1. FullInv
  BY InitHolds
<1>2. Rows = Promise!Rows
  BY DEF Rows, Promise!Rows
<1>3. CopiedRows = [o \in Objects |-> {}]
  BY Constants DEF Init, CopiedRows, Copied
<1>4. QED
  BY <1>1, <1>2, <1>3, RowSets DEF Init, Promise!Init, Free, Busy, CopiedRows, TheirRows, Must, May

\* The synchronisation implements its promise: it only adds rows, only such
\* as it was given by the source, only where nobody has one, and completes with
\* all rows of the objects that are read without a gap.
THEOREM Implements == Spec => KeepsItsPromise
<1>1. Init => Promise!Init
  BY InitMaps
<1>2. FullInv /\ FullInv' /\ [Next]_vars => [Promise!Next]_(Promise!vars)
  <2>1. ASSUME FullInv, FullInv', Next
        PROVE  Promise!Next \/ UNCHANGED Promise!vars
    BY <2>1, ExecuteMaps, OthersMap
  <2>2. ASSUME UNCHANGED vars
        PROVE  UNCHANGED Promise!vars
    <3>1. UNCHANGED <<engine, target, steady, offered, gate>>
      BY <2>2 DEF vars, targetVars, sourceVars
    <3>2. QED
      BY <3>1, SameRows DEF Promise!vars, Copied, Theirs, Must, May
  <2>3. QED
    BY <2>1, <2>2
<1>3. QED
  BY <1>1, <1>2, Invariance, PTL DEF Spec, KeepsItsPromise, Promise!Spec

(***************************************************************************)
(* What holds of every object, whatever its rows are like                  *)
(***************************************************************************)

AddsRows ==
  \A o \in Objects : \A i \in Ids :
    target'[o][i] # target[o][i] =>
      target[o][i] = None /\ (target'[o][i] \in Tasks => i \in Keys(o, offered[o]))

LEMMA NextAdds ==
  ASSUME FullInv, [Next]_vars
  PROVE  AddsRows
<1>1. ASSUME NEW t \in Tasks, Execute(t)
      PROVE  AddsRows
  <2>1. CASE Insert(t)
    BY <2>1, InsertAdds DEF AddsRows
  <2>2. CASE UNCHANGED target
    BY <2>2 DEF AddsRows
  <2>3. QED
    BY <1>1, <2>1, <2>2, ExecuteShape
<1>2. ASSUME NEW o \in Objects, NEW i \in Ids, TargetInserts(o, i)
      PROVE  AddsRows
  <2>1. \A p \in Objects, j \in Ids :
          \/ target'[p][j] = target[p][j]
          \/ target[p][j] = None /\ target'[p][j] = Other
    BY <1>2 DEF TargetInserts, FullInv, Inv, TypeOK
  <2>2. QED
    BY <2>1, Constants DEF AddsRows
<1>3. ASSUME NEW t \in Tasks,
             \/ RequestCancel(t) \/ Acknowledge(t) \/ ListTarget(t) \/ TakeSnapshot(t)
             \/ Withdraw(t) \/ Start(t)
      PROVE  UNCHANGED target
  BY <1>3 DEF RequestCancel, Acknowledge, ListTarget, TakeSnapshot, Withdraw, Start, targetVars
<1>4. ASSUME NEW o \in Objects,
             TargetCreates(o) \/ \E i \in Ids : SourceInserts(o, i) \/ SourceDeletes(o, i)
      PROVE  UNCHANGED target
  BY <1>4 DEF TargetCreates, SourceInserts, SourceDeletes, targetVars
<1>5. ASSUME UNCHANGED target
      PROVE  AddsRows
  BY <1>5 DEF AddsRows
<1>6. ASSUME UNCHANGED vars
      PROVE  UNCHANGED target
  BY <1>6 DEF vars, targetVars
<1>7. QED
  BY <1>1, <1>2, <1>3, <1>4, <1>5, <1>6 DEF Next

\* No row that the target has is replaced or removed, by a task that completes
\* or not, on any of the three databases; what a task adds it was given.
THEOREM OnlyAdds == Spec => AddsOnly
<1>1. FullInv /\ [Next]_vars =>
        [\A o \in Objects : \A i \in Ids :
           target'[o][i] # target[o][i] =>
             target[o][i] = None /\ (target'[o][i] \in Tasks => i \in Keys(o, offered[o]))]_vars
  BY NextAdds DEF AddsRows
<1>2. QED
  BY <1>1, Invariance, PTL DEF Spec, AddsOnly
=============================================================================
