------------------------------ MODULE DataSync ------------------------------
(***************************************************************************)
(* Synchronising tables or collections from one database to another: the   *)
(* gate that admits one task, the preflight, and the task itself for       *)
(* MySQL, PostgreSQL and MongoDB. Every call of a database is an action of *)
(* its own, at which it may fail; between two of them the source and the   *)
(* target may be changed by other clients and the user may cancel.         *)
(*                                                                         *)
(* A row is its identity. All objects of a task are numbered in the order  *)
(* of its plan, identities in the order in which the databases compare     *)
(* them.                                                                   *)
(***************************************************************************)
EXTENDS Naturals, FiniteSets

CONSTANTS
  Tasks,        \* one per preflight, none is started twice
  NObjects,     \* objects of the task
  MaxId,        \* greatest identity
  BatchItems,   \* TRANSFER_BATCH_ITEMS
  Engines,      \* those tried: "mysql", "postgres", "mongodb"
  Oversized,    \* per engine: rows over TRANSFER_BATCH_BYTES
  BsonType,     \* the BSON type of each identity
  Kind,         \* per engine and object: what becomes of its identities, see below
  TextRank,     \* the order in which identities of kind "text" are sorted
  Rounded,      \* each identity as it is decoded, without its fraction
  Unique,       \* rows with the value of another's row in a unique column
  MaxChanges,   \* bound: changes by other clients
  None, Other

Objects == 1 .. NObjects
Ids == 1 .. MaxId

ASSUME BoundAssumption ==
  NObjects \in Nat \ {0} /\ MaxId \in Nat /\ BatchItems \in Nat \ {0} /\ MaxChanges \in Nat
ASSUME DataAssumption ==
  /\ Engines \subseteq {"mysql", "postgres", "mongodb"}
  /\ Oversized \in [Engines -> SUBSET Ids]
  /\ TextRank \in [Ids -> Nat]
  /\ \A i, j \in Ids : TextRank[i] = TextRank[j] => i = j
  /\ Rounded \in [Ids -> Ids]
  /\ \A i \in Ids : Rounded[i] <= i /\ Rounded[Rounded[i]] = Rounded[i]
  /\ Unique \subseteq Ids
  /\ None \notin Tasks /\ Other \notin Tasks /\ None # Other

(***************************************************************************)
(* Kinds of identities:                                                    *)
(*   "exact"    they are sorted as they are compared, and arrive unchanged;*)
(*   "text"     PostgreSQL's of other types (enum, inet, citext ...), cast *)
(*              to a text of the same name, by which the page is sorted;   *)
(*              MySQL's ENUM and SET have two orders as well: they are     *)
(*              sorted by index and compared as texts;                     *)
(*   "rounded"  TIME, whose fractions of a second are lost.                *)
(***************************************************************************)
ASSUME KindAssumption ==
  /\ Kind \in [Engines -> [Objects -> {"exact", "text", "rounded"}]]
  /\ "mongodb" \in Engines => \A o \in Objects : Kind["mongodb"][o] = "exact"

VARIABLES
  engine,     \* of both connections
  source,     \* rows of each object of the source
  tables,     \* objects that exist in the target
  target,     \* whose row has each identity in the target, None if there is none
  gate,       \* DataSyncGate: task and phase
  asked,      \* tasks whose cancel flag is set
  pc,         \* what each task does next
  plan,       \* the objects that existed, and the snapshot of the target, at preflight
  created,    \* objects each task has created
  work,       \* where the execution stands
  finalized,  \* objects with their constraints and indexes, by the task at work
  steady,     \* rows that have been in the source since the task began
  offered,    \* rows that were in the source at some time since
  changes     \* by other clients so far

targetVars == <<tables, target>>
sourceVars == <<source, steady, offered>>
vars == <<engine, sourceVars, targetVars, gate, asked, pc, plan, created, work, finalized, changes>>

Rows == [Objects -> SUBSET Ids]
Busy == {"running", "cancelling"}
Terminal == {"completed", "cancelled", "failed"}
Gate == [task : Tasks, phase : Busy \cup Terminal] \cup [task : {None}, phase : {"free"}]
Plan == [exists : SUBSET Objects, snapshot : SUBSET Objects]
Work == [object : Objects, last : 0 .. MaxId, missing : SUBSET Ids, rows : SUBSET Ids,
         deferred : BOOLEAN]
\* Where an execution waits for a database.
Working == {"verify", "create", "head", "scan", "compare", "fetch", "insert", "check",
            "index", "final"}

Free == [task |-> None, phase |-> "free"]
NoPlan == [exists |-> {}, snapshot |-> {}]
Fresh == [object |-> 1, last |-> 0, missing |-> {}, rows |-> {}, deferred |-> FALSE]

Present(o) == {i \in Ids : target[o][i] # None}
Copied(o) == {i \in Ids : target[o][i] \in Tasks}
Theirs(o) == {i \in Ids : target[o][i] = Other}

\* Where a page has an identity, and what the task knows of it afterwards.
Rank(o, i) == IF Kind[engine][o] = "text" THEN TextRank[i] ELSE i
Carried(o, i) == IF Kind[engine][o] = "rounded" THEN Rounded[i] ELSE i
Keys(o, S) == {Carried(o, i) : i \in S}

\* A sorted query returns the rows up to some k: as many as a batch has, or
\* fewer if they are large.
UpTo(o, S, k) == {i \in S : Rank(o, i) <= Rank(o, k)}
Cuts(o, S) == {k \in S : Cardinality(UpTo(o, S, k)) <= BatchItems}

TooLarge == Oversized[engine]
FittingCuts(o, S) == {k \in Cuts(o, S) : UpTo(o, S, k) \cap TooLarge = {}}
\* The first row alone is too large, and the page comes back empty.
FirstTooLarge(o, S) == S # {} /\ \A k \in S : UpTo(o, S, k) \cap TooLarge # {}

IsMongo == engine = "mongodb"
Missing(t) == Objects \ plan[t].exists

(***************************************************************************)
(* The gate                                                                *)
(***************************************************************************)

\* finish: only the current task that has not ended.
End(t, phase) ==
  /\ work' = [work EXCEPT ![t] = Fresh]
  /\ gate' = IF gate.task = t /\ gate.phase \in Busy THEN [gate EXCEPT !.phase = phase] ELSE gate
  /\ pc' = [pc EXCEPT ![t] = "over"]

Goto(t, step) == pc' = [pc EXCEPT ![t] = step] /\ UNCHANGED gate
Stay(t, step) == Goto(t, step) /\ UNCHANGED work

RequestCancel(t) ==
  /\ gate = [task |-> t, phase |-> "running"]
  /\ asked' = asked \cup {t}
  /\ gate' = [gate EXCEPT !.phase = "cancelling"]
  /\ UNCHANGED <<engine, sourceVars, targetVars, pc, plan, created, work, finalized, changes>>

\* Mutant: a running task can be dismissed.
AcknowledgeAnyTime(t) ==
  /\ gate.task = t
  /\ gate' = Free
  /\ UNCHANGED <<engine, sourceVars, targetVars, asked, pc, plan, created, work, finalized, changes>>

\* Only a result is acknowledged, and only that frees the gate.
Acknowledge(t) ==
  /\ gate.task = t
  /\ gate.phase \in Terminal
  /\ gate' = Free
  /\ UNCHANGED <<engine, sourceVars, targetVars, asked, pc, plan, created, work, finalized, changes>>

(***************************************************************************)
(* Preflight and start                                                     *)
(***************************************************************************)

\* Which objects the target has. MongoDB's preflight makes its snapshot of the
\* same answer,
ListTarget(t) ==
  /\ pc[t] = "new"
  /\ plan' = [plan EXCEPT ![t] = [exists |-> tables, snapshot |-> IF IsMongo THEN tables ELSE {}]]
  /\ Goto(t, IF IsMongo THEN "prepared" ELSE "listed")
  /\ UNCHANGED <<engine, sourceVars, targetVars, asked, created, work, finalized, changes>>

\* that of SQL asks again.
TakeSnapshot(t) ==
  /\ pc[t] = "listed"
  /\ plan' = [plan EXCEPT ![t].snapshot = tables]
  /\ Goto(t, "prepared")
  /\ UNCHANGED <<engine, sourceVars, targetVars, asked, created, work, finalized, changes>>

\* The preflight fails, or the user leaves the dialog.
Withdraw(t) ==
  /\ pc[t] \in {"new", "listed", "prepared"}
  /\ Goto(t, "over")
  /\ plan' = [plan EXCEPT ![t] = NoPlan]
  /\ UNCHANGED <<engine, sourceVars, targetVars, asked, created, work, finalized, changes>>

\* start, begin: the user has confirmed what the plan says of existing objects,
\* and the gate is free or the task is refused.
Start(t) ==
  /\ pc[t] = "prepared"
  /\ \/ /\ gate.task # None
        /\ Goto(t, "over")
        /\ plan' = [plan EXCEPT ![t] = NoPlan]
        /\ UNCHANGED <<sourceVars, finalized>>
     \/ /\ gate.task = None
        /\ gate' = [task |-> t, phase |-> "running"]
        /\ pc' = [pc EXCEPT ![t] = "verify"]
        /\ finalized' = {}
        /\ steady' = source /\ offered' = source
        /\ UNCHANGED <<source, plan>>
  /\ UNCHANGED <<engine, targetVars, asked, created, work, changes>>

(***************************************************************************)
(* The execution                                                           *)
(***************************************************************************)

Still == UNCHANGED <<engine, sourceVars, asked, plan, changes>>

\* Mutant: cancellation is honoured although structures are half made.
HonoursAlways(t) == TRUE

\* MongoDB honours a cancellation wherever it looks for it, SQL only in a task
\* that creates nothing.
Honours(t) == IsMongo \/ Missing(t) = {}

Stops(t) == t \in asked /\ Honours(t)

\* Where a cancellation is looked for.
Looks == IF IsMongo THEN {"head", "scan", "fetch", "insert"} ELSE {"head", "scan"}

StopsNow(t) == pc[t] \in Looks /\ Stops(t)

HonourCancel(t) ==
  /\ StopsNow(t)
  /\ End(t, "cancelled")
  /\ UNCHANGED <<targetVars, created, finalized>> /\ Still

\* The connections and the snapshot are compared with those of the preflight.
Verify(t) ==
  /\ pc[t] = "verify"
  /\ IF tables # plan[t].snapshot THEN End(t, "failed")
     ELSE IF ~ IsMongo /\ t \in asked THEN End(t, "cancelled")
     ELSE Stay(t, IF IsMongo \/ Missing(t) = {} THEN "head" ELSE "create")
  /\ UNCHANGED <<targetVars, created, finalized>> /\ Still

\* Mutant: CREATE ... IF NOT EXISTS.
MakeIfAbsent(t, o, next) ==
  /\ tables' = tables \cup {o}
  /\ created' = [created EXCEPT ![t] = IF o \in tables THEN @ ELSE @ \cup {o}]
  /\ Stay(t, next)

\* CREATE fails if the object has come into being meanwhile; it may also fail
\* after the fact, or at a statement that belongs to it.
Make(t, o, next) ==
  \/ /\ o \in tables
     /\ End(t, "failed")
     /\ UNCHANGED <<tables, created>>
  \/ /\ o \notin tables
     /\ tables' = tables \cup {o}
     /\ created' = [created EXCEPT ![t] = @ \cup {o}]
     /\ Stay(t, next) \/ End(t, "failed")

\* SQL creates all missing objects before it copies a row.
Create(t) ==
  /\ pc[t] = "create"
  /\ LET todo == Missing(t) \ created[t]
     IN \E o \in todo :
          /\ \A p \in todo : o <= p
          /\ Make(t, o, IF todo = {o} THEN "head" ELSE "create")
  /\ UNCHANGED <<target, finalized>> /\ Still

\* Mutant: the collection is left to the first insertion.
HeadWithoutCreate(t) ==
  /\ pc[t] = "head" /\ ~ StopsNow(t)
  /\ Stay(t, "scan")
  /\ UNCHANGED <<targetVars, created, finalized>> /\ Still

\* An object begins. A cancellation that cannot be honoured is noted for the
\* end; MongoDB creates a missing collection now.
Head(t) ==
  /\ pc[t] = "head" /\ ~ StopsNow(t)
  /\ IF IsMongo /\ work[t].object \in Missing(t) THEN Make(t, work[t].object, "scan")
     ELSE /\ work' = [work EXCEPT ![t].deferred = @ \/ t \in asked]
          /\ Goto(t, "scan")
          /\ UNCHANGED <<tables, created>>
  /\ UNCHANGED <<target, finalized>> /\ Still

\* What the next page is taken from: the database compares with the last key
\* as the task knows it. MongoDB finds values of the key's type only.
Ahead(t) ==
  {i \in source[work[t].object] :
     /\ i > work[t].last
     /\ (IsMongo /\ work[t].last # 0) => BsonType[i] = BsonType[work[t].last]}

Page(t, k) == UpTo(work[t].object, Ahead(t), k)
IsNew(t) == work[t].object \in Missing(t)

\* Mutant: the next page starts where this one did.
TurnedSamePage(t, k) ==
  IF IsNew(t) THEN [work EXCEPT ![t].rows = Page(t, k)]
              ELSE [work EXCEPT ![t].missing = Page(t, k)]

\* The page is all to be inserted in a new object, to be compared in an old one;
\* its last row gives the key of the next one.
Turned(t, k) ==
  LET last == Carried(work[t].object, k)
  IN IF IsNew(t) THEN [work EXCEPT ![t].last = last, ![t].rows = Page(t, k)]
                 ELSE [work EXCEPT ![t].last = last, ![t].missing = Page(t, k)]

\* Pages of an object that existed hold identities only.
TakePage(t) ==
  /\ pc[t] = "scan" /\ ~ StopsNow(t)
  /\ LET o == work[t].object
     IN \E k \in IF IsNew(t) THEN FittingCuts(o, Ahead(t)) ELSE Cuts(o, Ahead(t)) :
          work' = Turned(t, k)
  /\ Goto(t, IF IsNew(t) THEN "insert" ELSE "compare")
  /\ UNCHANGED <<targetVars, created, finalized>> /\ Still

NothingFits(t) == IsNew(t) /\ FirstTooLarge(work[t].object, Ahead(t))

\* SQL is told that the page was cut off.
RowTooLarge(t) ==
  /\ pc[t] = "scan" /\ ~ StopsNow(t)
  /\ NothingFits(t) /\ ~ IsMongo
  /\ End(t, "failed")
  /\ UNCHANGED <<targetVars, created, finalized>> /\ Still

\* An empty page ends the object.
ObjectEnds(t) ==
  /\ pc[t] = "scan" /\ ~ StopsNow(t)
  /\ Ahead(t) = {} \/ (NothingFits(t) /\ IsMongo)
  /\ \/ /\ IsMongo
        /\ work' = [work EXCEPT ![t].last = 0]
        /\ Goto(t, "index")
     \/ /\ ~ IsMongo /\ work[t].object < NObjects
        /\ work' = [work EXCEPT ![t] = [@ EXCEPT !.last = 0, !.object = work[t].object + 1]]
        /\ Goto(t, "head")
     \/ /\ ~ IsMongo /\ work[t].object = NObjects
        /\ work' = [work EXCEPT ![t] = [@ EXCEPT !.last = 0, !.object = 1]]
        /\ Goto(t, "final")
  /\ UNCHANGED <<targetVars, created, finalized>> /\ Still

\* The rows of the page that the target has are left alone.
Compare(t) ==
  /\ pc[t] = "compare"
  /\ LET o == work[t].object
         absent == {i \in work[t].missing : Carried(o, i) \notin Present(o)}
     IN IF ~ IsMongo /\ absent # {} /\ Stops(t)
        THEN End(t, "cancelled")
        ELSE /\ work' = [work EXCEPT ![t].missing = absent]
             /\ Goto(t, IF absent = {} THEN "scan" ELSE "fetch")
  /\ UNCHANGED <<targetVars, created, finalized>> /\ Still

\* What is left to fetch and what has been fetched.
Fetched(t, part, found) ==
  LET left == work[t].missing \ part  rows == work[t].rows \cup found
  IN /\ work' = [work EXCEPT ![t].missing = left, ![t].rows = rows]
     /\ Goto(t, IF left # {} THEN "fetch" ELSE IF rows # {} THEN "insert" ELSE "scan")

\* SQL fetches the rows by their keys in parts, halving one that is too large;
\* rows that are gone are skipped.
FetchSql(t) ==
  /\ pc[t] = "fetch"
  /\ ~ IsMongo
  /\ \E k \in Cuts(work[t].object, work[t].missing) :
       LET o == work[t].object
           part == UpTo(o, work[t].missing, k)
           found == Keys(o, part) \cap source[o]
       IN \/ /\ found \cap TooLarge = {}
             /\ Fetched(t, part, found)
          \/ /\ found \cap TooLarge # {} /\ Cardinality(part) = 1
             /\ End(t, "failed")
  /\ UNCHANGED <<targetVars, created, finalized>> /\ Still

\* MongoDB asks for what is still missing until nothing comes back.
FetchMongo(t) ==
  /\ pc[t] = "fetch"
  /\ IsMongo /\ ~ StopsNow(t)
  /\ LET o == work[t].object
         left == work[t].missing \cap source[o]
     IN \/ /\ left = {} \/ FirstTooLarge(o, left)
           /\ Fetched(t, work[t].missing, {})
        \/ \E k \in FittingCuts(o, left) :
             LET found == UpTo(o, left, k)
             IN Fetched(t, IF found = left THEN work[t].missing ELSE found, found)
  /\ UNCHANGED <<targetVars, created, finalized>> /\ Still

\* Rows that another unique column keeps out.
Clashing(o, B) ==
  IF Theirs(o) = {} THEN {} ELSE {i \in B \cap Unique : Carried(o, i) \notin Present(o)}

\* Mutant: REPLACE, or an upsert.
InsertionOverwriting(t, B) ==
  target' = [target EXCEPT ![work[t].object] =
    [i \in Ids |-> IF i \in Keys(work[t].object, B) THEN t ELSE @[i]]]

\* The rows have the identities the task knows; one that exists is left as it is.
Insertion(t, B) ==
  target' = [target EXCEPT ![work[t].object] =
    [i \in Ids |-> IF i \in Keys(work[t].object, B) /\ @[i] = None THEN t ELSE @[i]]]

\* Mutant: MySQL's silence is taken for success.
InsertedUnchecked(t, B) ==
  LET left == work[t].rows \ B
  IN /\ Insertion(t, B \ Clashing(work[t].object, B))
     /\ work' = [work EXCEPT ![t].rows = left]
     /\ Goto(t, IF left = {} THEN "scan" ELSE "insert")

\* MySQL does not say that it left out a row, hence the check; MongoDB inserts
\* the others and reports it; PostgreSQL inserts none.
Inserted(t, B) ==
  LET o == work[t].object
      left == work[t].rows \ B
  IN \/ /\ engine = "mysql"
        /\ Insertion(t, B \ Clashing(o, B))
        /\ work' = [work EXCEPT ![t].rows = left, ![t].missing = B]
        /\ Goto(t, "check")
     \/ /\ engine # "mysql"
        /\ Clashing(o, B) = {}
        /\ Insertion(t, B)
        /\ work' = [work EXCEPT ![t].rows = left]
        /\ Goto(t, IF left = {} THEN "scan" ELSE "insert")
     \/ /\ IsMongo \/ Clashing(o, B) = {}
        /\ Insertion(t, B \ Clashing(o, B))
        /\ End(t, "failed")

Insert(t) ==
  /\ pc[t] = "insert" /\ ~ StopsNow(t)
  /\ LET o == work[t].object
     IN \E k \in Cuts(o, work[t].rows) : Inserted(t, UpTo(o, work[t].rows, k))
  /\ UNCHANGED <<tables, created, finalized>> /\ Still

\* mysql_missing_identities_after_insert: as many identities are found as there
\* were rows.
AllFound(o, B) ==
  /\ Keys(o, B) \subseteq Present(o)
  /\ \A i, j \in B : Carried(o, i) = Carried(o, j) => i = j

Check(t) ==
  /\ pc[t] = "check"
  /\ IF AllFound(work[t].object, work[t].missing)
     THEN /\ work' = [work EXCEPT ![t].missing = {}]
          /\ Goto(t, IF work[t].rows = {} THEN "scan" ELSE "insert")
     ELSE End(t, "failed")
  /\ UNCHANGED <<targetVars, created, finalized>> /\ Still

\* After its rows each collection gets its indexes,
Index(t) ==
  /\ pc[t] = "index"
  /\ finalized' = finalized \cup {work[t].object}
  /\ IF work[t].object = NObjects THEN End(t, "completed")
     ELSE /\ work' = [work EXCEPT ![t].object = @ + 1]
          /\ Goto(t, "head")
  /\ UNCHANGED <<targetVars, created>> /\ Still

\* and after all rows all tables get what was put off; a cancellation that was
\* put off comes last.
Final(t) ==
  /\ pc[t] = "final"
  /\ finalized' = finalized \cup {work[t].object}
  /\ IF work[t].object = NObjects
     THEN End(t, IF work[t].deferred THEN "cancelled" ELSE "completed")
     ELSE /\ work' = [work EXCEPT ![t].object = @ + 1]
          /\ UNCHANGED <<gate, pc>>
  /\ UNCHANGED <<targetVars, created>> /\ Still

\* A database or the storage of connections does not answer, a connection was
\* edited, a statement fails.
Fails(t) ==
  /\ pc[t] \in Working
  /\ End(t, "failed")
  /\ UNCHANGED <<targetVars, created, finalized>> /\ Still

(***************************************************************************)
(* Other clients                                                           *)
(***************************************************************************)

\* Before the first preflight, and after the end, they do not matter.
Elsewhere ==
  /\ changes < MaxChanges
  /\ \E t \in Tasks : pc[t] \notin {"new", "over"}
  /\ changes' = changes + 1
  /\ UNCHANGED <<engine, gate, asked, pc, plan, created, work, finalized>>

SourceInserts(o, i) ==
  /\ Elsewhere
  /\ i \notin source[o]
  /\ source' = [source EXCEPT ![o] = @ \cup {i}]
  /\ offered' = [offered EXCEPT ![o] = @ \cup {i}]
  /\ UNCHANGED <<steady, targetVars>>

SourceDeletes(o, i) ==
  /\ Elsewhere
  /\ i \in source[o]
  /\ source' = [source EXCEPT ![o] = @ \ {i}]
  /\ steady' = [steady EXCEPT ![o] = @ \ {i}]
  /\ UNCHANGED <<offered, targetVars>>

TargetInserts(o, i) ==
  /\ Elsewhere
  /\ o \in tables /\ target[o][i] = None
  /\ target' = [target EXCEPT ![o][i] = Other]
  /\ UNCHANGED <<sourceVars, tables>>

TargetCreates(o) ==
  /\ Elsewhere
  /\ o \notin tables
  /\ tables' = tables \cup {o}
  /\ UNCHANGED <<sourceVars, target>>

(***************************************************************************)
(* The specification                                                       *)
(***************************************************************************)

\* The source has all rows at first, or all but some of the lowest; the target
\* has some objects, each empty or with the last row of another client.
Init ==
  /\ engine \in Engines
  /\ source \in {[o \in Objects |-> first .. MaxId] : first \in 1 .. 2}
  /\ steady = source /\ offered = source
  /\ tables \in SUBSET Objects
  /\ target \in [Objects -> {[i \in Ids |-> None], [i \in Ids |-> IF i = MaxId THEN Other ELSE None]}]
  /\ \A o \in Objects : Present(o) # {} => o \in tables
  /\ gate = Free
  /\ asked = {}
  /\ pc = [t \in Tasks |-> "new"]
  /\ plan = [t \in Tasks |-> NoPlan]
  /\ created = [t \in Tasks |-> {}]
  /\ work = [t \in Tasks |-> Fresh]
  /\ finalized = {}
  /\ changes = 0

Execute(t) ==
  \/ HonourCancel(t) \/ Verify(t) \/ Create(t) \/ Head(t)
  \/ TakePage(t) \/ RowTooLarge(t) \/ ObjectEnds(t) \/ Compare(t) \/ FetchSql(t) \/ FetchMongo(t)
  \/ Insert(t) \/ Check(t) \/ Index(t) \/ Final(t) \/ Fails(t)

Next ==
  \/ \E t \in Tasks :
       \/ RequestCancel(t) \/ Acknowledge(t)
       \/ ListTarget(t) \/ TakeSnapshot(t) \/ Withdraw(t) \/ Start(t)
       \/ Execute(t)
  \/ \E o \in Objects :
       \/ TargetCreates(o)
       \/ \E i \in Ids : SourceInserts(o, i) \/ SourceDeletes(o, i) \/ TargetInserts(o, i)

Spec == Init /\ [][Next]_vars

\* A call of a database returns or fails, and the execution goes on.
Fairness == \A t \in Tasks : WF_vars(Execute(t))
FairSpec == Spec /\ Fairness

(***************************************************************************)
(* Correctness                                                             *)
(***************************************************************************)

\* Every variable has its type; only objects that exist have rows.
TypeOK ==
  /\ engine \in Engines
  /\ source \in Rows /\ steady \in Rows /\ offered \in Rows
  /\ tables \subseteq Objects
  /\ target \in [Objects -> [Ids -> Tasks \cup {None, Other}]]
  /\ \A o \in Objects : Present(o) # {} => o \in tables
  /\ gate \in Gate
  /\ asked \subseteq Tasks
  /\ pc \in [Tasks -> Working \cup {"new", "listed", "prepared", "over"}]
  /\ plan \in [Tasks -> Plan]
  /\ created \in [Tasks -> SUBSET Objects]
  /\ work \in [Tasks -> Work]
  /\ finalized \subseteq Objects
  /\ changes \in 0 .. MaxChanges

\* While the gate says that a task runs somebody executes it, and nobody
\* executes anything otherwise: no result is acknowledged, and no task
\* admitted, while an earlier one is still at work.
OneExecutor ==
  /\ \A t \in Tasks : pc[t] \in Working => gate.task = t /\ gate.phase \in Busy
  /\ gate.phase \in Busy => pc[gate.task] \in Working

\* Rows are only written to an object that the plan showed to exist when the
\* user confirmed it, or that the task created.
ConfirmedOnly ==
  \A o \in Objects : \A i \in Copied(o) :
    o \in plan[target[o][i]].exists \cup created[target[o][i]]

\* Objects that are read page by page without a gap: not MongoDB's with
\* documents over the limit or identities of several types, nor SQL's that are
\* sorted by another order than they are compared in or whose keys are rounded.
PagesReachAll(o) ==
  IF IsMongo THEN TooLarge = {} /\ \A i, j \in Ids : BsonType[i] = BsonType[j]
             ELSE Kind[engine][o] = "exact"

Complete(o) == PagesReachAll(o) => steady[o] \subseteq Present(o)

\* A task that is said to be completed has missed no row that was in the
\* source all the time, whatever went on beside it.
CompletedIsComplete == gate.phase = "completed" => \A o \in Objects : Complete(o)

\* The same of all objects, as the summary of a completed task has it.
NothingMissed == gate.phase = "completed" => \A o \in Objects : steady[o] \subseteq Present(o)

\* "Structures have been created; lest tables or constraints stay incomplete
\* the cancellation takes effect after a safe end": a cancelled SQL task that
\* created anything has created, filled and finished everything.
SafeCancel ==
  gate.phase = "cancelled" /\ ~ IsMongo /\ created[gate.task] # {}
  => /\ Missing(gate.task) \subseteq created[gate.task]
     /\ finalized = Objects
     /\ \A o \in Objects : Complete(o)

\* Nothing in the target is ever replaced or removed: a step adds rows where
\* nobody has one, and a task only such as it was given by the source.
AddsOnly ==
  [][\A o \in Objects : \A i \in Ids :
       target'[o][i] # target[o][i] =>
         target[o][i] = None /\ (target'[o][i] \in Tasks => i \in Keys(o, offered[o]))]_vars

\* Whatever is started comes to a result, cancelled or not, unless it stays for
\* ever with an object whose keys are rounded.
ReadsForEver(t) == pc[t] \in Working /\ Kind[engine][work[t].object] = "rounded"
ComesToAResult ==
  \A t \in Tasks :
    pc[t] = "verify" ~> (gate.task = t /\ gate.phase \in Terminal) \/ []ReadsForEver(t)

Promise == INSTANCE SyncPromise WITH
  phase <- IF gate.phase \in Busy THEN "busy" ELSE gate.phase,
  must <- [o \in Objects |-> IF PagesReachAll(o) THEN steady[o] ELSE {}],
  may <- [o \in Objects |-> Keys(o, offered[o])],
  copied <- [o \in Objects |-> Copied(o)],
  theirs <- [o \in Objects |-> Theirs(o)]

\* The synchronisation does what it promises.
KeepsItsPromise == Promise!Spec
=============================================================================
