----------------------------- MODULE SyncPromise -----------------------------
(***************************************************************************)
(* What a data synchronisation promises, whatever database it works on:    *)
(* one task at a time, until its result has been seen; rows are only added *)
(* to the target, only rows the source gave during the task, only where    *)
(* nobody has one; and a completed task has copied every row it must.      *)
(***************************************************************************)
CONSTANTS
  Objects,  \* tables or collections
  Ids       \* identities of rows

VARIABLES
  phase,    \* of the task at work
  must,     \* per object: rows that have to be copied, fewer as the source loses some
  may,      \* per object: rows the source had at some time, as it gave them
  copied,   \* per object: rows in the target that a task wrote
  theirs    \* per object: rows in the target of others

vars == <<phase, must, may, copied, theirs>>

Rows == [Objects -> SUBSET Ids]

Init ==
  /\ phase = "free"
  /\ must \in Rows /\ may \in Rows /\ theirs \in Rows
  /\ copied = [o \in Objects |-> {}]

Begin ==
  /\ phase = "free"
  /\ phase' = "busy"
  /\ must' \in Rows /\ may' \in Rows
  /\ \A o \in Objects : must'[o] \subseteq may'[o]
  /\ UNCHANGED <<copied, theirs>>

\* Clients of the source and of the target go on meanwhile.
SourceChanges ==
  /\ must' \in Rows /\ \A o \in Objects : must'[o] \subseteq must[o]
  /\ may' \in Rows /\ \A o \in Objects : may[o] \subseteq may'[o]
  /\ UNCHANGED <<phase, copied, theirs>>

OthersInsert ==
  /\ theirs' \in Rows
  /\ \A o \in Objects : theirs[o] \subseteq theirs'[o] /\ theirs'[o] \cap copied[o] = {}
  /\ UNCHANGED <<phase, must, may, copied>>

\* Rows are copied; the step may be the one that fails.
Copy ==
  /\ phase = "busy"
  /\ phase' \in {"busy", "failed"}
  /\ copied' \in Rows
  /\ \A o \in Objects :
       /\ copied[o] \subseteq copied'[o]
       /\ copied'[o] \ copied[o] \subseteq may[o] \ theirs[o]
  /\ UNCHANGED <<must, may, theirs>>

Complete ==
  /\ phase = "busy"
  /\ \A o \in Objects : must[o] \subseteq copied[o] \cup theirs[o]
  /\ phase' = "completed"
  /\ UNCHANGED <<must, may, copied, theirs>>

Cancel ==
  /\ phase = "busy"
  /\ phase' = "cancelled"
  /\ UNCHANGED <<must, may, copied, theirs>>

Acknowledge ==
  /\ phase \in {"completed", "cancelled", "failed"}
  /\ phase' = "free"
  /\ UNCHANGED <<must, may, copied, theirs>>

Next ==
  Begin \/ SourceChanges \/ OthersInsert \/ Copy \/ Complete \/ Cancel \/ Acknowledge

Spec == Init /\ [][Next]_vars
=============================================================================
