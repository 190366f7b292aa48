------------------------- MODULE TransferEngine_proofs -------------------------
(***************************************************************************)
(* Proofs about TransferEngine, for any number of transfers of any kind,   *)
(* whatever fails, is cancelled or is written by others.                   *)
(***************************************************************************)
EXTENDS TransferEngine, TLAPS

Committing == {"recheck", "place", "aside", "check", "movein"}
Replacing == {"check", "movein", "rollback"}

\* What a transfer has in its temporary file when it commits, and aside while
\* it may have to move it back.
FilesAt(t) ==
  /\ pc[t] \in Committing => temp[t] = t
  /\ pc[t] \in Replacing => backup[t] # None

\* A file that was seen is at its name, or aside and not about to be removed.
Kept ==
  (\E t \in Transfers : seen[t] # None) =>
    target # None \/ \E t \in Transfers : backup[t] # None /\ pc[t] # "remove"

Inv == TypeOK /\ AlwaysWhole /\ (\A t \in Transfers : FilesAt(t)) /\ Kept

(***************************************************************************)
(* How a step moves a transfer                                             *)
(***************************************************************************)

\* A step of t goes to one of the steps S.
Moves(t, S) ==
  /\ pc' \in [Transfers -> Steps] /\ result' \in [Transfers -> {"none", "done", "failed"}]
  /\ lost' \subseteq Transfers
  /\ pc'[t] \in S
  /\ \A u \in Transfers \ {t} : pc'[u] = pc[u]

LEMMA GotoMoves ==
  ASSUME TypeOK, NEW t \in Transfers, NEW step \in Steps, Goto(t, step), UNCHANGED lost
  PROVE  Moves(t, {step})
<1>1. pc' \in [Transfers -> Steps] /\ pc'[t] = step /\ \A u \in Transfers \ {t} : pc'[u] = pc[u]
  BY DEF TypeOK, Goto
<1>2. result' \in [Transfers -> {"none", "done", "failed"}]
  BY DEF TypeOK, Goto
<1> QED BY <1>1, <1>2 DEF Moves, TypeOK

LEMMA DoneMoves ==
  ASSUME TypeOK, NEW t \in Transfers, Done(t), UNCHANGED lost
  PROVE  Moves(t, {"over"})
BY DEF TypeOK, Done, Moves, Steps

LEMMA FailsMoves ==
  ASSUME TypeOK, NEW t \in Transfers, NEW step \in Steps, FailsTo(t, step)
  PROVE  Moves(t, {step})
<1>1. pc' \in [Transfers -> Steps] /\ pc'[t] = step /\ \A u \in Transfers \ {t} : pc'[u] = pc[u]
  BY DEF TypeOK, Goto, FailsTo
<1>2. result' \in [Transfers -> {"none", "done", "failed"}]
  BY DEF TypeOK, Goto, FailsTo
<1>3. lost' \subseteq Transfers
  BY DEF TypeOK, FailsTo
<1> QED BY <1>1, <1>2, <1>3 DEF Moves

LEMMA CarriedMoves ==
  ASSUME TypeOK, NEW t \in Transfers, NEW next \in Steps, NEW otherwise \in Steps,
         Carried(t, next, otherwise)
  PROVE  Moves(t, {next, otherwise})
<1>1. Moves(t, {next}) \/ Moves(t, {otherwise})
  BY GotoMoves, FailsMoves DEF Carried
<1> QED BY <1>1 DEF Moves

(***************************************************************************)
(* Parts of the invariant                                                  *)
(***************************************************************************)

\* A step of t that leaves the remote names alone.
LEMMA NamesUntouched ==
  ASSUME Inv, NEW t \in Transfers, NEW S, Moves(t, S), UNCHANGED <<target, backup, seen>>,
         temp' \in [Transfers -> Transfers \cup {None, Part}],
         \A u \in Transfers \ {t} : temp'[u] = temp[u],
         FilesAt(t)', "remove" \notin S
  PROVE  /\ (\A u \in Transfers : FilesAt(u))' /\ Kept'
         /\ target' # Part /\ (\A u \in Transfers : backup[u] # Part)'
<1>1. ASSUME NEW u \in Transfers PROVE FilesAt(u)'
  BY <1>1 DEF Inv, FilesAt, Moves
<1>2. Kept'
  BY DEF Inv, Kept, Moves
<1> QED BY <1>1, <1>2 DEF Inv, AlwaysWhole

\* A step of t that gives the remote file a name it had not.
LEMMA NameTaken ==
  ASSUME Inv, NEW t \in Transfers, NEW S, Moves(t, S),
         target' \notin {None, Part}, backup' \in [Transfers -> Whole \cup {None, Part, Link}],
         \A u \in Transfers \ {t} : temp'[u] = temp[u] /\ backup'[u] = backup[u],
         FilesAt(t)', backup'[t] # Part
  PROVE  /\ (\A u \in Transfers : FilesAt(u))' /\ Kept'
         /\ target' # Part /\ (\A u \in Transfers : backup[u] # Part)'
<1>1. ASSUME NEW u \in Transfers PROVE FilesAt(u)'
  BY <1>1 DEF Inv, FilesAt, Moves
<1>2. ASSUME NEW u \in Transfers PROVE backup'[u] # Part
  BY <1>2 DEF Inv, AlwaysWhole
<1>3. Kept'
  BY DEF Kept
<1> QED BY <1>1, <1>2, <1>3

\* The file of a transfer that commits takes the free name.
LEMMA MovedInPlace ==
  ASSUME Inv, NEW t \in Transfers, MovedIn(t), pc[t] \in Committing
  PROVE  /\ target = None /\ target' = t /\ t \notin {None, Part, Old, Theirs, Link}
         /\ temp' \in [Transfers -> Transfers \cup {None, Part}]
         /\ \A u \in Transfers \ {t} : temp'[u] = temp[u]
         /\ backup' = backup
<1>1. temp[t] = t /\ target = None /\ target' = t /\ backup' = backup
  BY DEF MovedIn, Inv, FilesAt
<1>2. t \notin {None, Part, Old, Theirs, Link}
  BY NameAssumption
<1>3. /\ temp' \in [Transfers -> Transfers \cup {None, Part}]
      /\ \A u \in Transfers \ {t} : temp'[u] = temp[u]
  BY DEF MovedIn, Inv, TypeOK
<1> QED BY <1>1, <1>2, <1>3

\* What remains of the type when a step moves one transfer.
LEMMA TypeMoved ==
  ASSUME Inv, NEW t \in Transfers, NEW S, Moves(t, S), Still,
         seen' \in [Transfers -> Whole \cup {None}],
         target' \in Whole \cup {None, Part, Link},
         temp' \in [Transfers -> Transfers \cup {None, Part}],
         backup' \in [Transfers -> Whole \cup {None, Part, Link}],
         local' \in Whole \cup {None, Part},
         localTemp' \in [Transfers -> Transfers \cup {None, Part}]
  PROVE  TypeOK'
BY DEF Inv, TypeOK, Moves, Still

\* A step of t on nothing but local files, or on none.
LEMMA OnlyLocal ==
  ASSUME Inv, NEW t \in Transfers, NEW S, Moves(t, S), Still, UNCHANGED remoteVars, UNCHANGED seen,
         local' \in Whole \cup {None}, localTemp' \in [Transfers -> Transfers \cup {None, Part}],
         pc'[t] \in Committing => pc[t] \in Committing,
         pc'[t] \in Replacing => pc[t] \in Replacing,
         "remove" \notin S
  PROVE  Inv'
<1>1. FilesAt(t)' BY DEF Inv, FilesAt, remoteVars
<1>2. /\ (\A u \in Transfers : FilesAt(u))' /\ Kept'
      /\ target' # Part /\ (\A u \in Transfers : backup[u] # Part)'
  BY <1>1, NamesUntouched DEF Inv, TypeOK, remoteVars
<1>3. local' # Part BY NameAssumption DEF Whole
<1>4. TypeOK' BY TypeMoved DEF Inv, TypeOK, remoteVars
<1> QED BY <1>2, <1>3, <1>4 DEF Inv, AlwaysWhole

\* A step of t on its remote temporary file.
LEMMA OnlyTemporary ==
  ASSUME Inv, NEW t \in Transfers, NEW S, Moves(t, S), Still,
         UNCHANGED <<seen, target, backup, localVars>>,
         temp' \in [Transfers -> Transfers \cup {None, Part}],
         \A u \in Transfers \ {t} : temp'[u] = temp[u],
         FilesAt(t)', "remove" \notin S
  PROVE  Inv'
<1>1. /\ (\A u \in Transfers : FilesAt(u))' /\ Kept'
      /\ target' # Part /\ (\A u \in Transfers : backup[u] # Part)'
  BY NamesUntouched
<1>2. TypeOK' BY TypeMoved DEF Inv, TypeOK, localVars
<1> QED BY <1>1, <1>2 DEF Inv, AlwaysWhole, localVars

\* A step of t that takes the name.
LEMMA OnlyTaking ==
  ASSUME Inv, NEW t \in Transfers, NEW S, Moves(t, S), Still, UNCHANGED <<seen, localVars>>,
         target' \in Whole \cup {Link}, target' \notin {None, Part},
         temp' \in [Transfers -> Transfers \cup {None, Part}],
         backup' \in [Transfers -> Whole \cup {None, Part, Link}],
         \A u \in Transfers \ {t} : temp'[u] = temp[u] /\ backup'[u] = backup[u],
         FilesAt(t)', backup'[t] # Part
  PROVE  Inv'
<1>1. /\ (\A u \in Transfers : FilesAt(u))' /\ Kept'
      /\ target' # Part /\ (\A u \in Transfers : backup[u] # Part)'
  BY NameTaken
<1>2. TypeOK' BY TypeMoved DEF Inv, TypeOK, localVars
<1> QED BY <1>1, <1>2 DEF Inv, AlwaysWhole, localVars
(***************************************************************************)
(* The actions                                                             *)
(***************************************************************************)

LEMMA InitInv == Init => Inv
<1> SUFFICES ASSUME Init PROVE Inv OBVIOUS
<1>1. TypeOK BY BoundAssumption DEF Init, TypeOK, Steps, Whole
<1>2. AlwaysWhole BY NameAssumption DEF Init, AlwaysWhole
<1>3. Kept /\ \A t \in Transfers : FilesAt(t)
  BY DEF Init, FilesAt, Kept, Committing, Replacing
<1> QED BY <1>1, <1>2, <1>3 DEF Inv

LEMMA QueueInv == ASSUME Inv, NEW t \in Transfers, Queue(t) PROVE Inv'
<1>1. Moves(t, {"queued"})
  BY GotoMoves DEF Queue, Inv, Steps
<1>2. /\ FilesAt(t)' /\ UNCHANGED <<remoteVars, localVars>> /\ Still
      /\ seen' \in [Transfers -> Whole \cup {None}]
      /\ UNCHANGED seen \/ target # None
  BY <1>1, NameAssumption
  DEF Queue, Moves, FilesAt, Inv, TypeOK, Committing, Replacing, Whole, remoteVars
<1>3. TypeOK' BY <1>1, <1>2, TypeMoved DEF Inv, TypeOK, remoteVars, localVars
<1>4. ASSUME NEW u \in Transfers PROVE FilesAt(u)'
  BY <1>1, <1>2, <1>4 DEF Inv, FilesAt, Moves, remoteVars
<1>5. Kept' BY <1>1, <1>2 DEF Inv, Kept, Moves, remoteVars
<1> QED BY <1>2, <1>3, <1>4, <1>5 DEF Inv, AlwaysWhole, remoteVars, localVars

LEMMA CancelInv == ASSUME Inv, NEW t \in Transfers, Cancel(t) PROVE Inv'
BY DEF Inv, TypeOK, AlwaysWhole, FilesAt, Kept, Cancel, remoteVars, localVars

LEMMA AcquireInv == ASSUME Inv, NEW t \in Transfers, Acquire(t) PROVE Inv'
<1>1. Moves(t, {"over"}) \/ Moves(t, {"look"})
  BY GotoMoves DEF Acquire, Inv, Steps
<1>2. UNCHANGED <<seen, remoteVars, localVars>> /\ Still BY DEF Acquire
<1>3. local \in Whole \cup {None} /\ localTemp \in [Transfers -> Transfers \cup {None, Part}]
  BY DEF Inv, TypeOK, AlwaysWhole
<1> QED BY <1>1, <1>2, <1>3, OnlyLocal DEF Moves, Committing, Replacing, localVars

LEMMA LookInv == ASSUME Inv, NEW t \in Transfers, Look(t) PROVE Inv'
<1>1. UNCHANGED <<remoteVars, localVars>> /\ Still BY DEF Look
<1>2. CASE ~ Refused(t) /\ role[t].kind = "upload" /\ seen' = [seen EXCEPT ![t] = target]
           /\ Answers(t) /\ Goto(t, "open")
  <2>1. Moves(t, {"open"}) BY <1>2, GotoMoves DEF Answers, Inv, Steps
  <2>2. target # Link BY <1>2 DEF Refused
  <2>3. seen' \in [Transfers -> Whole \cup {None}]
    BY <1>2, <2>2 DEF Inv, TypeOK, AlwaysWhole
  <2>4. TypeOK' BY <1>1, <2>1, <2>3, TypeMoved DEF Inv, TypeOK, remoteVars, localVars
  <2>5. ASSUME NEW u \in Transfers PROVE FilesAt(u)'
    BY <1>1, <2>1, <2>5 DEF Inv, FilesAt, Moves, Committing, Replacing, remoteVars
  <2>6. Kept'
    <3>1. CASE target # None BY <1>1, <3>1 DEF Kept, remoteVars
    <3>2. CASE target = None
      BY <1>1, <1>2, <2>1, <3>2 DEF Inv, TypeOK, Kept, Moves, remoteVars
    <3> QED BY <3>1, <3>2
  <2> QED BY <1>1, <2>4, <2>5, <2>6 DEF Inv, AlwaysWhole, remoteVars, localVars
<1>3. CASE UNCHANGED seen
  <2>1. Moves(t, {"over"}) \/ Moves(t, {"open"})
    BY GotoMoves, FailsMoves DEF Look, Answers, Inv, Steps
  <2>2. local \in Whole \cup {None} /\ localTemp \in [Transfers -> Transfers \cup {None, Part}]
    BY DEF Inv, TypeOK, AlwaysWhole
  <2> QED BY <1>1, <1>3, <2>1, <2>2, OnlyLocal DEF Moves, Committing, Replacing, localVars
<1> QED BY <1>2, <1>3 DEF Look

LEMMA OpenRemoteInv == ASSUME Inv, NEW t \in Transfers, OpenRemote(t) PROVE Inv'
<1>1. Moves(t, {"copy", "over"})
  BY CarriedMoves, FailsMoves DEF OpenRemote, Inv, Steps, Moves
<1>2. /\ temp' \in [Transfers -> Transfers \cup {None, Part}]
      /\ \A u \in Transfers \ {t} : temp'[u] = temp[u]
  BY DEF OpenRemote, Inv, TypeOK
<1>3. FilesAt(t)' BY <1>1 DEF Moves, FilesAt, Committing, Replacing
<1> QED BY <1>1, <1>2, <1>3, OnlyTemporary DEF OpenRemote

LEMMA OpenLocalInv == ASSUME Inv, NEW t \in Transfers, OpenLocal(t) PROVE Inv'
<1>1. Moves(t, {"copy"}) \/ Moves(t, {"source"}) \/ Moves(t, {"over"})
  BY GotoMoves, FailsMoves DEF OpenLocal, Inv, Steps
<1>2. local' \in Whole \cup {None} /\ localTemp' \in [Transfers -> Transfers \cup {None, Part}]
  BY DEF OpenLocal, Inv, TypeOK, AlwaysWhole
<1> QED BY <1>1, <1>2, OnlyLocal DEF OpenLocal, Moves, Committing, Replacing

LEMMA OpenSourceInv == ASSUME Inv, NEW t \in Transfers, OpenSource(t) PROVE Inv'
<1>1. Moves(t, {"copy"}) \/ Moves(t, {"over"}) \/ Moves(t, {"cleanlocal"})
  BY GotoMoves, FailsMoves DEF OpenSource, Answers, Inv, Steps
<1>2. local' \in Whole \cup {None} /\ localTemp' \in [Transfers -> Transfers \cup {None, Part}]
  BY DEF OpenSource, Inv, TypeOK, AlwaysWhole, localVars
<1> QED BY <1>1, <1>2, OnlyLocal DEF OpenSource, Moves, Committing, Replacing

LEMMA CopyRemoteInv == ASSUME Inv, NEW t \in Transfers, CopyRemote(t) PROVE Inv'
<1>0. Commit(t) \in Committing \ Replacing BY DEF Commit, Committing, Replacing
<1>1. CASE temp' = [temp EXCEPT ![t] = t] /\ Carried(t, Commit(t), "clean")
  <2>1. Moves(t, {Commit(t), "clean"})
    <3>1. Commit(t) \in Steps /\ "clean" \in Steps BY <1>0 DEF Steps, Committing
    <3>2. TypeOK BY DEF Inv
    <3> QED BY <1>1, <3>1, <3>2, CarriedMoves
  <2>2. /\ temp' \in [Transfers -> Transfers \cup {None, Part}] /\ temp'[t] = t
        /\ \A u \in Transfers \ {t} : temp'[u] = temp[u]
    BY <1>1 DEF Inv, TypeOK
  <2>3. FilesAt(t)' BY <1>0, <2>1, <2>2 DEF Moves, FilesAt, Committing, Replacing
  <2> QED BY <1>0, <2>1, <2>2, <2>3, OnlyTemporary DEF CopyRemote, Committing
<1>2. CASE UNCHANGED temp /\ FailsTo(t, "clean")
  <2>1. Moves(t, {"clean"}) BY <1>2, FailsMoves DEF Inv, Steps
  <2>2. FilesAt(t)' BY <2>1 DEF Moves, FilesAt, Committing, Replacing
  <2> QED BY <1>2, <2>1, <2>2, OnlyTemporary DEF CopyRemote, Inv, TypeOK
<1> QED BY <1>1, <1>2 DEF CopyRemote

LEMMA CopyLocalInv == ASSUME Inv, NEW t \in Transfers, CopyLocal(t) PROVE Inv'
<1>1. Moves(t, {"local"}) \/ Moves(t, {"cleanlocal"})
  BY GotoMoves, FailsMoves DEF CopyLocal, Answers, Inv, Steps
<1>2. local' \in Whole \cup {None} /\ localTemp' \in [Transfers -> Transfers \cup {None, Part}]
  BY DEF CopyLocal, Inv, TypeOK, AlwaysWhole
<1> QED BY <1>1, <1>2, OnlyLocal DEF CopyLocal, Moves, Committing, Replacing

LEMMA RecheckInv == ASSUME Inv, NEW t \in Transfers, Recheck(t) PROVE Inv'
<1>1. Moves(t, {"aside"}) \/ Moves(t, {"clean"})
  BY GotoMoves, FailsMoves DEF Recheck, Answers, Inv, Steps
<1>2. local' \in Whole \cup {None} /\ localTemp' \in [Transfers -> Transfers \cup {None, Part}]
  BY DEF Recheck, Inv, TypeOK, AlwaysWhole, localVars
<1> QED BY <1>1, <1>2, OnlyLocal DEF Recheck, Moves, Committing, Replacing

LEMMA PlaceInv == ASSUME Inv, NEW t \in Transfers, Place(t) PROVE Inv'
<1>1. Moves(t, {"over"}) \/ Moves(t, {"clean"})
  BY DoneMoves, FailsMoves DEF Place, Answers, Inv, Steps
<1>2. FilesAt(t)' BY <1>1 DEF Moves, FilesAt, Committing, Replacing
<1>3. CASE MovedIn(t)
  <2>1. pc[t] \in Committing BY DEF Place, Committing
  <2> QED BY <1>1, <1>2, <1>3, <2>1, MovedInPlace, OnlyTaking
          DEF Place, Inv, TypeOK, AlwaysWhole, Whole
<1>4. CASE UNCHANGED remoteVars
  BY <1>1, <1>2, <1>4, OnlyTemporary DEF Place, remoteVars, Inv, TypeOK
<1> QED BY <1>3, <1>4 DEF Place

\* The name is free meanwhile, but the file is aside.
LEMMA MoveAsideInv == ASSUME Inv, NEW t \in Transfers, MoveAside(t) PROVE Inv'
<1>1. CASE /\ target # None
           /\ backup' = [backup EXCEPT ![t] = target] /\ target' = None
           /\ UNCHANGED temp
           /\ Carried(t, "check", "clean")
  <2>1. Moves(t, {"check", "clean"}) BY <1>1, CarriedMoves DEF Inv, Steps
  <2>2. /\ backup' \in [Transfers -> Whole \cup {None, Part, Link}]
        /\ backup'[t] \notin {None, Part}
        /\ \A u \in Transfers \ {t} : backup'[u] = backup[u]
    BY <1>1 DEF Inv, TypeOK, AlwaysWhole
  <2>3. TypeOK' BY <1>1, <2>1, <2>2, TypeMoved DEF MoveAside, Inv, TypeOK, localVars
  <2>4. temp[t] = t BY DEF MoveAside, Inv, FilesAt, Committing
  <2>5. ASSUME NEW u \in Transfers PROVE FilesAt(u)'
    BY <1>1, <2>1, <2>2, <2>4, <2>5 DEF Inv, FilesAt, Moves
  <2>6. Kept' BY <2>1, <2>2 DEF Kept, Moves
  <2>7. AlwaysWhole'
    BY <1>1, <2>2, NameAssumption DEF MoveAside, Inv, AlwaysWhole, localVars
  <2> QED BY <2>3, <2>5, <2>6, <2>7 DEF Inv
<1>2. CASE UNCHANGED remoteVars /\ FailsTo(t, "clean")
  <2>1. Moves(t, {"clean"}) BY <1>2, FailsMoves DEF Inv, Steps
  <2>2. FilesAt(t)' BY <2>1 DEF Moves, FilesAt, Committing, Replacing
  <2> QED BY <1>2, <2>1, <2>2, OnlyTemporary DEF MoveAside, remoteVars, Inv, TypeOK
<1> QED BY <1>1, <1>2 DEF MoveAside

LEMMA CheckBackupInv == ASSUME Inv, NEW t \in Transfers, CheckBackup(t) PROVE Inv'
<1>1. Moves(t, {"rollback"}) \/ Moves(t, {"movein"})
  BY GotoMoves, FailsMoves DEF CheckBackup, Answers, Inv, Steps
<1>2. local' \in Whole \cup {None} /\ localTemp' \in [Transfers -> Transfers \cup {None, Part}]
  BY DEF CheckBackup, Inv, TypeOK, AlwaysWhole, localVars
<1> QED BY <1>1, <1>2, OnlyLocal DEF CheckBackup, Moves, Committing, Replacing

LEMMA MoveInInv == ASSUME Inv, NEW t \in Transfers, MoveIn(t) PROVE Inv'
<1>0. backup[t] # None BY DEF MoveIn, Inv, FilesAt, Replacing
<1>1. CASE MovedIn(t) /\ Carried(t, "remove", "rollback")
  <2>1. Moves(t, {"remove", "rollback"}) BY <1>1, CarriedMoves DEF Inv, Steps
  <2>2. pc[t] \in Committing BY DEF MoveIn, Committing
  <2>3. backup' = backup BY <1>1 DEF MovedIn
  <2>4. FilesAt(t)' BY <1>0, <2>1, <2>3 DEF Moves, FilesAt, Committing, Replacing
  <2> QED BY <1>1, <2>1, <2>2, <2>4, MovedInPlace, OnlyTaking
          DEF MoveIn, Inv, TypeOK, AlwaysWhole, Whole
<1>2. CASE UNCHANGED remoteVars /\ FailsTo(t, "rollback")
  <2>1. Moves(t, {"rollback"}) BY <1>2, FailsMoves DEF Inv, Steps
  <2>2. FilesAt(t)' BY <1>0, <1>2, <2>1 DEF Moves, FilesAt, Committing, Replacing, remoteVars
  <2> QED BY <1>2, <2>1, <2>2, OnlyTemporary DEF MoveIn, remoteVars, Inv, TypeOK
<1> QED BY <1>1, <1>2 DEF MoveIn

LEMMA RollbackInv == ASSUME Inv, NEW t \in Transfers, Rollback(t) PROVE Inv'
<1>0. backup[t] \in Whole \cup {Link} /\ backup[t] \notin {None, Part}
  BY DEF Rollback, Inv, FilesAt, Replacing, TypeOK, AlwaysWhole
<1>1. Moves(t, {"clean"})
  BY CarriedMoves, FailsMoves DEF Rollback, Inv, Steps, Moves
<1>2. FilesAt(t)' BY <1>1 DEF Moves, FilesAt, Committing, Replacing
<1>3. CASE target' = backup[t] /\ backup' = [backup EXCEPT ![t] = None] /\ UNCHANGED temp
  <2>1. /\ backup' \in [Transfers -> Whole \cup {None, Part, Link}] /\ backup'[t] # Part
        /\ \A u \in Transfers \ {t} : backup'[u] = backup[u]
    BY <1>3, NameAssumption DEF Inv, TypeOK
  <2> QED BY <1>0, <1>1, <1>2, <1>3, <2>1, OnlyTaking DEF Rollback, Inv, TypeOK
<1>4. CASE UNCHANGED remoteVars
  BY <1>1, <1>2, <1>4, OnlyTemporary DEF Rollback, remoteVars, Inv, TypeOK
<1> QED BY <1>3, <1>4 DEF Rollback

\* What is removed was not what kept the file.
LEMMA RemoveBackupInv == ASSUME Inv, NEW t \in Transfers, RemoveBackup(t) PROVE Inv'
<1>1. Moves(t, {"over"}) \/ Moves(t, {"clean"})
  BY DoneMoves, FailsMoves DEF RemoveBackup, Answers, Inv, Steps
<1>2. /\ backup' \in [Transfers -> Whole \cup {None, Part, Link}]
      /\ backup'[t] # Part /\ \A u \in Transfers \ {t} : backup'[u] = backup[u]
  BY NameAssumption DEF RemoveBackup, Inv, TypeOK, AlwaysWhole
<1>3. UNCHANGED <<seen, target, temp, localVars>> /\ Still BY DEF RemoveBackup
<1>4. TypeOK' BY <1>1, <1>2, <1>3, TypeMoved DEF Inv, TypeOK, localVars
<1>5. ASSUME NEW u \in Transfers PROVE FilesAt(u)'
  BY <1>1, <1>2, <1>3, <1>5 DEF Inv, FilesAt, Moves, Committing, Replacing
<1>6. Kept'
  <2>1. pc[t] = "remove" BY DEF RemoveBackup
  <2> QED BY <1>1, <1>2, <1>3, <2>1 DEF Inv, Kept, Moves
<1>7. AlwaysWhole' BY <1>2, <1>3 DEF Inv, AlwaysWhole, localVars
<1> QED BY <1>4, <1>5, <1>6, <1>7 DEF Inv

LEMMA CleanRemoteInv == ASSUME Inv, NEW t \in Transfers, CleanRemote(t) PROVE Inv'
<1>1. Moves(t, {"over"}) BY FailsMoves DEF CleanRemote, Inv, Steps
<1>2. FilesAt(t)' BY <1>1 DEF Moves, FilesAt, Committing, Replacing
<1>3. /\ temp' \in [Transfers -> Transfers \cup {None, Part}]
      /\ \A u \in Transfers \ {t} : temp'[u] = temp[u]
  BY DEF CleanRemote, Inv, TypeOK
<1> QED BY <1>1, <1>2, <1>3, OnlyTemporary DEF CleanRemote

LEMMA CommitLocalInv == ASSUME Inv, NEW t \in Transfers, CommitLocal(t) PROVE Inv'
<1>1. Moves(t, {"over"}) \/ Moves(t, {"cleanlocal"})
  BY GotoMoves, DoneMoves DEF CommitLocal, Inv, Steps
<1>2. local' \in Whole \cup {None} /\ localTemp' \in [Transfers -> Transfers \cup {None, Part}]
  BY DEF CommitLocal, Inv, TypeOK, AlwaysWhole, localVars, Whole
<1> QED BY <1>1, <1>2, OnlyLocal DEF CommitLocal, Moves, Committing, Replacing

LEMMA CleanLocalInv == ASSUME Inv, NEW t \in Transfers, CleanLocal(t) PROVE Inv'
<1>1. Moves(t, {"over"}) BY GotoMoves DEF CleanLocal, Inv, Steps
<1>2. local' \in Whole \cup {None} /\ localTemp' \in [Transfers -> Transfers \cup {None, Part}]
  BY DEF CleanLocal, Inv, TypeOK, AlwaysWhole
<1> QED BY <1>1, <1>2, OnlyLocal DEF CleanLocal, Moves, Committing, Replacing

LEMMA WriteRemoteInv == ASSUME Inv, NEW c \in {Theirs, Link}, WriteRemote(c) PROVE Inv'
<1>1. c \notin {None, Part} BY NameAssumption
<1>2. changes' \in 0 .. MaxChanges BY BoundAssumption DEF WriteRemote, Inv, TypeOK
<1> QED BY <1>1, <1>2
        DEF WriteRemote, Inv, TypeOK, AlwaysWhole, FilesAt, Kept, Whole, localVars

LEMMA WriteLocalInv == ASSUME Inv, WriteLocal PROVE Inv'
<1>1. Theirs # Part BY NameAssumption
<1>2. changes' \in 0 .. MaxChanges BY BoundAssumption DEF WriteLocal, Inv, TypeOK
<1> QED BY <1>1, <1>2
        DEF WriteLocal, Inv, TypeOK, AlwaysWhole, FilesAt, Kept, Whole, remoteVars

\* A step of an execution is one of its actions.
LEMMA ExecuteInv == ASSUME Inv, NEW t \in Transfers, Execute(t) PROVE Inv'
BY AcquireInv, LookInv, OpenRemoteInv, OpenLocalInv, OpenSourceInv, CopyRemoteInv, CopyLocalInv,
   RecheckInv, PlaceInv, MoveAsideInv, CheckBackupInv, MoveInInv, RollbackInv, RemoveBackupInv,
   CleanRemoteInv, CommitLocalInv, CleanLocalInv DEF Execute

LEMMA StutterInv == ASSUME Inv, UNCHANGED vars PROVE Inv'
BY DEF Inv, TypeOK, AlwaysWhole, FilesAt, Kept, vars, remoteVars, localVars

(***************************************************************************)
(* The theorems                                                            *)
(***************************************************************************)

\* The invariant is inductive: what a transfer has in its temporary file and
\* aside fits its step in the engine, and no file that was seen is gone.
THEOREM Invariance == Spec => []Inv
<1>1. Inv /\ [Next]_vars => Inv'
  BY QueueInv, CancelInv, ExecuteInv, WriteRemoteInv, WriteLocalInv, StutterInv DEF Next
<1> QED BY <1>1, InitInv, PTL DEF Spec

\* Every variable has its type.
THEOREM TypeCorrect == Spec => []TypeOK
<1>1. Inv => TypeOK BY DEF Inv
<1> QED BY <1>1, Invariance, PTL

\* Neither name, nor a file moved aside, is ever half written.
THEOREM FilesAreWhole == Spec => []AlwaysWhole
<1>1. Inv => AlwaysWhole BY DEF Inv
<1> QED BY <1>1, Invariance, PTL

\* A file that the remote name had is never lost by a commit that fails.
THEOREM OriginalKept == Spec => []NeverGone
<1>1. Inv => NeverGone BY DEF Inv, Kept, NeverGone
<1> QED BY <1>1, Invariance, PTL

\* A transfer puts its file at the remote name only when nothing is there.
LEMMA RemotePlaced ==
  ASSUME Inv, [Next]_vars, NEW t \in Transfers, target' = t, target # t
  PROVE  target = None
<1>0. t \notin {None, Theirs, Link} BY NameAssumption
<1>1. ASSUME NEW u \in Transfers, Queue(u) \/ Cancel(u) PROVE target = None
  BY <1>1 DEF Queue, Cancel, remoteVars
<1>2. ASSUME NEW u \in Transfers, Execute(u) PROVE target = None
  BY <1>0, <1>2 DEF Execute, Acquire, Look, OpenRemote, OpenLocal, OpenSource, CopyRemote,
     CopyLocal, Recheck, Place, MoveAside, CheckBackup, MoveIn, MovedIn, Rollback, RemoveBackup,
     CleanRemote, CommitLocal, CleanLocal, remoteVars
<1>3. ASSUME NEW c \in {Theirs, Link}, WriteRemote(c) PROVE FALSE
  BY <1>0, <1>3 DEF WriteRemote
<1>4. CASE WriteLocal \/ UNCHANGED vars
  BY <1>4 DEF WriteLocal, vars, remoteVars
<1> QED BY <1>1, <1>2, <1>3, <1>4 DEF Next

\* A transfer that must not overwrite puts its file at the local name only when
\* nothing is there.
LEMMA LocalPlaced ==
  ASSUME Inv, [Next]_vars, NEW t \in Transfers, local' = t, local # t, ~ role[t].overwrite
  PROVE  local = None
<1>0. t # Theirs BY NameAssumption
<1>1. ASSUME NEW u \in Transfers, Queue(u) \/ Cancel(u) PROVE local = None
  BY <1>1 DEF Queue, Cancel, localVars
<1>2. ASSUME NEW u \in Transfers, Execute(u) PROVE local = None
  BY <1>2 DEF Execute, Acquire, Look, OpenRemote, OpenLocal, OpenSource, CopyRemote,
     CopyLocal, Recheck, Place, MoveAside, CheckBackup, MoveIn, Rollback, RemoveBackup,
     CleanRemote, CommitLocal, CleanLocal, localVars
<1>3. ASSUME NEW c \in {Theirs, Link}, WriteRemote(c) PROVE FALSE
  BY <1>3 DEF WriteRemote, localVars
<1>4. CASE WriteLocal \/ UNCHANGED vars
  BY <1>0, <1>4 DEF WriteLocal, vars, localVars
<1> QED BY <1>1, <1>2, <1>3, <1>4 DEF Next

\* Whoever writes the files meanwhile, a transfer that may not overwrite puts
\* its own only where none is.
THEOREM NeverReplaces == Spec => RefuseNeverReplaces
<1>1. ASSUME Inv, [Next]_vars
      PROVE  [\A t \in Transfers : ~ role[t].overwrite =>
               /\ target' = t /\ target # t => target = None
               /\ local' = t /\ local # t => local = None]_vars
  BY <1>1, RemotePlaced, LocalPlaced
<1> QED BY <1>1, Invariance, PTL DEF Spec, RefuseNeverReplaces

(***************************************************************************)
(* The window of a save                                                    *)
(***************************************************************************)

\* What a save that has looked, and one that has moved the file, knows.
SawIt(t) ==
  role[t].kind = "save" =>
    /\ pc[t] = "aside" => target = seen[t]
    /\ pc[t] \in {"check", "movein", "remove"} => backup[t] = seen[t]

\* A step of one transfer leaves what another knows and has aside.
LEMMA OthersFiles ==
  ASSUME Inv, NEW t \in Transfers, Queue(t) \/ Cancel(t) \/ Execute(t), NEW u \in Transfers \ {t}
  PROVE  role' = role /\ pc'[u] = pc[u] /\ seen'[u] = seen[u] /\ backup'[u] = backup[u]
<1>1. role' = role
  BY DEF Queue, Cancel, Execute, Acquire, Look, OpenRemote, OpenLocal, OpenSource, CopyRemote,
     CopyLocal, Recheck, Place, MoveAside, CheckBackup, MoveIn, Rollback, RemoveBackup,
     CleanRemote, CommitLocal, CleanLocal, Still
<1>2. seen'[u] = seen[u]
  BY DEF Inv, TypeOK, Queue, Cancel, Execute, Acquire, Look, OpenRemote, OpenLocal, OpenSource,
     CopyRemote, CopyLocal, Recheck, Place, MoveAside, CheckBackup, MoveIn, Rollback,
     RemoveBackup, CleanRemote, CommitLocal, CleanLocal
<1>3. backup'[u] = backup[u]
  BY DEF Inv, TypeOK, Queue, Cancel, Execute, Acquire, Look, OpenRemote, OpenLocal, OpenSource,
     CopyRemote, CopyLocal, Recheck, Place, MovedIn, MoveAside, CheckBackup, MoveIn, Rollback,
     RemoveBackup, CleanRemote, CommitLocal, CleanLocal, remoteVars
<1>4. pc'[u] = pc[u]
  <2>1. CASE Queue(t) \/ Cancel(t)
    BY <2>1 DEF Inv, TypeOK, Queue, Cancel, Goto
  <2>2. CASE Execute(t)
    BY <2>2 DEF Inv, TypeOK, Execute, Acquire, Look, OpenRemote, OpenLocal, OpenSource, CopyRemote,
       CopyLocal, Recheck, Place, MoveAside, CheckBackup, MoveIn, Rollback, RemoveBackup,
       CleanRemote, CommitLocal, CleanLocal, Goto, Done, FailsTo, Carried
  <2> QED BY <2>1, <2>2
<1> QED BY <1>1, <1>2, <1>3, <1>4

\* A save goes on to the move with the file it has seen, and from the move
\* with that file aside.
LEMMA SaveSteps ==
  ASSUME Inv, NEW t \in Transfers, SawIt(t), role[t].kind = "save",
         Queue(t) \/ Cancel(t) \/ Execute(t)
  PROVE  /\ pc'[t] = "aside" => target' = seen'[t]
         /\ pc'[t] \in {"check", "movein", "remove"} => backup'[t] = seen'[t]
<1> USE DEF Inv, TypeOK, SawIt, Goto, Done, FailsTo, Carried, Answers, remoteVars
<1>1. CASE Queue(t) \/ Cancel(t)
  BY <1>1 DEF Queue, Cancel
<1>2. CASE Acquire(t) \/ Look(t) \/ OpenRemote(t) \/ OpenLocal(t) \/ OpenSource(t)
  BY <1>2 DEF Acquire, Look, OpenRemote, OpenLocal, OpenSource
<1>3. CASE CopyRemote(t) \/ CopyLocal(t)
  BY <1>3 DEF CopyRemote, CopyLocal, Commit
<1>4. CASE Recheck(t)
  BY <1>4 DEF Recheck
<1>5. CASE MoveAside(t)
  BY <1>5 DEF MoveAside
<1>6. CASE CheckBackup(t) \/ Place(t) \/ Rollback(t)
  BY <1>6 DEF CheckBackup, Place, Rollback
<1>7. CASE MoveIn(t) \/ RemoveBackup(t)
  BY <1>7 DEF MoveIn, MovedIn, RemoveBackup
<1>8. CASE CleanRemote(t) \/ CommitLocal(t) \/ CleanLocal(t)
  BY <1>8 DEF CleanRemote, CommitLocal, CleanLocal
<1> QED BY <1>1, <1>2, <1>3, <1>4, <1>5, <1>6, <1>7, <1>8 DEF Execute

\* Every step that respects the window keeps what every save knows.
LEMMA SawItKept ==
  ASSUME Inv, \A t \in Transfers : SawIt(t), [Next /\ MovedAsSeen]_vars, NEW t \in Transfers
  PROVE  SawIt(t)'
<1>1. CASE UNCHANGED vars
  BY <1>1 DEF SawIt, vars, remoteVars
<1>2. ASSUME NEW u \in Transfers, Queue(u) \/ Cancel(u) \/ Execute(u), MovedAsSeen
      PROVE  SawIt(t)'
  <2>1. CASE u = t
    <3>1. role' = role
      BY <1>2 DEF Queue, Cancel, Execute, Acquire, Look, OpenRemote, OpenLocal, OpenSource,
         CopyRemote, CopyLocal, Recheck, Place, MoveAside, CheckBackup, MoveIn, Rollback,
         RemoveBackup, CleanRemote, CommitLocal, CleanLocal, Still
    <3> QED BY <1>2, <2>1, <3>1, SaveSteps DEF SawIt
  <2>2. CASE u # t
    BY <1>2, <2>2, OthersFiles DEF SawIt, MovedAsSeen
  <2> QED BY <2>1, <2>2
<1>3. ASSUME NEW c \in {Theirs, Link}, WriteRemote(c), MovedAsSeen
      PROVE  SawIt(t)'
  BY <1>3 DEF WriteRemote, SawIt, MovedAsSeen
<1>4. CASE WriteLocal
  BY <1>4 DEF WriteLocal, SawIt, remoteVars
<1> QED BY <1>1, <1>2, <1>3, <1>4 DEF Next

\* A save replaces only what the editor had opened, if nobody changes the
\* file between its last look and its move: that window is all there is to
\* the race, failures, cancellations and other writers outside it included.
THEOREM OnlyTheWindow == Spec /\ [][MovedAsSeen]_vars => []SavesWhatItSaw
<1> DEFINE Saw == \A t \in Transfers : SawIt(t)
<1>1. Init => Saw
  BY DEF Init, SawIt
<1>2. Inv /\ Saw /\ [Next]_vars /\ [MovedAsSeen]_vars => Saw'
  BY SawItKept
<1>3. Saw => SavesWhatItSaw
  BY DEF SawIt, SavesWhatItSaw
<1> HIDE DEF Saw
<1> QED BY <1>1, <1>2, <1>3, Invariance, PTL DEF Spec
=============================================================================
