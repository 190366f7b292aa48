--------------------------- MODULE TransferEngine ---------------------------
(***************************************************************************)
(* The transfer engine over SFTP: uploads, saves of the remote editor,     *)
(* downloads of files and of directories. All of them write a temporary    *)
(* file first and commit it by renames (transfer.rs, transfer/commit.rs).  *)
(*                                                                         *)
(* The transfers are after one remote and one local file. Each request to  *)
(* the server is an action: it is answered, or fails before or after the   *)
(* server has carried it out, and the link may be lost with it.            *)
(***************************************************************************)
EXTENDS Naturals, FiniteSets

CONSTANTS
  Transfers,
  MaxConcurrent,  \* MAX_CONCURRENT_TRANSFERS
  MaxChanges,     \* bound: files written by others
  None,
  Part,           \* a file half written
  Old, Theirs,    \* files there at first, and written by others
  Link            \* what is no regular file

ASSUME NameAssumption ==
  /\ None \notin Transfers \cup {Part, Old, Theirs, Link}
  /\ Part \notin Transfers \cup {Old, Theirs, Link}
  /\ Link \notin Transfers \cup {Old, Theirs}
  /\ Old \notin Transfers /\ Theirs \notin Transfers
ASSUME BoundAssumption == MaxConcurrent \in Nat \ {0} /\ MaxChanges \in Nat

VARIABLES
  role,       \* what each transfer is, and if it may overwrite
  pc,         \* what it does next
  result,
  asked,      \* transfers the user has cancelled
  lost,       \* transfers whose link is gone
  seen,       \* the target as an upload, or the editor, found it
  target,     \* the remote file; the content of a transfer is its name
  temp,       \* remote temporary file of each transfer
  backup,     \* the file each transfer has moved aside
  local,      \* the local file
  localTemp,  \* local temporary file of each transfer
  changes     \* by others so far

remoteVars == <<target, temp, backup>>
localVars == <<local, localTemp>>
vars == <<role, pc, result, asked, lost, seen, remoteVars, localVars, changes>>

Kinds == {"upload", "save", "download", "archive"}
Roles == [kind : Kinds \ {"save"}, overwrite : BOOLEAN] \cup [kind : {"save"}, overwrite : {TRUE}]
Whole == Transfers \cup {Old, Theirs}
Steps == {"idle", "queued", "look", "open", "source", "copy", "recheck", "place", "aside", "check",
          "movein", "rollback", "remove", "clean", "local", "cleanlocal", "over"}

Waiting == {"idle", "queued", "over"}
IsRemote(t) == role[t].kind \in {"upload", "save"}

Goto(t, step) ==
  /\ pc' = [pc EXCEPT ![t] = step]
  /\ result' = IF step = "over" THEN [result EXCEPT ![t] = "failed"] ELSE result

Done(t) ==
  /\ pc' = [pc EXCEPT ![t] = "over"]
  /\ result' = [result EXCEPT ![t] = "done"]

\* A request fails; the link may be lost with it.
FailsTo(t, step) ==
  /\ Goto(t, step)
  /\ lost' = lost \/ lost' = lost \cup {t}

Answers(t) == t \notin lost /\ UNCHANGED lost

\* What the server has carried out may be reported as failed: the answer is
\* lost, or comes too late.
Carried(t, next, otherwise) ==
  t \notin lost /\ ((Goto(t, next) /\ UNCHANGED lost) \/ FailsTo(t, otherwise))

Still == UNCHANGED <<role, asked, changes>>

(***************************************************************************)
(* Before the transfer                                                     *)
(***************************************************************************)

\* A transfer is queued; the editor has the file that it is going to save.
Queue(t) ==
  /\ pc[t] = "idle"
  /\ IF role[t].kind = "save"
     THEN target \in Whole /\ seen' = [seen EXCEPT ![t] = target]
     ELSE UNCHANGED seen
  /\ Goto(t, "queued")
  /\ UNCHANGED <<lost, remoteVars, localVars>> /\ Still

Cancel(t) ==
  /\ role[t].kind # "save"
  /\ pc[t] \notin {"idle", "over"}
  /\ t \notin asked
  /\ asked' = asked \cup {t}
  /\ UNCHANGED <<role, pc, result, lost, seen, remoteVars, localVars, changes>>

\* acquire_permit.
Acquire(t) ==
  /\ pc[t] = "queued"
  /\ \/ t \in asked /\ Goto(t, "over")
     \/ /\ t \notin asked
        /\ Cardinality({u \in Transfers : pc[u] \notin Waiting}) < MaxConcurrent
        /\ Goto(t, "look")
  /\ UNCHANGED <<lost, seen, remoteVars, localVars>> /\ Still

\* Mutant: an upload does not look what the target is.
RefusedIfThere(t) ==
  CASE role[t].kind = "upload" -> target # None /\ ~ role[t].overwrite
    [] role[t].kind = "save" -> target # seen[t]
    [] role[t].kind = "download" -> target \in {None, Link} \/ (local # None /\ ~ role[t].overwrite)
    [] role[t].kind = "archive" -> local # None /\ ~ role[t].overwrite

\* What is refused as things stand.
Refused(t) ==
  CASE role[t].kind = "upload" -> target = Link \/ (target # None /\ ~ role[t].overwrite)
    [] role[t].kind = "save" -> target # seen[t]
    [] role[t].kind = "download" -> target \in {None, Link} \/ (local # None /\ ~ role[t].overwrite)
    [] role[t].kind = "archive" -> local # None /\ ~ role[t].overwrite

Look(t) ==
  /\ pc[t] = "look"
  /\ \/ /\ t \notin asked /\ Answers(t) /\ ~ Refused(t)
        /\ seen' = IF role[t].kind = "upload" THEN [seen EXCEPT ![t] = target] ELSE seen
        /\ Goto(t, "open")
     \/ /\ Refused(t) /\ Answers(t)
        /\ Goto(t, "over")
        /\ UNCHANGED seen
     \/ /\ FailsTo(t, "over")
        /\ UNCHANGED seen
  /\ UNCHANGED <<remoteVars, localVars>> /\ Still

(***************************************************************************)
(* Temporary files                                                         *)
(***************************************************************************)

\* If this fails the temporary file is left, if there is one: its name is not
\* used again.
OpenRemote(t) ==
  /\ pc[t] = "open" /\ IsRemote(t)
  /\ \/ /\ t \notin asked
        /\ temp' = [temp EXCEPT ![t] = Part]
        /\ Carried(t, "copy", "over")
     \/ /\ FailsTo(t, "over")
        /\ UNCHANGED temp
  /\ UNCHANGED <<seen, target, backup, localVars>> /\ Still

\* A directory is scanned before, a file opened after.
OpenLocal(t) ==
  /\ pc[t] = "open" /\ ~ IsRemote(t)
  /\ \/ /\ localTemp' = [localTemp EXCEPT ![t] = Part]
        /\ Goto(t, IF role[t].kind = "archive" THEN "copy" ELSE "source")
        /\ UNCHANGED lost
     \/ /\ FailsTo(t, "over")
        /\ UNCHANGED localTemp
  /\ UNCHANGED <<seen, remoteVars, local>> /\ Still

\* A cancellation now leaves the local temporary file.
OpenSource(t) ==
  /\ pc[t] = "source"
  /\ \/ t \notin asked /\ Answers(t) /\ Goto(t, "copy")
     \/ t \in asked /\ Goto(t, "over") /\ UNCHANGED lost
     \/ FailsTo(t, "cleanlocal")
  /\ UNCHANGED <<seen, remoteVars, localVars>> /\ Still

\* How an upload or a save goes on with its temporary file complete.
Commit(t) ==
  IF role[t].kind = "save" THEN "recheck" ELSE IF seen[t] = None THEN "place" ELSE "aside"

\* Mutant: the size of what was copied is not compared.
CopyRemoteUnchecked(t) ==
  /\ pc[t] = "copy" /\ IsRemote(t)
  /\ temp' = [temp EXCEPT ![t] = t] \/ UNCHANGED temp
  /\ Carried(t, Commit(t), "clean")
  /\ UNCHANGED <<seen, target, backup, localVars>> /\ Still

\* Write, fsync, close; the size is that at the beginning, and nobody has
\* cancelled.
CopyRemote(t) ==
  /\ pc[t] = "copy" /\ IsRemote(t)
  /\ \/ /\ t \notin asked
        /\ temp' = [temp EXCEPT ![t] = t]
        /\ Carried(t, Commit(t), "clean")
     \/ /\ FailsTo(t, "clean")
        /\ UNCHANGED temp
  /\ UNCHANGED <<seen, target, backup, localVars>> /\ Still

CopyLocal(t) ==
  /\ pc[t] = "copy" /\ ~ IsRemote(t)
  /\ \/ /\ t \notin asked /\ Answers(t)
        /\ localTemp' = [localTemp EXCEPT ![t] = t]
        /\ Goto(t, "local")
     \/ /\ FailsTo(t, "cleanlocal")
        /\ UNCHANGED localTemp
  /\ UNCHANGED <<seen, remoteVars, local>> /\ Still

(***************************************************************************)
(* Commit                                                                  *)
(***************************************************************************)

\* A save compares once more with what the editor had opened.
Recheck(t) ==
  /\ pc[t] = "recheck"
  /\ \/ target = seen[t] /\ Answers(t) /\ Goto(t, "aside")
     \/ FailsTo(t, "clean")
  /\ UNCHANGED <<seen, remoteVars, localVars>> /\ Still

\* The server renames only to a name that is free.
MovedIn(t) ==
  /\ target = None
  /\ target' = temp[t] /\ temp' = [temp EXCEPT ![t] = None]
  /\ UNCHANGED backup

\* Where no file was.
Place(t) ==
  /\ pc[t] = "place"
  /\ \/ MovedIn(t) /\ Answers(t) /\ Done(t)
     \/ MovedIn(t) /\ t \notin lost /\ FailsTo(t, "clean")
     \/ UNCHANGED remoteVars /\ FailsTo(t, "clean")
  /\ UNCHANGED <<seen, localVars>> /\ Still

\* Where a file was it is moved aside. If that fails it is not moved back.
MoveAside(t) ==
  /\ pc[t] = "aside"
  /\ \/ /\ target # None
        /\ backup' = [backup EXCEPT ![t] = target] /\ target' = None
        /\ UNCHANGED temp
        /\ Carried(t, "check", "clean")
     \/ UNCHANGED remoteVars /\ FailsTo(t, "clean")
  /\ UNCHANGED <<seen, localVars>> /\ Still

\* Mutant: the old file is removed before the new one has its place.
CheckBackupRemoving(t) ==
  /\ pc[t] = "check"
  /\ Answers(t) /\ Goto(t, "movein")
  /\ backup' = [backup EXCEPT ![t] = None]
  /\ UNCHANGED <<seen, target, temp, localVars>> /\ Still

\* What was moved is looked at,
CheckBackup(t) ==
  /\ pc[t] = "check"
  /\ \/ Answers(t) /\ Goto(t, IF backup[t] = Link THEN "rollback" ELSE "movein")
     \/ FailsTo(t, "rollback")
  /\ UNCHANGED <<seen, remoteVars, localVars>> /\ Still

MoveIn(t) ==
  /\ pc[t] = "movein"
  /\ \/ MovedIn(t) /\ Carried(t, "remove", "rollback")
     \/ UNCHANGED remoteVars /\ FailsTo(t, "rollback")
  /\ UNCHANGED <<seen, localVars>> /\ Still

\* Mutant: it is tried again until it is moved back.
RollbackAgain(t) ==
  /\ pc[t] = "rollback"
  /\ \/ /\ target = None /\ t \notin lost
        /\ target' = backup[t] /\ backup' = [backup EXCEPT ![t] = None]
        /\ UNCHANGED temp
        /\ Goto(t, "clean") /\ UNCHANGED lost
     \/ UNCHANGED remoteVars /\ FailsTo(t, "rollback")
  /\ UNCHANGED <<seen, localVars>> /\ Still

\* and moved back if it was no file, or the new file did not get its place.
Rollback(t) ==
  /\ pc[t] = "rollback"
  /\ \/ /\ target = None
        /\ target' = backup[t] /\ backup' = [backup EXCEPT ![t] = None]
        /\ UNCHANGED temp
        /\ Carried(t, "clean", "clean")
     \/ UNCHANGED remoteVars /\ FailsTo(t, "clean")
  /\ UNCHANGED <<seen, localVars>> /\ Still

\* The transfer is a failure, though the new file is in place, if this fails.
RemoveBackup(t) ==
  /\ pc[t] = "remove"
  /\ \/ backup' = [backup EXCEPT ![t] = None] /\ Answers(t) /\ Done(t)
     \/ backup' = [backup EXCEPT ![t] = None] /\ t \notin lost /\ FailsTo(t, "clean")
     \/ UNCHANGED backup /\ FailsTo(t, "clean")
  /\ UNCHANGED <<target, temp>>
  /\ UNCHANGED <<seen, localVars>> /\ Still

\* cleanup_remote. Its own failure is only logged.
CleanRemote(t) ==
  /\ pc[t] = "clean"
  /\ \/ t \notin lost /\ temp' = [temp EXCEPT ![t] = None] /\ FailsTo(t, "over")
     \/ UNCHANGED temp /\ FailsTo(t, "over")
  /\ UNCHANGED <<seen, target, backup, localVars>> /\ Still

\* Mutant: both policies rename.
CommitLocalRenaming(t) ==
  /\ pc[t] = "local"
  /\ local' = t /\ localTemp' = [localTemp EXCEPT ![t] = None] /\ Done(t)
  /\ UNCHANGED <<lost, seen, remoteVars>> /\ Still

\* A rename replaces the local file; a transfer that must not makes a hard link,
\* which fails if there is one, and removes the temporary file.
CommitLocal(t) ==
  /\ pc[t] = "local"
  /\ \/ /\ t \notin asked
        /\ role[t].overwrite \/ local = None
        /\ local' = t /\ localTemp' = [localTemp EXCEPT ![t] = None] /\ Done(t)
     \/ /\ t \notin asked
        /\ ~ role[t].overwrite /\ local = None
        /\ local' = t
        /\ Goto(t, "cleanlocal") /\ UNCHANGED localTemp
     \/ Goto(t, "cleanlocal") /\ UNCHANGED localVars
  /\ UNCHANGED <<lost, seen, remoteVars>> /\ Still

CleanLocal(t) ==
  /\ pc[t] = "cleanlocal"
  /\ localTemp' = [localTemp EXCEPT ![t] = None] \/ UNCHANGED localTemp
  /\ Goto(t, "over")
  /\ UNCHANGED <<lost, seen, remoteVars, local>> /\ Still

(***************************************************************************)
(* Others                                                                  *)
(***************************************************************************)

WriteRemote(c) ==
  /\ changes < MaxChanges
  /\ target' = c
  /\ changes' = changes + 1
  /\ UNCHANGED <<role, pc, result, asked, lost, seen, temp, backup, localVars>>

WriteLocal ==
  /\ changes < MaxChanges
  /\ local' = Theirs
  /\ changes' = changes + 1
  /\ UNCHANGED <<role, pc, result, asked, lost, seen, remoteVars, localTemp>>

(***************************************************************************)
(* The specification                                                       *)
(***************************************************************************)

Init ==
  /\ role \in [Transfers -> Roles]
  /\ pc = [t \in Transfers |-> "idle"]
  /\ result = [t \in Transfers |-> "none"]
  /\ asked = {} /\ lost = {}
  /\ seen = [t \in Transfers |-> None]
  /\ target \in {None, Old} /\ local \in {None, Old}
  /\ temp = [t \in Transfers |-> None]
  /\ backup = [t \in Transfers |-> None]
  /\ localTemp = [t \in Transfers |-> None]
  /\ changes = 0

Execute(t) ==
  \/ Acquire(t) \/ Look(t) \/ OpenRemote(t) \/ OpenLocal(t) \/ OpenSource(t)
  \/ CopyRemote(t) \/ CopyLocal(t) \/ Recheck(t) \/ Place(t) \/ MoveAside(t) \/ CheckBackup(t)
  \/ MoveIn(t) \/ Rollback(t) \/ RemoveBackup(t) \/ CleanRemote(t) \/ CommitLocal(t) \/ CleanLocal(t)

Next ==
  \/ \E t \in Transfers : Queue(t) \/ Cancel(t) \/ Execute(t)
  \/ \E c \in {Theirs, Link} : WriteRemote(c)
  \/ WriteLocal

Spec == Init /\ [][Next]_vars

\* Every request is answered or times out, and a permit is given to whoever
\* waits.
Fairness == \A t \in Transfers : WF_vars(Execute(t))
FairSpec == Spec /\ Fairness

(***************************************************************************)
(* Correctness                                                             *)
(***************************************************************************)

\* Every variable has its type.
TypeOK ==
  /\ role \in [Transfers -> Roles]
  /\ pc \in [Transfers -> Steps]
  /\ result \in [Transfers -> {"none", "done", "failed"}]
  /\ asked \subseteq Transfers /\ lost \subseteq Transfers
  /\ seen \in [Transfers -> Whole \cup {None}]
  /\ target \in Whole \cup {None, Part, Link}
  /\ temp \in [Transfers -> Transfers \cup {None, Part}]
  /\ backup \in [Transfers -> Whole \cup {None, Part, Link}]
  /\ local \in Whole \cup {None, Part}
  /\ localTemp \in [Transfers -> Transfers \cup {None, Part}]
  /\ changes \in 0 .. MaxChanges

\* Neither file is ever half written, whatever fails and whoever cancels.
AlwaysWhole == target # Part /\ local # Part /\ \A t \in Transfers : backup[t] # Part

\* "The temporary target and the commit keep a failure from destroying the
\* original": a file that the remote name had is found there, or beside it.
NeverGone ==
  (\E t \in Transfers : seen[t] # None) =>
    target # None \/ \E t \in Transfers : backup[t] # None

\* A transfer that may not overwrite puts its file only where none is, also if
\* one has come there since it looked.
RefuseNeverReplaces ==
  [][\A t \in Transfers : ~ role[t].overwrite =>
       /\ target' = t /\ target # t => target = None
       /\ local' = t /\ local # t => local = None]_vars

\* A save replaces only what the editor had opened: "the remote file has
\* changed, please open it again before you save".
SavesWhatItSaw ==
  \A t \in Transfers : role[t].kind = "save" /\ pc[t] = "remove" => backup[t] = seen[t]

\* Nobody changes the file between a save's last look and its move: the
\* window that the rename of the commit leaves open.
MovedAsSeen ==
  \A t \in Transfers :
    role[t].kind = "save" /\ pc[t] = "aside" /\ pc'[t] = "aside" => target' = target

\* Every transfer ends.
EveryTransferEnds == \A t \in Transfers : pc[t] = "queued" ~> pc[t] = "over"
=============================================================================
