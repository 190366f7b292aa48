---------------------------- MODULE SshTransfers ----------------------------
(***************************************************************************)
(* The SSH service: its queue of file transfers, and what saving, deleting *)
(* and closing a profile does to the transfers and terminals of that       *)
(* profile that are being prepared or run.                                 *)
(*                                                                         *)
(* A transfer is queued as a task with a cancellation handle; the view     *)
(* spawns execute_transfer, which reads the profile, prepares, waits for a *)
(* permit of the driver and copies. Every lock is its own step, so that    *)
(* nothing depends on the thread a call runs on.                           *)
(***************************************************************************)
EXTENDS Naturals, Sequences, FiniteSets

CONSTANTS
  Tasks,          \* identities of transfers
  Profiles,       \* connections
  Calls,          \* calls of save_profile and delete_profile at one time
  Terminals,      \* terminals being opened at one time
  MaxQueued,      \* MAX_QUEUED_TRANSFERS
  MaxHistory,     \* MAX_TRANSFER_HISTORY
  MaxConcurrent,  \* MAX_CONCURRENT_TRANSFERS
  MaxSaves,       \* bound: versions of profiles that are ever stored
  None

ASSUME BoundAssumption ==
  /\ MaxQueued \in Nat \ {0} /\ MaxHistory \in Nat /\ MaxConcurrent \in Nat \ {0}
  /\ MaxSaves \in Nat \ {0}
ASSUME NameAssumption ==
  None \notin Profiles /\ None \notin [profile : Profiles, status : {"waiting", "running", "ended"}]

VARIABLES
  stored,         \* the version of each profile in storage, 0 if there is none
  saves,          \* the newest version
  tasks,          \* the tasks of the transfer panel
  queue,          \* their order
  cancellations,  \* the tasks with a cancellation handle
  cancelled,      \* the handles that are cancelled
  exec,           \* the calls of execute_transfer
  blocked,        \* profiles without terminals
  generation,     \* of the terminal policy, per profile
  call,           \* the calls of save_profile and delete_profile
  term            \* the terminals being opened

transferVars == <<tasks, queue, cancellations, cancelled, exec>>
profileVars == <<stored, saves, blocked, generation, call>>
vars == <<transferVars, profileVars, term>>

Task == [profile : Profiles, status : {"waiting", "running", "ended"}]
Execution == [pc : {"none", "begin", "profile", "prepare", "permit", "copy"},
              profile : Profiles \cup {None}, config : Nat]
LifecycleCall == [pc : {"idle", "advance", "block", "cancel"}, profile : Profiles \cup {None}]
Launching == [pc : {"idle", "profile", "command", "launch"}, profile : Profiles \cup {None},
              config : Nat, generation : Nat]

Ended == [pc |-> "none", profile |-> None, config |-> 0]
NoCall == [pc |-> "idle", profile |-> None]
NoTerminal == [pc |-> "idle", profile |-> None, config |-> 0, generation |-> 0]

Present(ts) == {t \in Tasks : ts[t] # None}
Active(ts) == {t \in Present(ts) : ts[t].status # "ended"}
Finished(ts) == {t \in Present(ts) : ts[t].status = "ended"}
Waiting(ts) == {t \in Present(ts) : ts[t].status = "waiting"}

\* The tasks that somebody executes.
Running == {t \in Tasks : exec[t].pc \in {"profile", "prepare", "permit", "copy"}}

\* The queue keeps its order when tasks leave: the n-th of those that stay is
\* preceded by n - 1 of them.
InOrder(ts) ==
  LET kept == {i \in DOMAIN queue : ts[queue[i]] # None}
  IN [n \in 1 .. Cardinality(kept) |->
        queue[CHOOSE i \in kept : Cardinality({j \in kept : j <= i}) = n]]

At(t) == CHOOSE i \in DOMAIN queue : queue[i] = t
NotOlder(ts, t) == {u \in Finished(ts) : At(u) >= At(t)}

\* prune_history drops the oldest finished tasks over the limit.
Prune(ts) ==
  [t \in Tasks |-> IF t \in Finished(ts) /\ Cardinality(NotOlder(ts, t)) > MaxHistory
                   THEN None ELSE ts[t]]

End(ts, S) == [t \in Tasks |-> IF t \in S THEN [ts[t] EXCEPT !.status = "ended"] ELSE ts[t]]

SetTasks(ts) == tasks' = ts /\ queue' = InOrder(ts)

(***************************************************************************)
(* The transfer queue                                                      *)
(***************************************************************************)

\* Mutant: one task too many.
HasRoomForOneMore == Cardinality(Active(tasks)) <= MaxQueued

HasRoom == Cardinality(Active(tasks)) < MaxQueued

\* Every task is new: any name that nobody knows any more stands for it.
Unused == {t \in Tasks : tasks[t] = None /\ exec[t].pc = "none"}
NewTask == CHOOSE t \in Unused : TRUE

\* A new task, or one that repeats a finished task: only its profile matters.
\* The history is pruned before the task is added, and the view at once
\* spawns its execution.
Enqueue(p) ==
  /\ Unused # {}
  /\ HasRoom
  /\ tasks' = [Prune(tasks) EXCEPT ![NewTask] = [profile |-> p, status |-> "waiting"]]
  /\ queue' = Append(InOrder(Prune(tasks)), NewTask)
  /\ cancellations' = cancellations \cup {NewTask}
  /\ exec' = [exec EXCEPT ![NewTask] = [pc |-> "begin", profile |-> None, config |-> 0]]
  /\ UNCHANGED <<cancelled, profileVars, term>>

\* begin: only a waiting task is run.
Begin(t) ==
  /\ exec[t].pc = "begin"
  /\ \/ /\ t \notin Waiting(tasks)
        /\ exec' = [exec EXCEPT ![t] = Ended]
        /\ UNCHANGED tasks
     \/ /\ t \in Waiting(tasks)
        /\ tasks' = [tasks EXCEPT ![t].status = "running"]
        /\ exec' = [exec EXCEPT ![t] =
             IF t \in cancellations
             THEN [pc |-> "profile", profile |-> tasks[t].profile, config |-> 0]
             ELSE Ended]
  /\ UNCHANGED <<queue, cancellations, cancelled, profileVars, term>>

\* finish: whatever the outcome, the task has ended and its handle is gone. The
\* history is pruned in the order of the queue, so that a task that ends after
\* MaxHistory younger ones does not stay in it at all.
Finish(t) ==
  /\ SetTasks(Prune(End(tasks, {t} \cap Active(tasks))))
  /\ cancellations' = cancellations \ {t}
  /\ cancelled' = cancelled \ {t}
  /\ exec' = [exec EXCEPT ![t] = Ended]
  /\ UNCHANGED <<profileVars, term>>

\* Mutant: a profile that has been deleted is not noticed.
ReadProfileUnchecked(t) ==
  /\ exec[t].pc = "profile"
  /\ exec' = [exec EXCEPT ![t].pc = "prepare", ![t].config = stored[exec[t].profile]]
  /\ UNCHANGED <<tasks, queue, cancellations, cancelled, profileVars, term>>

\* current_profile: the profile as stored now, not as it was when queued. The
\* task ends if there is none, or if it cannot be read.
ReadProfile(t) ==
  /\ exec[t].pc = "profile"
  /\ \/ Finish(t)
     \/ /\ stored[exec[t].profile] # 0
        /\ exec' = [exec EXCEPT ![t].pc = "prepare", ![t].config = stored[exec[t].profile]]
        /\ UNCHANGED <<tasks, queue, cancellations, cancelled, profileVars, term>>

\* Capabilities, path, write checks and the connection: none of these looks
\* at the cancellation, each may fail.
Prepare(t) ==
  /\ exec[t].pc = "prepare"
  /\ \/ Finish(t)
     \/ /\ exec' = [exec EXCEPT ![t].pc = "permit"]
        /\ UNCHANGED <<tasks, queue, cancellations, cancelled, profileVars, term>>

Copying == {t \in Tasks : exec[t].pc = "copy"}

\* The driver copies MaxConcurrent files at a time.
Acquire(t) ==
  /\ exec[t].pc = "permit"
  /\ t \notin cancelled
  /\ Cardinality(Copying) < MaxConcurrent
  /\ exec' = [exec EXCEPT ![t].pc = "copy"]
  /\ UNCHANGED <<tasks, queue, cancellations, cancelled, profileVars, term>>

\* Mutant: the wait for a permit does not look at the cancellation.
NoticesOnlyCopying == {"copy"}

\* Where the cancellation is looked at every 100 ms.
Notices == {"permit", "copy"}

StopsCancelled(t) ==
  /\ exec[t].pc \in Notices
  /\ t \in cancelled
  /\ Finish(t)

CopyEnds(t) ==
  /\ exec[t].pc = "copy"
  /\ Finish(t)

\* Mutant: the handle of a task that was still waiting stays.
CancelTasksKeepingHandles(S) ==
  /\ SetTasks(Prune(End(tasks, S \cap Waiting(tasks))))
  /\ cancelled' = cancelled \cup ((S \ Waiting(tasks)) \cap cancellations)
  /\ UNCHANGED <<cancellations, exec>>

\* Mutant: only the waiting tasks are dealt with.
CancelTasksWaiting(S) ==
  /\ SetTasks(Prune(End(tasks, S \cap Waiting(tasks))))
  /\ cancellations' = cancellations \ (S \cap Waiting(tasks))
  /\ UNCHANGED <<cancelled, exec>>

\* Mutant: running tasks are finished at once, like the waiting ones.
CancelTasksAtOnce(S) ==
  /\ SetTasks(Prune(End(tasks, S \cap Active(tasks))))
  /\ cancellations' = cancellations \ S
  /\ UNCHANGED <<cancelled, exec>>

\* Tasks that wait are finished, those that run are told to stop.
CancelTasks(S) ==
  /\ SetTasks(Prune(End(tasks, S \cap Waiting(tasks))))
  /\ cancellations' = cancellations \ (S \cap Waiting(tasks))
  /\ cancelled' = cancelled \cup ((S \ Waiting(tasks)) \cap cancellations)
  /\ UNCHANGED exec

CancelTransfer(t) ==
  /\ t \in cancellations
  /\ CancelTasks({t})
  /\ UNCHANGED <<profileVars, term>>

ClearFinished ==
  /\ Finished(tasks) # {}
  /\ SetTasks([t \in Tasks |-> IF t \in Finished(tasks) THEN None ELSE tasks[t]])
  /\ UNCHANGED <<cancellations, cancelled, exec, profileVars, term>>

(***************************************************************************)
(* Saving, deleting and closing a profile                                  *)
(***************************************************************************)

OfProfile(p) == {t \in Active(tasks) : tasks[t].profile = p}

\* save_profile stores first,
Save(c, p) ==
  /\ call[c].pc = "idle"
  /\ saves < MaxSaves
  /\ saves' = saves + 1
  /\ stored' = [stored EXCEPT ![p] = saves + 1]
  /\ call' = [call EXCEPT ![c] = [pc |-> "advance", profile |-> p]]
  /\ UNCHANGED <<blocked, generation, transferVars, term>>

\* then ends the generation of its terminals,
Advance(c) ==
  /\ call[c].pc = "advance"
  /\ generation' = [generation EXCEPT ![call[c].profile] = @ + 1]
  /\ call' = [call EXCEPT ![c].pc = "cancel"]
  /\ UNCHANGED <<stored, saves, blocked, transferVars, term>>

\* delete_profile removes first, or finds nothing to remove: a second deletion
\* (bound: MaxSaves) only moves the generation on,
Delete(c, p) ==
  /\ call[c].pc = "idle"
  /\ stored[p] # 0 \/ generation[p] < MaxSaves
  /\ stored' = [stored EXCEPT ![p] = 0]
  /\ call' = [call EXCEPT ![c] = [pc |-> "block", profile |-> p]]
  /\ UNCHANGED <<saves, blocked, generation, transferVars, term>>

\* then allows no terminals any more,
Block(c) ==
  /\ call[c].pc = "block"
  /\ blocked' = blocked \cup {call[c].profile}
  /\ generation' = [generation EXCEPT ![call[c].profile] = @ + 1]
  /\ call' = [call EXCEPT ![c].pc = "cancel"]
  /\ UNCHANGED <<stored, saves, transferVars, term>>

\* and both cancel the transfers. That they then wait for these, 5 s at most,
\* and disconnect, changes nothing here: a copy may end at any time.
CancelProfile(c) ==
  /\ call[c].pc = "cancel"
  /\ CancelTasks(OfProfile(call[c].profile))
  /\ call' = [call EXCEPT ![c] = NoCall]
  /\ UNCHANGED <<stored, saves, blocked, generation, term>>

\* disconnect (a workspace is closed) and shutdown.
Disconnect(p) ==
  /\ OfProfile(p) # {}
  /\ CancelTasks(OfProfile(p))
  /\ UNCHANGED <<profileVars, term>>

Shutdown ==
  /\ Active(tasks) # {}
  /\ CancelTasks(Active(tasks))
  /\ UNCHANGED <<profileVars, term>>

(***************************************************************************)
(* Opening a terminal                                                      *)
(***************************************************************************)

\* terminal_command reads the generation before the profile, and each of its
\* steps may fail.
OpenTerminal(x, p) ==
  /\ term[x].pc = "idle"
  /\ p \notin blocked
  /\ term' = [term EXCEPT ![x] = [pc |-> "profile", profile |-> p, config |-> 0,
                                  generation |-> generation[p]]]
  /\ UNCHANGED <<transferVars, profileVars>>

TerminalProfile(x) ==
  /\ term[x].pc = "profile"
  /\ \/ term' = [term EXCEPT ![x] = NoTerminal]
     \/ /\ stored[term[x].profile] # 0
        /\ term' = [term EXCEPT ![x].pc = "command", ![x].config = stored[term[x].profile]]
  /\ UNCHANGED <<transferVars, profileVars>>

IsCurrent(x) ==
  term[x].profile \notin blocked /\ generation[term[x].profile] = term[x].generation

\* Mutant: the command gets the generation of the moment it is ready.
RecheckRenewed(x) ==
  /\ term[x].pc = "command"
  /\ term' = [term EXCEPT ![x].pc = "launch", ![x].generation = generation[term[x].profile]]
  /\ UNCHANGED <<transferVars, profileVars>>

\* The command is ready, or the driver failed; it is given up if its generation
\* has ended.
Recheck(x) ==
  /\ term[x].pc = "command"
  /\ \/ term' = [term EXCEPT ![x] = NoTerminal]
     \/ IsCurrent(x) /\ term' = [term EXCEPT ![x].pc = "launch"]
  /\ UNCHANGED <<transferVars, profileVars>>

\* The view asks terminal_launch_is_current once more and then starts the
\* terminal, or does not.
Launch(x) ==
  /\ term[x].pc = "launch"
  /\ term' = [term EXCEPT ![x] = NoTerminal]
  /\ UNCHANGED <<transferVars, profileVars>>

(***************************************************************************)
(* The specification                                                       *)
(***************************************************************************)

\* A program that was just started, with its profiles in storage.
Init ==
  /\ stored = [p \in Profiles |-> 1]
  /\ saves = 1
  /\ tasks = [t \in Tasks |-> None]
  /\ queue = <<>>
  /\ cancellations = {}
  /\ cancelled = {}
  /\ exec = [t \in Tasks |-> Ended]
  /\ blocked = {}
  /\ generation = [p \in Profiles |-> 0]
  /\ call = [c \in Calls |-> NoCall]
  /\ term = [x \in Terminals |-> NoTerminal]

Executes(t) == Begin(t) \/ ReadProfile(t) \/ Prepare(t) \/ StopsCancelled(t)
Proceeds(c) == Advance(c) \/ Block(c) \/ CancelProfile(c)

Next ==
  \/ \E t \in Tasks :
       Executes(t) \/ Acquire(t) \/ CopyEnds(t) \/ CancelTransfer(t)
  \/ ClearFinished
  \/ Shutdown
  \/ \E p \in Profiles : Enqueue(p) \/ Disconnect(p)
  \/ \E c \in Calls : Proceeds(c) \/ \E p \in Profiles : Save(c, p) \/ Delete(c, p)
  \/ \E x \in Terminals :
       \/ TerminalProfile(x) \/ Recheck(x) \/ Launch(x)
       \/ \E p \in Profiles : OpenTerminal(x, p)

Spec == Init /\ [][Next]_vars

\* Futures that can go on do, and what cannot be cancelled has a timeout; a
\* copy that nobody cancels may hang, and so may all that wait for its permit.
Fairness ==
  /\ \A t \in Tasks : WF_vars(Executes(t))
  /\ \A c \in Calls : WF_vars(Proceeds(c))
FairSpec == Spec /\ Fairness

(***************************************************************************)
(* Correctness                                                             *)
(***************************************************************************)

\* Every variable has its type, and a prepared transfer has a profile.
TypeOK ==
  /\ stored \in [Profiles -> 0 .. saves] /\ saves \in 1 .. MaxSaves
  /\ tasks \in [Tasks -> Task \cup {None}]
  /\ cancellations \subseteq Tasks /\ cancelled \subseteq Tasks
  /\ exec \in [Tasks -> Execution]
  /\ \A t \in Tasks :
       /\ exec[t].pc \in {"profile", "prepare", "permit", "copy"} <=> exec[t].profile # None
       /\ exec[t].pc \in {"prepare", "permit", "copy"} <=> exec[t].config # 0
  /\ blocked \subseteq Profiles
  /\ generation \in [Profiles -> Nat]
  /\ call \in [Calls -> LifecycleCall]
  /\ \A c \in Calls : call[c].pc = "idle" <=> call[c].profile = None
  /\ term \in [Terminals -> Launching]
  /\ \A x \in Terminals :
       /\ term[x].pc = "idle" <=> term[x].profile = None
       /\ term[x].pc \in {"command", "launch"} <=> term[x].config # 0

\* Exactly the tasks that wait or run can be cancelled: no task loses its
\* handle before it ends, and no handle stays behind.
HandlePerActive == cancellations = Active(tasks)

\* The tasks that are shown as running are those that somebody executes: none
\* is left running for ever, and none that is finished goes on.
RunningIsExecuted ==
  /\ Running = {t \in Active(tasks) : tasks[t].status = "running"}
  /\ \A t \in Running : exec[t].profile = tasks[t].profile
  /\ \A t \in Waiting(tasks) : exec[t].pc = "begin"

\* Queue and history keep to their limits, and the panel lists every task
\* once.
QueueBound ==
  /\ Cardinality(Active(tasks)) <= MaxQueued
  /\ Cardinality(Finished(tasks)) <= MaxHistory
  /\ {queue[i] : i \in DOMAIN queue} = Present(tasks)
  /\ Len(queue) = Cardinality(Present(tasks))

\* Nothing leaves the panel but what the user clears and the oldest of a history
\* that is full without it, by the order in which the tasks were added: tasks
\* that wait or run stay, however old they are.
OldestPruned ==
  [][\A t \in Present(tasks) : tasks'[t] = None =>
       \/ ClearFinished
       \/ Cardinality({u \in Finished(tasks') : u \in Present(tasks) /\ At(u) > At(t)}) = MaxHistory]_vars

\* A save or delete of p that has not come to the step yet.
Before(p, pcs) == \E c \in Calls : call[c].profile = p /\ call[c].pc \in pcs

IsStale(t) == exec[t].config # 0 /\ exec[t].config # stored[exec[t].profile]

\* A transfer that goes on with a profile that has been saved or deleted
\* since is told to stop, by the time that call has come to its transfers.
StaleTransferCancelled ==
  \A t \in Tasks :
    IsStale(t) => t \in cancelled \/ Before(exec[t].profile, {"advance", "block", "cancel"})

\* A terminal that may be started belongs to the profile as it is stored,
\* unless a save or delete is just between storing and the terminal policy.
NoStaleTerminal ==
  \A x \in Terminals :
    term[x].pc = "launch" /\ IsCurrent(x) /\ term[x].config # stored[term[x].profile]
    => Before(term[x].profile, {"advance", "block"})

\* A transfer that is cancelled, or whose profile has been changed, comes to
\* an end, even if all permits are held by copies that hang.
StopsInTheEnd ==
  \A t \in Tasks : (t \in cancelled \/ IsStale(t)) ~> t \notin Running
=============================================================================
