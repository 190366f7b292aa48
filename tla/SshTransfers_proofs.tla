------------------------ MODULE SshTransfers_proofs ------------------------
(***************************************************************************)
(* Proofs about SshTransfers, for any number of tasks, profiles, calls and *)
(* terminals and any limits of queue and history.                          *)
(*                                                                         *)
(* First what the operators on the task list keep, then what the actions   *)
(* do to the task list, the executions, the calls and the terminals, and   *)
(* from these effects the invariants.                                      *)
(***************************************************************************)
EXTENDS SshTransfers, TLAPS

TaskList == [Tasks -> Task \cup {None}]

LEMMA NoneIsNoTask == None \notin Task /\ None \notin Profiles
BY NameAssumption DEF Task

(***************************************************************************)
(* The task list                                                           *)
(***************************************************************************)

\* prune_history loses finished tasks only.
LEMMA PruneKeeps ==
  ASSUME NEW ts \in TaskList
  PROVE  /\ Prune(ts) \in TaskList
         /\ Active(Prune(ts)) = Active(ts)
         /\ \A t \in Active(ts) : Prune(ts)[t] = ts[t]
         /\ \A t \in Tasks : ts[t] = None => Prune(ts)[t] = None
<1>1. \A t \in Tasks : Prune(ts)[t] = None \/ Prune(ts)[t] = ts[t]
  BY DEF Prune
<1>2. \A t \in Active(ts) : Prune(ts)[t] = ts[t]
  BY DEF Prune, Active, Present, Finished
<1>3. Prune(ts) \in TaskList
  BY DEF Prune, TaskList
<1>4. Active(Prune(ts)) = Active(ts)
  BY <1>1, <1>2 DEF Active, Present
<1>5. QED
  BY <1>1, <1>2, <1>3, <1>4

\* Ending the tasks of S takes these, and no others, out of the active ones.
LEMMA EndKeeps ==
  ASSUME NEW ts \in TaskList, NEW S \in SUBSET Active(ts)
  PROVE  /\ End(ts, S) \in TaskList
         /\ Active(End(ts, S)) = Active(ts) \ S
         /\ \A t \in Tasks \ S : End(ts, S)[t] = ts[t]
<1>1. \A t \in S : t \in Tasks /\ ts[t] \in Task
  BY DEF Active, Present, TaskList
<1>2. \A t \in S : [ts[t] EXCEPT !.status = "ended"] \in Task
                   /\ [ts[t] EXCEPT !.status = "ended"].status = "ended"
  BY <1>1 DEF Task
<1>3. End(ts, S) \in TaskList
  BY <1>2 DEF End, TaskList
<1>4. \A t \in Tasks \ S : End(ts, S)[t] = ts[t]
  BY DEF End
<1>5. \A t \in S : End(ts, S)[t].status = "ended"
  BY <1>1, <1>2 DEF End
<1>6. Active(End(ts, S)) = Active(ts) \ S
  BY <1>1, <1>4, <1>5 DEF Active, Present
<1>7. QED
  BY <1>3, <1>4, <1>6

\* The tasks of S end, the other active ones stay as they are.
Retires(S) ==
  /\ tasks' \in TaskList
  /\ Active(tasks') = Active(tasks) \ S
  /\ \A t \in Active(tasks') : tasks'[t] = tasks[t]

LEMMA RetireEffect ==
  ASSUME tasks \in TaskList, NEW S \in SUBSET Active(tasks), SetTasks(Prune(End(tasks, S)))
  PROVE  Retires(S)
<1> DEFINE es == End(tasks, S)
<1>1. /\ es \in TaskList
      /\ Active(es) = Active(tasks) \ S
      /\ \A t \in Tasks \ S : es[t] = tasks[t]
  BY EndKeeps
<1> HIDE DEF es
<1>2. /\ Prune(es) \in TaskList
      /\ Active(Prune(es)) = Active(es)
      /\ \A t \in Active(es) : Prune(es)[t] = es[t]
  BY <1>1, PruneKeeps
<1>3. tasks' = Prune(es)
  BY DEF SetTasks, es
<1>4. Active(es) \subseteq Tasks \ S
  BY <1>1 DEF Active, Present
<1>5. QED
  BY <1>1, <1>2, <1>3, <1>4 DEF Retires

(***************************************************************************)
(* Tasks and their executions                                              *)
(***************************************************************************)

TasksType ==
  tasks \in TaskList /\ cancellations \subseteq Tasks /\ cancelled \subseteq Tasks

ExecType ==
  /\ exec \in [Tasks -> Execution]
  /\ \A t \in Tasks :
       /\ exec[t].pc \in {"profile", "prepare", "permit", "copy"} <=> exec[t].profile # None
       /\ exec[t].pc \in {"prepare", "permit", "copy"} <=> exec[t].config # 0

TransferInv == TasksType /\ ExecType /\ HandlePerActive /\ RunningIsExecuted

\* Only the execution of t changes, to e.
ExecBecomes(t, e) ==
  /\ exec' \in [Tasks -> Execution]
  /\ exec'[t] = e
  /\ \A u \in Tasks : u # t => exec'[u] = exec[u]

LEMMA ExecEffect ==
  ASSUME ExecType, NEW t \in Tasks, NEW e \in Execution, exec' = [exec EXCEPT ![t] = e]
  PROVE  ExecBecomes(t, e)
BY DEF ExecType, ExecBecomes

\* What is active is a task that waits or runs.
LEMMA ActiveTask ==
  ASSUME TasksType, NEW t \in Active(tasks)
  PROVE  t \in Tasks /\ tasks[t] \in Task /\ tasks[t] # None
BY DEF Active, Present, TasksType, TaskList

LEMMA EndedExecution == Ended \in Execution /\ Ended.pc = "none" /\ Ended.profile = None /\ Ended.config = 0
BY DEF Ended, Execution

\* Enqueue adds a waiting task with a handle and an execution to come.
LEMMA EnqueueKeeps ==
  ASSUME TransferInv, NEW p \in Profiles, Enqueue(p)
  PROVE  TransferInv'
<1> DEFINE k == NewTask
           e == [pc |-> "begin", profile |-> None, config |-> 0]
           n == [profile |-> p, status |-> "waiting"]
<1>1. k \in Tasks /\ tasks[k] = None /\ exec[k].pc = "none"
  <2>1. NewTask \in Unused
    BY DEF Enqueue, NewTask
  <2>2. QED
    BY <2>1 DEF Unused
<1>2. n \in Task /\ n.status = "waiting" /\ n # None
  BY NoneIsNoTask DEF Task
<1>3. e \in Execution /\ e.pc = "begin" /\ e.profile = None /\ e.config = 0
  BY DEF Execution
<1>4. /\ tasks' = [Prune(tasks) EXCEPT ![k] = n]
      /\ cancellations' = cancellations \cup {k}
      /\ cancelled' = cancelled
      /\ exec' = [exec EXCEPT ![k] = e]
  BY DEF Enqueue
<1> HIDE DEF k, e, n
<1>5. /\ Prune(tasks) \in TaskList
      /\ Active(Prune(tasks)) = Active(tasks)
      /\ \A t \in Active(tasks) : Prune(tasks)[t] = tasks[t]
  BY PruneKeeps DEF TransferInv, TasksType
<1>6. k \notin Active(tasks)
  BY <1>1 DEF Active, Present
<1>7. /\ tasks' \in TaskList
      /\ tasks'[k] = n
      /\ \A t \in Tasks : t # k => tasks'[t] = Prune(tasks)[t]
  BY <1>1, <1>2, <1>4, <1>5 DEF TaskList
<1>8. Active(tasks') = Active(tasks) \cup {k}
  BY <1>1, <1>2, <1>5, <1>7 DEF Active, Present
<1>9. \A t \in Active(tasks) : tasks'[t] = tasks[t]
  BY <1>5, <1>6, <1>7 DEF Active, Present
<1>10. ExecBecomes(k, e)
  BY <1>1, <1>3, <1>4, ExecEffect DEF TransferInv
<1>11. TasksType' /\ HandlePerActive'
  BY <1>1, <1>4, <1>7, <1>8 DEF TransferInv, TasksType, HandlePerActive
<1>12. ExecType'
  BY <1>1, <1>3, <1>10 DEF TransferInv, ExecType, ExecBecomes
<1>13. Running' = Running
  BY <1>1, <1>3, <1>10 DEF Running, ExecBecomes
<1>14. {t \in Active(tasks') : tasks'[t].status = "running"} = {t \in Active(tasks) : tasks[t].status = "running"}
  BY <1>2, <1>7, <1>8, <1>9
<1>15. \A t \in Running : t # k /\ exec'[t] = exec[t] /\ tasks'[t] = tasks[t]
  BY <1>1, <1>9, <1>10 DEF ExecBecomes, Running, TransferInv, RunningIsExecuted
<1>16. \A t \in Waiting(tasks') : exec'[t].pc = "begin"
  <2> SUFFICES ASSUME NEW t \in Waiting(tasks')
               PROVE  exec'[t].pc = "begin"
    OBVIOUS
  <2>1. t \in Active(tasks') /\ t \in Tasks /\ tasks'[t].status = "waiting"
    BY DEF Waiting, Active, Present
  <2>2. CASE t = k
    BY <2>2, <1>3, <1>10 DEF ExecBecomes
  <2>3. CASE t # k
    <3>1. t \in Active(tasks) /\ tasks[t].status = "waiting"
      BY <2>1, <2>3, <1>8, <1>9
    <3>2. t \in Waiting(tasks)
      BY <3>1 DEF Waiting, Active
    <3>3. QED
      BY <2>1, <2>3, <3>2, <1>10 DEF ExecBecomes, TransferInv, RunningIsExecuted
  <2>4. QED
    BY <2>2, <2>3
<1>17. RunningIsExecuted'
  BY <1>13, <1>14, <1>15, <1>16 DEF TransferInv, RunningIsExecuted
<1>18. QED
  BY <1>11, <1>12, <1>17 DEF TransferInv

\* begin gives up, or makes the task one that runs and is executed.
LEMMA BeginKeeps ==
  ASSUME TransferInv, NEW t \in Tasks, Begin(t)
  PROVE  TransferInv'
<1>0. exec[t].pc = "begin" /\ exec[t].profile = None /\ exec[t].config = 0
  BY DEF Begin, TransferInv, ExecType
<1>1. CASE t \notin Waiting(tasks)
  <2>1. tasks' = tasks /\ cancellations' = cancellations /\ cancelled' = cancelled
        /\ exec' = [exec EXCEPT ![t] = Ended]
    BY <1>1 DEF Begin
  <2>2. ExecBecomes(t, Ended)
    BY <2>1, ExecEffect, EndedExecution DEF TransferInv
  <2>3. TasksType' /\ HandlePerActive'
    BY <2>1 DEF TransferInv, TasksType, HandlePerActive
  <2>4. ExecType'
    BY <2>2, EndedExecution DEF TransferInv, ExecType, ExecBecomes
  <2>5. Running' = Running
    BY <1>0, <2>2, EndedExecution DEF Running, ExecBecomes
  <2>6. \A u \in Running : exec'[u] = exec[u]
    BY <1>0, <2>2 DEF Running, ExecBecomes
  <2>7. Waiting(tasks) \subseteq Tasks
    BY DEF Waiting, Present
  <2>8. RunningIsExecuted'
    BY <1>1, <2>1, <2>2, <2>5, <2>6, <2>7 DEF TransferInv, RunningIsExecuted, ExecBecomes
  <2>9. QED
    BY <2>3, <2>4, <2>8 DEF TransferInv
<1>2. CASE t \in Waiting(tasks)
  <2> DEFINE e == [pc |-> "profile", profile |-> tasks[t].profile, config |-> 0]
             n == [tasks[t] EXCEPT !.status = "running"]
  <2>1. t \in Active(tasks) /\ tasks[t] \in Task /\ tasks[t].status = "waiting"
    BY <1>2 DEF Waiting, Active, Present, TransferInv, TasksType, TaskList
  <2>2. t \in cancellations
    BY <2>1 DEF TransferInv, HandlePerActive
  <2>3. e \in Execution /\ e.pc = "profile" /\ e.profile = tasks[t].profile
        /\ e.profile # None /\ e.config = 0
    BY <2>1, NoneIsNoTask DEF Execution, Task
  <2>4. n \in Task /\ n.status = "running" /\ n.profile = tasks[t].profile /\ n # None
    BY <2>1, NoneIsNoTask DEF Task
  <2>5. tasks' = [tasks EXCEPT ![t] = n] /\ exec' = [exec EXCEPT ![t] = e]
        /\ cancellations' = cancellations /\ cancelled' = cancelled
    BY <1>2, <2>2 DEF Begin
  <2> HIDE DEF e, n
  <2>6. ExecBecomes(t, e)
    BY <2>3, <2>5, ExecEffect DEF TransferInv
  <2>7. tasks' \in TaskList /\ tasks'[t] = n /\ \A u \in Tasks : u # t => tasks'[u] = tasks[u]
    BY <2>4, <2>5 DEF TransferInv, TasksType, TaskList
  <2>8. Active(tasks') = Active(tasks)
    BY <2>1, <2>4, <2>7 DEF Active, Present
  <2>9. TasksType' /\ HandlePerActive'
    BY <2>5, <2>7, <2>8 DEF TransferInv, TasksType, HandlePerActive
  <2>10. ExecType'
    BY <2>3, <2>6 DEF TransferInv, ExecType, ExecBecomes
  <2>11. Running' = Running \cup {t}
    BY <2>3, <2>6 DEF Running, ExecBecomes
  <2>12. {u \in Active(tasks') : tasks'[u].status = "running"}
         = {u \in Active(tasks) : tasks[u].status = "running"} \cup {t}
    BY <2>1, <2>4, <2>7, <2>8 DEF Active, Present
  <2>13. \A u \in Running' : exec'[u].profile = tasks'[u].profile
    BY <2>3, <2>4, <2>6, <2>7, <2>11 DEF ExecBecomes, Running, TransferInv, RunningIsExecuted
  <2>14. \A u \in Waiting(tasks') : u \in Waiting(tasks) /\ u # t
    BY <2>4, <2>7 DEF Waiting, Present
  <2>15. \A u \in Waiting(tasks') : exec'[u].pc = "begin"
    BY <2>6, <2>14 DEF ExecBecomes, TransferInv, RunningIsExecuted, Waiting, Present
  <2>16. RunningIsExecuted'
    BY <2>11, <2>12, <2>13, <2>15 DEF TransferInv, RunningIsExecuted
  <2>17. QED
    BY <2>9, <2>10, <2>16 DEF TransferInv
<1>3. QED
  BY <1>1, <1>2

\* Tasks that end without an execution are those that waited: the others, and
\* what executes them, stay.
LEMMA RetireWaitingKeeps ==
  ASSUME TransferInv, NEW S \in SUBSET Waiting(tasks), Retires(S),
         exec' = exec, cancellations' = cancellations \ S, cancelled' \subseteq Tasks
  PROVE  TransferInv'
<1>1. TasksType' /\ ExecType' /\ HandlePerActive'
  BY DEF TransferInv, TasksType, ExecType, HandlePerActive, Retires
<1>2. Running' = Running
  BY DEF Running
<1>3. {t \in Active(tasks') : tasks'[t].status = "running"} = {t \in Active(tasks) : tasks[t].status = "running"}
  BY DEF Retires, Waiting
<1>4. \A t \in Waiting(tasks') : t \in Waiting(tasks)
  <2> SUFFICES ASSUME NEW t \in Waiting(tasks')
               PROVE  t \in Waiting(tasks)
    OBVIOUS
  <2>1. t \in Active(tasks') /\ tasks'[t].status = "waiting"
    BY DEF Waiting, Active
  <2>2. t \in Active(tasks) /\ tasks[t].status = "waiting"
    BY <2>1 DEF Retires
  <2>3. QED
    BY <2>2 DEF Waiting, Active
<1>5. \A t \in Running' : exec'[t].profile = tasks'[t].profile
  BY <1>2, <1>3 DEF TransferInv, RunningIsExecuted, Retires
<1>6. RunningIsExecuted'
  BY <1>2, <1>3, <1>4, <1>5 DEF TransferInv, RunningIsExecuted
<1>7. QED
  BY <1>1, <1>6 DEF TransferInv

\* What CancelTasks does, for active tasks.
LEMMA CancelEffect ==
  ASSUME TransferInv, NEW S \in SUBSET Active(tasks), CancelTasks(S)
  PROVE  /\ Retires(S \cap Waiting(tasks))
         /\ exec' = exec
         /\ cancellations' = cancellations \ (S \cap Waiting(tasks))
         /\ cancelled' = cancelled \cup (S \ Waiting(tasks))
<1>1. Retires(S \cap Waiting(tasks))
  BY RetireEffect DEF CancelTasks, TransferInv, TasksType
<1>2. (S \ Waiting(tasks)) \cap cancellations = S \ Waiting(tasks)
  BY DEF TransferInv, HandlePerActive
<1>3. QED
  BY <1>1, <1>2 DEF CancelTasks

LEMMA CancelKeeps ==
  ASSUME TransferInv, NEW S \in SUBSET Active(tasks), CancelTasks(S)
  PROVE  TransferInv'
<1>1. Active(tasks) \subseteq Tasks
  BY DEF Active, Present
<1>2. cancelled' \subseteq Tasks
  BY <1>1, CancelEffect DEF TransferInv, TasksType
<1>3. QED
  BY <1>2, CancelEffect, RetireWaitingKeeps

\* Clearing the history leaves every active task alone.
LEMMA ClearKeeps ==
  ASSUME TransferInv, ClearFinished
  PROVE  TransferInv'
<1> DEFINE ts == [t \in Tasks |-> IF t \in Finished(tasks) THEN None ELSE tasks[t]]
<1>1. tasks' = ts /\ exec' = exec /\ cancellations' = cancellations /\ cancelled' = cancelled
  BY DEF ClearFinished, SetTasks
<1>2. ts \in TaskList
  BY DEF TaskList, TransferInv, TasksType
<1>3. Active(ts) = Active(tasks) /\ \A t \in Active(ts) : ts[t] = tasks[t]
  BY DEF Active, Present, Finished
<1>4. Retires({})
  BY <1>1, <1>2, <1>3 DEF Retires
<1>5. QED
  BY <1>1, <1>4, RetireWaitingKeeps DEF TransferInv, TasksType

\* The end of an execution is the end of its task.
LEMMA FinishEffect ==
  ASSUME TransferInv, NEW t \in Running, Finish(t)
  PROVE  /\ Retires({t}) /\ ExecBecomes(t, Ended)
         /\ cancellations' = cancellations \ {t} /\ cancelled' = cancelled \ {t}
<1>1. t \in Tasks /\ t \in Active(tasks)
  BY DEF Running, TransferInv, RunningIsExecuted
<1>2. Retires({t})
  <2>1. {t} \cap Active(tasks) = {t}
    BY <1>1
  <2>2. SetTasks(Prune(End(tasks, {t})))
    BY <2>1 DEF Finish
  <2>3. QED
    BY <1>1, <2>2, RetireEffect DEF TransferInv, TasksType
<1>3. ExecBecomes(t, Ended)
  BY <1>1, ExecEffect, EndedExecution DEF Finish, TransferInv
<1>4. QED
  BY <1>2, <1>3 DEF Finish

LEMMA FinishKeeps ==
  ASSUME TransferInv, NEW t \in Running, Finish(t)
  PROVE  TransferInv'
<1>1. /\ Retires({t}) /\ ExecBecomes(t, Ended)
      /\ cancellations' = cancellations \ {t} /\ cancelled' = cancelled \ {t}
  BY FinishEffect
<1>2. t \in Tasks
  BY DEF Running
<1>3. TasksType' /\ HandlePerActive'
  BY <1>1 DEF TransferInv, TasksType, HandlePerActive, Retires
<1>4. ExecType'
  BY <1>1, EndedExecution DEF TransferInv, ExecType, ExecBecomes
<1>5. Running' = Running \ {t}
  BY <1>1, <1>2, EndedExecution DEF Running, ExecBecomes
<1>6. {u \in Active(tasks') : tasks'[u].status = "running"}
      = {u \in Active(tasks) : tasks[u].status = "running"} \ {t}
  BY <1>1 DEF Retires
<1>7. \A u \in Running' : exec'[u].profile = tasks'[u].profile
  <2> SUFFICES ASSUME NEW u \in Running'
               PROVE  exec'[u].profile = tasks'[u].profile
    OBVIOUS
  <2>1. u \in Running /\ u # t /\ u \in Tasks
    BY <1>5 DEF Running
  <2>2. u \in Active(tasks')
    BY <2>1, <1>1 DEF Retires, TransferInv, RunningIsExecuted
  <2>3. exec'[u] = exec[u] /\ tasks'[u] = tasks[u]
    BY <2>1, <2>2, <1>1 DEF ExecBecomes, Retires
  <2>4. QED
    BY <2>1, <2>3 DEF TransferInv, RunningIsExecuted
<1>8. \A u \in Waiting(tasks') : exec'[u].pc = "begin"
  <2> SUFFICES ASSUME NEW u \in Waiting(tasks')
               PROVE  exec'[u].pc = "begin"
    OBVIOUS
  <2>1. u \in Active(tasks') /\ tasks'[u].status = "waiting"
    BY DEF Waiting, Active
  <2>2. u \in Active(tasks) /\ u # t /\ tasks[u].status = "waiting"
    BY <2>1, <1>1 DEF Retires
  <2>3. u \in Waiting(tasks) /\ u \in Tasks
    BY <2>2 DEF Waiting, Active, Present
  <2>4. QED
    BY <2>2, <2>3, <1>1 DEF ExecBecomes, TransferInv, RunningIsExecuted
<1>9. RunningIsExecuted'
  BY <1>5, <1>6, <1>7, <1>8 DEF TransferInv, RunningIsExecuted
<1>10. QED
  BY <1>3, <1>4, <1>9 DEF TransferInv

\* An execution that goes on with its task keeps it running.
LEMMA MoveKeeps ==
  ASSUME TransferInv, NEW t \in Running, NEW e \in Execution, ExecBecomes(t, e),
         e.profile = exec[t].profile, e.pc \in {"prepare", "permit", "copy"}, e.config # 0,
         UNCHANGED <<tasks, cancellations, cancelled>>
  PROVE  TransferInv'
<1>1. t \in Tasks /\ exec[t].profile # None
  BY DEF Running, TransferInv, ExecType
<1>2. TasksType' /\ HandlePerActive'
  BY DEF TransferInv, TasksType, HandlePerActive
<1>3. ExecType'
  BY <1>1 DEF TransferInv, ExecType, ExecBecomes
<1>4. Running' = Running
  BY <1>1 DEF Running, ExecBecomes
<1>5. \A u \in Running : exec'[u].profile = exec[u].profile
  BY <1>1 DEF Running, ExecBecomes
<1>6. \A u \in Waiting(tasks) : u # t /\ exec'[u] = exec[u]
  BY <1>1 DEF Running, ExecBecomes, TransferInv, RunningIsExecuted, Waiting, Present
<1>7. RunningIsExecuted'
  BY <1>4, <1>5, <1>6 DEF TransferInv, RunningIsExecuted
<1>8. QED
  BY <1>2, <1>3, <1>7 DEF TransferInv

(***************************************************************************)
(* The invariants of the queue                                             *)
(***************************************************************************)

\* Where an action finds the execution of its task.
LEMMA RunningPcs ==
  ASSUME NEW t \in Tasks, exec[t].pc \in {"profile", "prepare", "permit", "copy"}
  PROVE  t \in Running
BY DEF Running

\* A step of profiles or terminals touches no transfer.
LEMMA UntouchedKeeps ==
  ASSUME TransferInv, UNCHANGED transferVars
  PROVE  TransferInv'
BY DEF TransferInv, TasksType, ExecType, HandlePerActive, RunningIsExecuted, Running, transferVars

StoreType == stored \in [Profiles -> 0 .. saves] /\ saves \in 1 .. MaxSaves

\* Reading the profile ends the task or takes the stored version.
LEMMA ReadProfileEffect ==
  ASSUME TransferInv, StoreType, NEW t \in Tasks, ReadProfile(t)
  PROVE  /\ t \in Running
         /\ \/ Finish(t)
            \/ /\ \E e \in Execution :
                    /\ ExecBecomes(t, e) /\ e.profile = exec[t].profile
                    /\ e.pc = "prepare" /\ e.config = stored[exec[t].profile] /\ e.config # 0
               /\ UNCHANGED <<tasks, queue, cancellations, cancelled, profileVars, term>>
<1>1. exec[t].pc = "profile" /\ t \in Running
  BY RunningPcs DEF ReadProfile
<1>2. CASE Finish(t)
  BY <1>1, <1>2
<1>3. CASE ~Finish(t)
  <2>0. stored[exec[t].profile] # 0
    BY <1>3 DEF ReadProfile
  <2>1. exec[t].profile \in Profiles
    BY <1>1 DEF TransferInv, ExecType, Execution
  <2>2. stored[exec[t].profile] \in Nat \ {0}
    BY <2>0, <2>1 DEF StoreType
  <2>3. /\ exec' = [exec EXCEPT ![t].pc = "prepare", ![t].config = stored[exec[t].profile]]
        /\ UNCHANGED <<tasks, queue, cancellations, cancelled, profileVars, term>>
    BY <1>3 DEF ReadProfile
  <2> DEFINE e == [exec[t] EXCEPT !.pc = "prepare", !.config = stored[exec[t].profile]]
  <2>4. /\ e \in Execution /\ e.profile = exec[t].profile
        /\ e.pc = "prepare" /\ e.config = stored[exec[t].profile]
    BY <2>2 DEF TransferInv, ExecType, Execution
  <2>5. exec' = [exec EXCEPT ![t] = e]
    BY <2>3 DEF TransferInv, ExecType, Execution
  <2> HIDE DEF e
  <2>6. ExecBecomes(t, e)
    BY <2>4, <2>5, ExecEffect DEF TransferInv
  <2>7. QED
    BY <1>1, <2>2, <2>3, <2>4, <2>6
<1>4. QED
  BY <1>2, <1>3

LEMMA PrepareEffect ==
  ASSUME TransferInv, NEW t \in Tasks, Prepare(t) \/ Acquire(t)
  PROVE  /\ t \in Running
         /\ \/ Finish(t)
            \/ /\ \E e \in Execution :
                    /\ ExecBecomes(t, e) /\ e.profile = exec[t].profile
                    /\ e.pc \in {"permit", "copy"} /\ e.config = exec[t].config /\ e.config # 0
               /\ UNCHANGED <<tasks, queue, cancellations, cancelled, profileVars, term>>
<1>1. exec[t].pc \in {"prepare", "permit"} /\ t \in Running /\ exec[t].config # 0
  BY RunningPcs DEF Prepare, Acquire, TransferInv, ExecType
<1>2. CASE Finish(t)
  BY <1>1, <1>2
<1>3. CASE ~Finish(t)
  <2>1. PICK pc \in {"permit", "copy"} : exec' = [exec EXCEPT ![t].pc = pc]
    BY <1>3 DEF Prepare, Acquire
  <2>2. UNCHANGED <<tasks, queue, cancellations, cancelled, profileVars, term>>
    BY <1>3 DEF Prepare, Acquire
  <2> DEFINE e == [exec[t] EXCEPT !.pc = pc]
  <2>3. e \in Execution /\ e.profile = exec[t].profile /\ e.pc = pc /\ e.config = exec[t].config
    BY DEF TransferInv, ExecType, Execution
  <2>4. exec' = [exec EXCEPT ![t] = e]
    BY <2>1 DEF TransferInv, ExecType, Execution
  <2> HIDE DEF e
  <2>5. ExecBecomes(t, e)
    BY <2>3, <2>4, ExecEffect DEF TransferInv
  <2>6. QED
    BY <1>1, <2>2, <2>3, <2>5
<1>4. QED
  BY <1>2, <1>3

LEMMA StopEffect ==
  ASSUME NEW t \in Tasks, StopsCancelled(t) \/ CopyEnds(t)
  PROVE  t \in Running /\ Finish(t)
BY RunningPcs DEF StopsCancelled, CopyEnds, Notices

\* The tasks that the lifecycle calls cancel are active.
LEMMA OfProfileActive == \A p \in Profiles : OfProfile(p) \subseteq Active(tasks)
BY DEF OfProfile

\* Every step keeps the invariant of the queue.
LEMMA TransferStep ==
  ASSUME TransferInv, StoreType, [Next]_vars
  PROVE  TransferInv'
<1>1. ASSUME NEW t \in Tasks, Begin(t)
      PROVE  TransferInv'
  BY <1>1, BeginKeeps
<1>2. ASSUME NEW t \in Tasks, ReadProfile(t)
      PROVE  TransferInv'
  <2>1. CASE Finish(t)
    BY <1>2, <2>1, ReadProfileEffect, FinishKeeps
  <2>2. CASE ~Finish(t)
    BY <1>2, <2>2, ReadProfileEffect, MoveKeeps
  <2>3. QED
    BY <2>1, <2>2
<1>3. ASSUME NEW t \in Tasks, Prepare(t) \/ Acquire(t)
      PROVE  TransferInv'
  <2>1. CASE Finish(t)
    BY <1>3, <2>1, PrepareEffect, FinishKeeps
  <2>2. CASE ~Finish(t)
    BY <1>3, <2>2, PrepareEffect, MoveKeeps
  <2>3. QED
    BY <2>1, <2>2
<1>4. ASSUME NEW t \in Tasks, StopsCancelled(t) \/ CopyEnds(t)
      PROVE  TransferInv'
  BY <1>4, StopEffect, FinishKeeps
<1>5. ASSUME NEW t \in Tasks, CancelTransfer(t)
      PROVE  TransferInv'
  BY <1>5, CancelKeeps DEF CancelTransfer, TransferInv, HandlePerActive
<1>6. ASSUME NEW p \in Profiles, Enqueue(p)
      PROVE  TransferInv'
  BY <1>6, EnqueueKeeps
<1>7. CASE ClearFinished
  BY <1>7, ClearKeeps
<1>8. CASE Shutdown
  BY <1>8, CancelKeeps DEF Shutdown
<1>9. ASSUME NEW p \in Profiles, Disconnect(p)
      PROVE  TransferInv'
  BY <1>9, CancelKeeps, OfProfileActive DEF Disconnect
<1>10. ASSUME NEW c \in Calls, CancelProfile(c)
       PROVE  TransferInv'
  BY <1>10, CancelKeeps, OfProfileActive DEF CancelProfile, OfProfile
<1>11. ASSUME NEW c \in Calls, Advance(c) \/ Block(c) \/ \E p \in Profiles : Save(c, p) \/ Delete(c, p)
       PROVE  TransferInv'
  BY <1>11, UntouchedKeeps DEF Advance, Block, Save, Delete
<1>12. ASSUME NEW x \in Terminals, TerminalProfile(x) \/ Recheck(x) \/ Launch(x)
                                  \/ \E p \in Profiles : OpenTerminal(x, p)
       PROVE  TransferInv'
  BY <1>12, UntouchedKeeps DEF TerminalProfile, Recheck, Launch, OpenTerminal
<1>13. CASE UNCHANGED vars
  BY <1>13, UntouchedKeeps DEF vars
<1>14. QED
  BY <1>1, <1>2, <1>3, <1>4, <1>5, <1>6, <1>7, <1>8, <1>9, <1>10, <1>11, <1>12, <1>13
     DEF Next, Executes, Proceeds

(***************************************************************************)
(* Profiles, calls and terminals                                           *)
(***************************************************************************)

CallType ==
  /\ blocked \subseteq Profiles
  /\ generation \in [Profiles -> Nat]
  /\ call \in [Calls -> LifecycleCall]
  /\ \A c \in Calls : call[c].pc = "idle" <=> call[c].profile = None

TermType ==
  /\ term \in [Terminals -> Launching]
  /\ \A x \in Terminals :
       /\ term[x].pc = "idle" <=> term[x].profile = None
       /\ term[x].pc \in {"command", "launch"} <=> term[x].config # 0

\* A terminal whose profile has changed since it read it has an old
\* generation, or the change is about to end its generation.
TermInv ==
  \A x \in Terminals :
    term[x].pc # "idle" =>
      /\ term[x].generation <= generation[term[x].profile]
      /\ term[x].config # 0 /\ term[x].config # stored[term[x].profile]
         => \/ term[x].generation < generation[term[x].profile]
            \/ Before(term[x].profile, {"advance", "block"})

LEMMA NoCallEffect == NoCall \in LifecycleCall /\ NoCall.pc = "idle" /\ NoCall.profile = None
BY DEF NoCall, LifecycleCall

LEMMA NoTerminalEffect ==
  /\ NoTerminal \in Launching /\ NoTerminal.pc = "idle"
  /\ NoTerminal.profile = None /\ NoTerminal.config = 0
BY DEF NoTerminal, Launching

\* Only the call c changes, to r.
CallBecomes(c, r) ==
  /\ call' \in [Calls -> LifecycleCall]
  /\ call'[c] = r
  /\ \A d \in Calls : d # c => call'[d] = call[d]

LEMMA CallEffect ==
  ASSUME CallType, NEW c \in Calls, NEW r \in LifecycleCall, call' = [call EXCEPT ![c] = r]
  PROVE  CallBecomes(c, r)
BY DEF CallType, CallBecomes

\* A call of save or delete starts with the change of the stored profile.
LEMMA StartCallEffect ==
  ASSUME CallType, StoreType, NEW c \in Calls, NEW p \in Profiles, Save(c, p) \/ Delete(c, p)
  PROVE  /\ \E r \in LifecycleCall : CallBecomes(c, r) /\ r.profile = p /\ r.pc \in {"advance", "block"}
         /\ call[c].pc = "idle" /\ call[c].profile = None
         /\ StoreType'
         /\ \A q \in Profiles : q # p => stored'[q] = stored[q]
         /\ UNCHANGED <<blocked, generation, transferVars, term>>
<1>1. call[c].pc = "idle" /\ call[c].profile = None
  BY DEF Save, Delete, CallType
<1>2. CASE Save(c, p)
  <2> DEFINE r == [pc |-> "advance", profile |-> p]
  <2>1. r \in LifecycleCall /\ r.pc = "advance" /\ r.profile = p
    BY DEF LifecycleCall
  <2>2. call' = [call EXCEPT ![c] = r]
    BY <1>2 DEF Save
  <2> HIDE DEF r
  <2>3. CallBecomes(c, r)
    BY <2>1, <2>2, CallEffect
  <2>4. saves \in Nat /\ saves' = saves + 1 /\ saves' \in 1 .. MaxSaves
        /\ stored' = [stored EXCEPT ![p] = saves + 1]
    BY <1>2, BoundAssumption DEF Save, StoreType
  <2>5. stored' \in [Profiles -> 0 .. saves']
    BY <2>4 DEF StoreType
  <2>6. \A q \in Profiles : q # p => stored'[q] = stored[q]
    BY <2>4 DEF StoreType
  <2>7. QED
    BY <1>1, <1>2, <2>1, <2>3, <2>4, <2>5, <2>6 DEF StoreType, Save
<1>3. CASE Delete(c, p)
  <2> DEFINE r == [pc |-> "block", profile |-> p]
  <2>1. r \in LifecycleCall /\ r.pc = "block" /\ r.profile = p
    BY DEF LifecycleCall
  <2>2. call' = [call EXCEPT ![c] = r]
    BY <1>3 DEF Delete
  <2> HIDE DEF r
  <2>3. CallBecomes(c, r)
    BY <2>1, <2>2, CallEffect
  <2>4. saves' = saves /\ stored' = [stored EXCEPT ![p] = 0]
    BY <1>3 DEF Delete
  <2>5. StoreType' /\ \A q \in Profiles : q # p => stored'[q] = stored[q]
    BY <2>4 DEF StoreType
  <2>6. QED
    BY <1>1, <1>3, <2>1, <2>3, <2>5 DEF Delete
<1>4. QED
  BY <1>2, <1>3

\* It goes on with its generation,
LEMMA PolicyEffect ==
  ASSUME CallType, NEW c \in Calls, Advance(c) \/ Block(c)
  PROVE  /\ \E r \in LifecycleCall : CallBecomes(c, r) /\ r.profile = call[c].profile /\ r.pc = "cancel"
         /\ call[c].pc \in {"advance", "block"} /\ call[c].profile \in Profiles
         /\ generation' \in [Profiles -> Nat]
         /\ generation'[call[c].profile] = generation[call[c].profile] + 1
         /\ \A q \in Profiles : q # call[c].profile => generation'[q] = generation[q]
         /\ blocked' \subseteq Profiles
         /\ UNCHANGED <<stored, saves, transferVars, term>>
<1> DEFINE r == [call[c] EXCEPT !.pc = "cancel"]
<1>1. call[c] \in LifecycleCall /\ call[c].pc \in {"advance", "block"} /\ call[c].profile \in Profiles
  BY DEF Advance, Block, CallType, LifecycleCall
<1>2. r \in LifecycleCall /\ r.profile = call[c].profile /\ r.pc = "cancel"
  BY <1>1 DEF LifecycleCall
<1>3. call' = [call EXCEPT ![c] = r]
  BY <1>1 DEF Advance, Block, CallType, LifecycleCall
<1> HIDE DEF r
<1>4. CallBecomes(c, r)
  BY <1>2, <1>3, CallEffect
<1>5. generation' = [generation EXCEPT ![call[c].profile] = generation[call[c].profile] + 1]
  BY DEF Advance, Block
<1>6. /\ generation' \in [Profiles -> Nat]
      /\ generation'[call[c].profile] = generation[call[c].profile] + 1
      /\ \A q \in Profiles : q # call[c].profile => generation'[q] = generation[q]
  BY <1>1, <1>5 DEF CallType
<1>7. blocked' \subseteq Profiles
  BY <1>1 DEF Advance, Block, CallType
<1>8. UNCHANGED <<stored, saves, transferVars, term>>
  BY DEF Advance, Block
<1>9. QED
  BY <1>1, <1>2, <1>4, <1>6, <1>7, <1>8

\* and ends with the cancellation of the transfers of its profile.
LEMMA EndCallEffect ==
  ASSUME CallType, NEW c \in Calls, CancelProfile(c)
  PROVE  /\ CallBecomes(c, NoCall)
         /\ call[c].pc = "cancel" /\ call[c].profile \in Profiles
         /\ CancelTasks(OfProfile(call[c].profile))
         /\ UNCHANGED <<stored, saves, blocked, generation, term>>
<1>1. call[c] \in LifecycleCall /\ call[c].pc = "cancel" /\ call[c].profile \in Profiles
  BY DEF CancelProfile, CallType, LifecycleCall
<1>2. CallBecomes(c, NoCall)
  BY CallEffect, NoCallEffect DEF CancelProfile
<1>3. QED
  BY <1>1, <1>2 DEF CancelProfile

\* The steps that concern neither calls nor stored profiles.
ProfilesRest == UNCHANGED profileVars

LEMMA OtherStep ==
  ASSUME [Next]_vars
  PROVE  \/ ProfilesRest
         \/ \E c \in Calls : \/ Advance(c) \/ Block(c) \/ CancelProfile(c)
                             \/ \E p \in Profiles : Save(c, p) \/ Delete(c, p)
BY DEF Next, vars, ProfilesRest, Executes, Proceeds, Begin, ReadProfile, Prepare, StopsCancelled,
       Acquire, CopyEnds, CancelTransfer, Enqueue, ClearFinished, Shutdown, Disconnect, Finish,
       TerminalProfile, Recheck, Launch, OpenTerminal

LEMMA ProfileStep ==
  ASSUME StoreType, CallType, [Next]_vars
  PROVE  StoreType' /\ CallType'
<1>1. CASE ProfilesRest
  BY <1>1 DEF ProfilesRest, profileVars, StoreType, CallType
<1>2. ASSUME NEW c \in Calls, NEW p \in Profiles, Save(c, p) \/ Delete(c, p)
      PROVE  StoreType' /\ CallType'
  <2>1. PICK r \in LifecycleCall : CallBecomes(c, r) /\ r.profile = p /\ r.pc \in {"advance", "block"}
    BY <1>2, StartCallEffect
  <2>2. StoreType' /\ UNCHANGED <<blocked, generation>>
    BY <1>2, StartCallEffect
  <2>3. CallType'
    BY <2>1, <2>2, NoneIsNoTask DEF CallType, CallBecomes
  <2>4. QED
    BY <2>2, <2>3
<1>3. ASSUME NEW c \in Calls, Advance(c) \/ Block(c)
      PROVE  StoreType' /\ CallType'
  <2>1. PICK r \in LifecycleCall : CallBecomes(c, r) /\ r.profile = call[c].profile /\ r.pc = "cancel"
    BY <1>3, PolicyEffect
  <2>2. /\ call[c].profile \in Profiles
        /\ generation' \in [Profiles -> Nat] /\ blocked' \subseteq Profiles
        /\ UNCHANGED <<stored, saves>>
    BY <1>3, PolicyEffect
  <2>3. CallType'
    BY <2>1, <2>2, NoneIsNoTask DEF CallType, CallBecomes
  <2>4. QED
    BY <2>2, <2>3 DEF StoreType
<1>4. ASSUME NEW c \in Calls, CancelProfile(c)
      PROVE  StoreType' /\ CallType'
  BY <1>4, EndCallEffect, NoCallEffect DEF CallType, StoreType, CallBecomes
<1>5. QED
  BY <1>1, <1>2, <1>3, <1>4, OtherStep

\* Only the terminal x changes, to r.
TermBecomes(x, r) ==
  /\ term' \in [Terminals -> Launching]
  /\ term'[x] = r
  /\ \A y \in Terminals : y # x => term'[y] = term[y]

LEMMA TermEffect ==
  ASSUME TermType, NEW x \in Terminals, NEW r \in Launching, term' = [term EXCEPT ![x] = r]
  PROVE  TermBecomes(x, r)
BY DEF TermType, TermBecomes

\* Opening a terminal reads the generation, then the stored profile, and
\* from then on only its program counter changes until it is done.
OpeningEffect(x, r) ==
  /\ TermBecomes(x, r)
  /\ \/ r = NoTerminal
     \/ /\ r.pc = "profile" /\ r.profile \in Profiles /\ r.config = 0
        /\ r.generation = generation[r.profile]
     \/ /\ term[x].pc = "profile" /\ r.pc = "command" /\ r.profile = term[x].profile
        /\ r.config = stored[r.profile] /\ r.config # 0
        /\ r.generation = term[x].generation
     \/ /\ term[x].pc = "command" /\ r.pc = "launch" /\ r.profile = term[x].profile
        /\ r.config = term[x].config /\ r.generation = term[x].generation

LEMMA OpeningStep ==
  ASSUME StoreType, CallType, TermType, NEW x \in Terminals,
         TerminalProfile(x) \/ Recheck(x) \/ Launch(x) \/ \E p \in Profiles : OpenTerminal(x, p)
  PROVE  \E r \in Launching : OpeningEffect(x, r)
<1>0. term[x] \in Launching
  BY DEF TermType
<1>1. ASSUME NEW p \in Profiles, OpenTerminal(x, p)
      PROVE  \E r \in Launching : OpeningEffect(x, r)
  <2> DEFINE r == [pc |-> "profile", profile |-> p, config |-> 0, generation |-> generation[p]]
  <2>1. r \in Launching /\ r.pc = "profile" /\ r.profile = p /\ r.config = 0
        /\ r.generation = generation[p]
    BY DEF Launching, CallType
  <2>2. term' = [term EXCEPT ![x] = r]
    BY <1>1 DEF OpenTerminal
  <2> HIDE DEF r
  <2>3. QED
    BY <2>1, <2>2, TermEffect DEF OpeningEffect
<1>2. CASE TerminalProfile(x)
  <2>1. term[x].pc = "profile" /\ term[x].profile \in Profiles
    BY <1>0, <1>2 DEF TerminalProfile, TermType, Launching
  <2>2. CASE term' = [term EXCEPT ![x] = NoTerminal]
    BY <2>2, TermEffect, NoTerminalEffect DEF OpeningEffect
  <2>3. CASE term' # [term EXCEPT ![x] = NoTerminal]
    <3> DEFINE r == [term[x] EXCEPT !.pc = "command", !.config = stored[term[x].profile]]
    <3>0. stored[term[x].profile] # 0
      BY <1>2, <2>3 DEF TerminalProfile
    <3>1. stored[term[x].profile] \in Nat
      BY <2>1 DEF StoreType
    <3>2. r \in Launching /\ r.pc = "command" /\ r.profile = term[x].profile
          /\ r.config = stored[term[x].profile] /\ r.generation = term[x].generation
      BY <1>0, <3>1 DEF Launching
    <3>3. term' = [term EXCEPT ![x] = r]
      BY <1>0, <1>2, <2>3 DEF TerminalProfile, TermType, Launching
    <3> HIDE DEF r
    <3>4. QED
      BY <2>1, <3>0, <3>2, <3>3, TermEffect DEF OpeningEffect
  <2>4. QED
    BY <2>2, <2>3
<1>3. CASE Recheck(x)
  <2>1. CASE term' = [term EXCEPT ![x] = NoTerminal]
    BY <2>1, TermEffect, NoTerminalEffect DEF OpeningEffect
  <2>2. CASE term' # [term EXCEPT ![x] = NoTerminal]
    <3> DEFINE r == [term[x] EXCEPT !.pc = "launch"]
    <3>1. r \in Launching /\ r.pc = "launch" /\ r.profile = term[x].profile
          /\ r.config = term[x].config /\ r.generation = term[x].generation
      BY <1>0 DEF Launching
    <3>2. term' = [term EXCEPT ![x] = r] /\ term[x].pc = "command"
      BY <1>0, <1>3, <2>2 DEF Recheck, TermType, Launching
    <3> HIDE DEF r
    <3>3. QED
      BY <3>1, <3>2, TermEffect DEF OpeningEffect
  <2>3. QED
    BY <2>1, <2>2
<1>4. CASE Launch(x)
  BY <1>4, TermEffect, NoTerminalEffect DEF Launch, OpeningEffect
<1>5. QED
  BY <1>1, <1>2, <1>3, <1>4

(***************************************************************************)
(* The invariant of the terminals                                          *)
(***************************************************************************)

Opens(x) ==
  TerminalProfile(x) \/ Recheck(x) \/ Launch(x) \/ \E p \in Profiles : OpenTerminal(x, p)

\* Whatever step is taken, either no terminal changes or one is being opened.
LEMMA TermStepKinds ==
  ASSUME [Next]_vars
  PROVE  \/ UNCHANGED term
         \/ \E x \in Terminals : Opens(x) /\ UNCHANGED <<transferVars, profileVars>>
BY DEF Next, vars, Opens, Executes, Proceeds, Begin, ReadProfile, Prepare, StopsCancelled,
       Acquire, CopyEnds, CancelTransfer, Enqueue, ClearFinished, Shutdown, Disconnect, Finish,
       Save, Delete, Advance, Block, CancelProfile,
       TerminalProfile, Recheck, Launch, OpenTerminal

LEMMA TermStep ==
  ASSUME StoreType, CallType, TermType, [Next]_vars
  PROVE  TermType'
<1>1. CASE UNCHANGED term
  BY <1>1 DEF TermType
<1>2. ASSUME NEW x \in Terminals, Opens(x)
      PROVE  TermType'
  <2>1. PICK r \in Launching : OpeningEffect(x, r)
    BY <1>2, OpeningStep DEF Opens
  <2>2. /\ r.pc = "idle" <=> r.profile = None
        /\ r.pc \in {"command", "launch"} <=> r.config # 0
    BY <2>1, NoTerminalEffect, NoneIsNoTask DEF OpeningEffect, TermType
  <2>3. TermBecomes(x, r)
    BY <2>1 DEF OpeningEffect
  <2>4. QED
    BY <2>2, <2>3 DEF TermType, TermBecomes
<1>3. QED
  BY <1>1, <1>2, TermStepKinds

\* A call that was between two steps still is when another call moves.
LEMMA BeforeStays ==
  ASSUME NEW c \in Calls, NEW r \in LifecycleCall, CallBecomes(c, r), NEW q, NEW pcs,
         Before(q, pcs), call[c].profile # q \/ call[c].pc \notin pcs
  PROVE  Before(q, pcs)'
<1>1. PICK d \in Calls : call[d].profile = q /\ call[d].pc \in pcs
  BY DEF Before
<1>2. call'[d] = call[d]
  BY <1>1 DEF CallBecomes
<1>3. QED
  BY <1>1, <1>2 DEF Before

TermGood(x) ==
  /\ term[x].generation <= generation[term[x].profile]
  /\ term[x].config # 0 /\ term[x].config # stored[term[x].profile]
     => \/ term[x].generation < generation[term[x].profile]
        \/ Before(term[x].profile, {"advance", "block"})

\* The step that opens a terminal further: what it reads is what is there.
LEMMA OpeningKeepsTermInv ==
  ASSUME StoreType, CallType, TermType, TermInv, NEW x \in Terminals, Opens(x),
         UNCHANGED profileVars
  PROVE  TermInv'
<1>1. PICK r \in Launching : OpeningEffect(x, r)
  BY OpeningStep DEF Opens
<1>2. TermBecomes(x, r) /\ UNCHANGED <<stored, generation, call>>
  BY <1>1 DEF OpeningEffect, profileVars
<1> SUFFICES ASSUME NEW y \in Terminals, term'[y].pc # "idle"
             PROVE  TermGood(y)'
  BY DEF TermInv, TermGood
<1>3. CASE y # x
  <2>1. term'[y] = term[y] /\ TermGood(y)
    BY <1>2, <1>3 DEF TermBecomes, TermInv, TermGood
  <2>2. QED
    BY <1>2, <2>1 DEF TermGood, Before
<1>4. CASE y = x
  <2>1. term'[x] = r /\ r.pc # "idle" /\ r # NoTerminal
    BY <1>2, <1>4, NoTerminalEffect DEF TermBecomes
  <2>2. CASE r.config = 0
    <3>1. r.profile \in Profiles /\ r.generation = generation[r.profile]
      BY <1>1, <2>1, <2>2 DEF OpeningEffect, TermType
    <3>2. generation[r.profile] \in Nat
      BY <3>1 DEF CallType
    <3>3. QED
      BY <1>2, <1>4, <2>1, <2>2, <3>1, <3>2 DEF TermGood
  <2>3. CASE r.config # 0
    <3>1. /\ r.profile = term[x].profile /\ r.generation = term[x].generation
          /\ term[x].pc # "idle"
          /\ \/ r.config = stored[r.profile]
             \/ r.config = term[x].config
      BY <1>1, <2>1, <2>3 DEF OpeningEffect
    <3>2. TermGood(x)
      BY <3>1 DEF TermInv, TermGood
    <3>3. QED
      BY <1>2, <1>4, <2>1, <2>3, <3>1, <3>2 DEF TermGood, Before
  <2>4. QED
    BY <2>2, <2>3
<1>5. QED
  BY <1>3, <1>4

\* The invariant of the terminals survives every step: a change of the stored
\* profile leaves its call before the terminal policy, and the policy ends
\* the generation of all terminals that have been opened so far.
LEMMA TermInvStep ==
  ASSUME StoreType, CallType, TermType, TermInv, [Next]_vars
  PROVE  TermInv'
<1>1. ASSUME NEW x \in Terminals, Opens(x), UNCHANGED <<transferVars, profileVars>>
      PROVE  TermInv'
  BY <1>1, OpeningKeepsTermInv
<1>2. CASE UNCHANGED term /\ ProfilesRest
  BY <1>2 DEF ProfilesRest, profileVars, TermInv, Before
<1>3. ASSUME NEW c \in Calls, NEW p \in Profiles, Save(c, p) \/ Delete(c, p)
      PROVE  TermInv'
  <2>1. PICK r \in LifecycleCall : CallBecomes(c, r) /\ r.profile = p /\ r.pc \in {"advance", "block"}
    BY <1>3, StartCallEffect
  <2>2. /\ call[c].pc = "idle"
        /\ \A q \in Profiles : q # p => stored'[q] = stored[q]
        /\ term' = term /\ generation' = generation
    BY <1>3, StartCallEffect
  <2> SUFFICES ASSUME NEW y \in Terminals, term[y].pc # "idle"
               PROVE  TermGood(y)'
    BY <2>2 DEF TermInv, TermGood
  <2>3. TermGood(y) /\ term[y].profile \in Profiles
    BY DEF TermInv, TermGood, TermType, Launching
  <2>4. CASE term[y].profile = p
    <3>1. Before(p, {"advance", "block"})'
      BY <2>1 DEF Before, CallBecomes
    <3>2. QED
      BY <2>2, <2>3, <2>4, <3>1 DEF TermGood
  <2>5. CASE term[y].profile # p
    <3>1. Before(term[y].profile, {"advance", "block"}) => Before(term[y].profile, {"advance", "block"})'
      BY <2>1, <2>2, BeforeStays
    <3>2. QED
      BY <2>2, <2>3, <2>5, <3>1 DEF TermGood, Before
  <2>6. QED
    BY <2>4, <2>5
<1>4. ASSUME NEW c \in Calls, Advance(c) \/ Block(c)
      PROVE  TermInv'
  <2>1. PICK r \in LifecycleCall : CallBecomes(c, r) /\ r.profile = call[c].profile /\ r.pc = "cancel"
    BY <1>4, PolicyEffect
  <2>2. /\ call[c].profile \in Profiles
        /\ generation'[call[c].profile] = generation[call[c].profile] + 1
        /\ \A q \in Profiles : q # call[c].profile => generation'[q] = generation[q]
        /\ stored' = stored /\ term' = term
    BY <1>4, PolicyEffect
  <2> SUFFICES ASSUME NEW y \in Terminals, term[y].pc # "idle"
               PROVE  TermGood(y)'
    BY <2>2 DEF TermInv, TermGood
  <2>3. /\ TermGood(y) /\ term[y].profile \in Profiles
        /\ term[y].generation \in Nat /\ generation[term[y].profile] \in Nat
    BY DEF TermInv, TermGood, TermType, Launching, CallType
  <2>4. CASE term[y].profile = call[c].profile
    BY <2>2, <2>3, <2>4 DEF TermGood
  <2>5. CASE term[y].profile # call[c].profile
    <3>1. Before(term[y].profile, {"advance", "block"}) => Before(term[y].profile, {"advance", "block"})'
      BY <2>1, <2>2, <2>5, BeforeStays
    <3>2. QED
      BY <2>2, <2>3, <2>5, <3>1 DEF TermGood, Before
  <2>6. QED
    BY <2>4, <2>5
<1>5. ASSUME NEW c \in Calls, CancelProfile(c)
      PROVE  TermInv'
  <2>1. /\ CallBecomes(c, NoCall) /\ call[c].pc = "cancel"
        /\ UNCHANGED <<stored, generation, term>>
    BY <1>5, EndCallEffect
  <2> SUFFICES ASSUME NEW y \in Terminals, term[y].pc # "idle"
               PROVE  TermGood(y)'
    BY <2>1 DEF TermInv, TermGood
  <2>2. TermGood(y)
    BY DEF TermInv, TermGood
  <2>3. Before(term[y].profile, {"advance", "block"}) => Before(term[y].profile, {"advance", "block"})'
    BY <2>1, NoCallEffect, BeforeStays
  <2>4. QED
    BY <2>1, <2>2, <2>3 DEF TermGood, Before
<1>6. QED
  BY <1>1, <1>2, <1>3, <1>4, <1>5, TermStepKinds, OtherStep

(***************************************************************************)
(* Transfers with a stale profile                                          *)
(***************************************************************************)

\* What the executions may do without a change of the stored profiles: end,
\* read the profile as it is, or go on with what they have read.
LEMMA StaleKept ==
  ASSUME StaleTransferCancelled, UNCHANGED profileVars,
         \A t \in Tasks : \/ exec'[t].config = 0
                          \/ exec'[t].config = stored[exec'[t].profile]
                          \/ /\ exec'[t].config = exec[t].config
                             /\ exec'[t].profile = exec[t].profile
                             /\ t \in cancelled => t \in cancelled'
  PROVE  StaleTransferCancelled'
<1> SUFFICES ASSUME NEW t \in Tasks, IsStale(t)'
             PROVE  t \in cancelled' \/ Before(exec[t].profile, {"advance", "block", "cancel"})'
  BY DEF StaleTransferCancelled
<1>1. /\ exec'[t].config = exec[t].config /\ exec'[t].profile = exec[t].profile
      /\ t \in cancelled => t \in cancelled'
  BY DEF IsStale, profileVars
<1>2. IsStale(t)
  BY <1>1 DEF IsStale, profileVars
<1>3. t \in cancelled \/ Before(exec[t].profile, {"advance", "block", "cancel"})
  BY <1>2 DEF StaleTransferCancelled
<1>4. QED
  BY <1>1, <1>3 DEF Before, profileVars

LEMMA StaleKeptByFinish ==
  ASSUME TransferInv, StaleTransferCancelled, NEW t \in Running, Finish(t)
  PROVE  StaleTransferCancelled'
<1>1. ExecBecomes(t, Ended) /\ cancelled' = cancelled \ {t} /\ t \in Tasks
  BY FinishEffect DEF Running
<1>2. UNCHANGED profileVars
  BY DEF Finish
<1>3. QED
  BY <1>1, <1>2, EndedExecution, StaleKept DEF ExecBecomes

LEMMA StaleKeptByCancel ==
  ASSUME TransferInv, StaleTransferCancelled, NEW S \in SUBSET Active(tasks), CancelTasks(S),
         UNCHANGED profileVars
  PROVE  StaleTransferCancelled'
<1>1. exec' = exec /\ cancelled \subseteq cancelled'
  BY CancelEffect
<1>2. QED
  BY <1>1, StaleKept

\* A change of a profile makes its executions stale, and at the same time puts
\* its call before their cancellation.
LEMMA StaleKeptByChange ==
  ASSUME TransferInv, StoreType, CallType, StaleTransferCancelled,
         NEW c \in Calls, NEW p \in Profiles, Save(c, p) \/ Delete(c, p)
  PROVE  StaleTransferCancelled'
<1>1. PICK r \in LifecycleCall : CallBecomes(c, r) /\ r.profile = p /\ r.pc \in {"advance", "block"}
  BY StartCallEffect
<1>2. /\ call[c].pc = "idle"
      /\ \A q \in Profiles : q # p => stored'[q] = stored[q]
      /\ exec' = exec /\ cancelled' = cancelled
  BY StartCallEffect DEF transferVars
<1> SUFFICES ASSUME NEW t \in Tasks, IsStale(t)'
             PROVE  t \in cancelled' \/ Before(exec[t].profile, {"advance", "block", "cancel"})'
  BY DEF StaleTransferCancelled
<1>3. exec[t].profile \in Profiles
  BY <1>2 DEF IsStale, TransferInv, ExecType, Execution
<1>4. CASE exec[t].profile = p
  BY <1>1, <1>2, <1>4 DEF Before, CallBecomes
<1>5. CASE exec[t].profile # p
  <2>1. t \in cancelled \/ Before(exec[t].profile, {"advance", "block", "cancel"})
    BY <1>2, <1>3, <1>5 DEF IsStale, StaleTransferCancelled
  <2>2. Before(exec[t].profile, {"advance", "block", "cancel"})
        => Before(exec[t].profile, {"advance", "block", "cancel"})'
    BY <1>1, <1>2, BeforeStays
  <2>3. QED
    BY <1>2, <2>1, <2>2
<1>6. QED
  BY <1>4, <1>5

LEMMA StaleKeptByPolicy ==
  ASSUME TransferInv, CallType, StaleTransferCancelled, NEW c \in Calls, Advance(c) \/ Block(c)
  PROVE  StaleTransferCancelled'
<1>1. PICK r \in LifecycleCall : CallBecomes(c, r) /\ r.profile = call[c].profile /\ r.pc = "cancel"
  BY PolicyEffect
<1>2. stored' = stored /\ exec' = exec /\ cancelled' = cancelled
  BY PolicyEffect DEF transferVars
<1> SUFFICES ASSUME NEW t \in Tasks, IsStale(t)'
             PROVE  t \in cancelled' \/ Before(exec[t].profile, {"advance", "block", "cancel"})'
  BY DEF StaleTransferCancelled
<1>3. t \in cancelled \/ Before(exec[t].profile, {"advance", "block", "cancel"})
  BY <1>2 DEF IsStale, StaleTransferCancelled
<1>4. CASE exec[t].profile = call[c].profile
  BY <1>1, <1>2, <1>4 DEF Before, CallBecomes
<1>5. CASE exec[t].profile # call[c].profile
  <2>1. Before(exec[t].profile, {"advance", "block", "cancel"})
        => Before(exec[t].profile, {"advance", "block", "cancel"})'
    BY <1>1, <1>2, <1>5, BeforeStays
  <2>2. QED
    BY <1>2, <1>3, <2>1
<1>6. QED
  BY <1>4, <1>5

\* The call that ends has told every execution of its profile to stop: those
\* have a running task, which is active and does not wait.
LEMMA StaleKeptByCancelProfile ==
  ASSUME TransferInv, CallType, StaleTransferCancelled, NEW c \in Calls, CancelProfile(c)
  PROVE  StaleTransferCancelled'
<1> DEFINE p == call[c].profile
<1>1. /\ CallBecomes(c, NoCall) /\ p \in Profiles
      /\ CancelTasks(OfProfile(p))
      /\ UNCHANGED <<stored, saves, blocked, generation, term>>
  BY EndCallEffect
<1> HIDE DEF p
<1>2. exec' = exec /\ cancelled' = cancelled \cup (OfProfile(p) \ Waiting(tasks))
  BY <1>1, CancelEffect, OfProfileActive
<1> SUFFICES ASSUME NEW t \in Tasks, IsStale(t)'
             PROVE  t \in cancelled' \/ Before(exec[t].profile, {"advance", "block", "cancel"})'
  BY DEF StaleTransferCancelled
<1>3. exec[t].config # 0 /\ IsStale(t)
  BY <1>1, <1>2 DEF IsStale
<1>4. CASE exec[t].profile = p
  <2>1. t \in Running /\ exec[t].pc # "begin"
    BY <1>3 DEF TransferInv, ExecType, Running
  <2>2. t \in Active(tasks) /\ tasks[t].profile = p /\ t \notin Waiting(tasks)
    BY <1>4, <2>1 DEF TransferInv, RunningIsExecuted
  <2>3. QED
    BY <1>2, <2>2 DEF OfProfile
<1>5. CASE exec[t].profile # p
  <2>1. t \in cancelled \/ Before(exec[t].profile, {"advance", "block", "cancel"})
    BY <1>3 DEF StaleTransferCancelled
  <2>2. Before(exec[t].profile, {"advance", "block", "cancel"})
        => Before(exec[t].profile, {"advance", "block", "cancel"})'
    BY <1>1, <1>2, <1>5, NoCallEffect, BeforeStays DEF p
  <2>3. QED
    BY <1>2, <2>1, <2>2
<1>6. QED
  BY <1>4, <1>5

LEMMA StaleStep ==
  ASSUME TransferInv, StoreType, CallType, StaleTransferCancelled, [Next]_vars
  PROVE  StaleTransferCancelled'
<1>1. ASSUME NEW t \in Tasks, Begin(t)
      PROVE  StaleTransferCancelled'
  <2>1. /\ UNCHANGED profileVars /\ cancelled' = cancelled
        /\ exec[t].pc = "begin"
    BY <1>1 DEF Begin
  <2>2. \E e : exec' = [exec EXCEPT ![t] = e] /\ e.config = 0
    BY <1>1, EndedExecution DEF Begin
  <2>3. exec'[t].config = 0 /\ \A u \in Tasks : u # t => exec'[u] = exec[u]
    BY <2>2 DEF TransferInv, ExecType
  <2>4. QED
    BY <2>1, <2>3, StaleKept
<1>2. ASSUME NEW t \in Tasks, ReadProfile(t)
      PROVE  StaleTransferCancelled'
  <2>1. CASE Finish(t)
    BY <1>2, <2>1, ReadProfileEffect, StaleKeptByFinish
  <2>2. CASE ~Finish(t)
    <3>1. PICK e \in Execution : /\ ExecBecomes(t, e) /\ e.profile = exec[t].profile
                                 /\ e.config = stored[exec[t].profile]
      BY <1>2, <2>2, ReadProfileEffect
    <3>2. UNCHANGED profileVars /\ cancelled' = cancelled
      BY <1>2, <2>2, ReadProfileEffect
    <3>3. QED
      BY <3>1, <3>2, StaleKept DEF ExecBecomes
  <2>3. QED
    BY <2>1, <2>2
<1>3. ASSUME NEW t \in Tasks, Prepare(t) \/ Acquire(t)
      PROVE  StaleTransferCancelled'
  <2>1. CASE Finish(t)
    BY <1>3, <2>1, PrepareEffect, StaleKeptByFinish
  <2>2. CASE ~Finish(t)
    <3>1. PICK e \in Execution : /\ ExecBecomes(t, e) /\ e.profile = exec[t].profile
                                 /\ e.config = exec[t].config
      BY <1>3, <2>2, PrepareEffect
    <3>2. UNCHANGED profileVars /\ cancelled' = cancelled
      BY <1>3, <2>2, PrepareEffect
    <3>3. QED
      BY <3>1, <3>2, StaleKept DEF ExecBecomes
  <2>3. QED
    BY <2>1, <2>2
<1>4. ASSUME NEW t \in Tasks, StopsCancelled(t) \/ CopyEnds(t)
      PROVE  StaleTransferCancelled'
  BY <1>4, StopEffect, StaleKeptByFinish
<1>5. ASSUME NEW t \in Tasks, CancelTransfer(t)
      PROVE  StaleTransferCancelled'
  <2>1. {t} \in SUBSET Active(tasks) /\ CancelTasks({t}) /\ UNCHANGED profileVars
    BY <1>5 DEF CancelTransfer, TransferInv, HandlePerActive
  <2>2. QED
    BY <2>1, StaleKeptByCancel
<1>6. ASSUME NEW p \in Profiles, Enqueue(p)
      PROVE  StaleTransferCancelled'
  <2> DEFINE k == NewTask
             e == [pc |-> "begin", profile |-> None, config |-> 0]
  <2>1. e.config = 0
    OBVIOUS
  <2>2. /\ UNCHANGED profileVars /\ cancelled' = cancelled
        /\ exec' = [exec EXCEPT ![k] = e]
    BY <1>6 DEF Enqueue
  <2> HIDE DEF k, e
  <2>3. \A u \in Tasks : exec'[u].config = 0 \/ exec'[u] = exec[u]
    BY <2>1, <2>2 DEF TransferInv, ExecType
  <2>4. QED
    BY <2>2, <2>3, StaleKept
<1>7. CASE ClearFinished
  BY <1>7, StaleKept DEF ClearFinished
<1>8. CASE Shutdown
  BY <1>8, StaleKeptByCancel DEF Shutdown
<1>9. ASSUME NEW p \in Profiles, Disconnect(p)
      PROVE  StaleTransferCancelled'
  BY <1>9, StaleKeptByCancel, OfProfileActive DEF Disconnect
<1>10. ASSUME NEW c \in Calls, Proceeds(c)
       PROVE  StaleTransferCancelled'
  BY <1>10, StaleKeptByPolicy, StaleKeptByCancelProfile DEF Proceeds
<1>11. ASSUME NEW c \in Calls, NEW p \in Profiles, Save(c, p) \/ Delete(c, p)
       PROVE  StaleTransferCancelled'
  BY <1>11, StaleKeptByChange
<1>12. ASSUME NEW x \in Terminals, Opens(x)
       PROVE  StaleTransferCancelled'
  <2>1. UNCHANGED profileVars /\ exec' = exec /\ cancelled' = cancelled
    BY <1>12 DEF Opens, TerminalProfile, Recheck, Launch, OpenTerminal, transferVars
  <2>2. QED
    BY <2>1, StaleKept
<1>13. CASE UNCHANGED vars
  BY <1>13, StaleKept DEF vars, transferVars
<1>14. QED
  BY <1>1, <1>2, <1>3, <1>4, <1>5, <1>6, <1>7, <1>8, <1>9, <1>10, <1>11, <1>12, <1>13
     DEF Next, Executes, Opens

(***************************************************************************)
(* The inductive invariant                                                 *)
(***************************************************************************)

IInv ==
  /\ TransferInv /\ StoreType /\ CallType
  /\ TermType /\ TermInv
  /\ StaleTransferCancelled

LEMMA InitIInv ==
  ASSUME Init
  PROVE  IInv
<1>1. StoreType
  BY BoundAssumption DEF Init, StoreType
<1>2. \A t \in Tasks : tasks[t] = None /\ exec[t] = Ended
  BY DEF Init
<1>3. Active(tasks) = {} /\ Waiting(tasks) = {} /\ Running = {}
  BY <1>2, EndedExecution DEF Active, Waiting, Present, Running
<1>4. TasksType /\ ExecType
  BY <1>2, EndedExecution DEF Init, TasksType, TaskList, ExecType
<1>5. HandlePerActive /\ RunningIsExecuted
  BY <1>3 DEF Init, HandlePerActive, RunningIsExecuted
<1>6. CallType
  BY NoCallEffect DEF Init, CallType
<1>7. TermType /\ TermInv
  BY NoTerminalEffect DEF Init, TermType, TermInv
<1>8. StaleTransferCancelled
  BY <1>2, EndedExecution DEF StaleTransferCancelled, IsStale
<1>9. QED
  BY <1>1, <1>4, <1>5, <1>6, <1>7, <1>8 DEF IInv, TransferInv

LEMMA StepIInv ==
  ASSUME IInv, [Next]_vars
  PROVE  IInv'
BY TransferStep, ProfileStep, TermStep, TermInvStep, StaleStep DEF IInv

LEMMA Invariance == Spec => []IInv
<1>1. Init => IInv
  BY InitIInv
<1>2. IInv /\ [Next]_vars => IInv'
  BY StepIInv
<1>3. QED
  BY <1>1, <1>2, PTL DEF Spec

(***************************************************************************)
(* The results                                                             *)
(***************************************************************************)

\* The state of the service keeps its types: an execution that prepares,
\* waits for a permit or copies has a stored version of its profile.
THEOREM TypeCorrect == Spec => []TypeOK
<1>1. IInv => TypeOK
  BY DEF IInv, TransferInv, TasksType, TaskList, ExecType, StoreType, CallType, TermType, TypeOK
<1>2. QED
  BY <1>1, Invariance, PTL

\* Whatever is enqueued, cancelled, cleared, saved and deleted in whatever
\* order, exactly the tasks that wait or run have a cancellation handle.
THEOREM HandlesCorrect == Spec => []HandlePerActive
<1>1. IInv => HandlePerActive
  BY DEF IInv, TransferInv
<1>2. QED
  BY <1>1, Invariance, PTL

\* A task is shown as running if and only if somebody executes it.
THEOREM RunningCorrect == Spec => []RunningIsExecuted
<1>1. IInv => RunningIsExecuted
  BY DEF IInv, TransferInv
<1>2. QED
  BY <1>1, Invariance, PTL

\* However save and delete calls overlap, when they are done every transfer
\* that goes on with an old version of its profile has been told to stop.
THEOREM StaleCancelled == Spec => []StaleTransferCancelled
<1>1. IInv => StaleTransferCancelled
  BY DEF IInv
<1>2. QED
  BY <1>1, Invariance, PTL

\* However they overlap with the opening of terminals, a terminal that passes
\* the last test has the profile as it is stored, unless the call is still
\* between the store and the terminal policy.
THEOREM NoStaleTerminalStarts == Spec => []NoStaleTerminal
<1>1. IInv => NoStaleTerminal
  <2> SUFFICES ASSUME IInv, NEW x \in Terminals, term[x].pc = "launch", IsCurrent(x),
                      term[x].config # stored[term[x].profile]
               PROVE  Before(term[x].profile, {"advance", "block"})
    BY DEF NoStaleTerminal
  <2>1. term[x].config # 0 /\ term[x].generation \in Nat
    BY DEF IInv, TermType, Launching
  <2>2. ~(term[x].generation < generation[term[x].profile])
    BY <2>1 DEF IsCurrent
  <2>3. QED
    BY <2>1, <2>2 DEF IInv, TermInv
<1>2. QED
  BY <1>1, Invariance, PTL

=============================================================================
