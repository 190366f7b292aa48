--------------------------- MODULE SshQueue_proofs ---------------------------
(***************************************************************************)
(* Proofs about the queue of SshTransfers and its history: their limits,   *)
(* and what prune_history drops, for any number of tasks and any limits.   *)
(*                                                                         *)
(* Both the queue that remains and the pruned history count how many come  *)
(* before or after a task. Such a count is a bijection, whatever is        *)
(* counted, and the proofs rest on that.                                   *)
(***************************************************************************)
EXTENDS SshTransfers_proofs, FiniteSetTheorems, SequenceTheorems

(***************************************************************************)
(* Counting in an order                                                    *)
(***************************************************************************)

\* How many of F are not after a, where pos is their order.
Rank(F, pos) == [a \in F |-> Cardinality({b \in F : pos[b] <= pos[a]})]

\* The ranks of F are 1 to its size, each once, and they are in its order.
LEMMA RankBijection ==
  ASSUME NEW F, IsFiniteSet(F), NEW pos \in [F -> Int],
         \A a, b \in F : pos[a] = pos[b] => a = b
  PROVE  /\ Rank(F, pos) \in Bijection(F, 1 .. Cardinality(F))
         /\ \A a, b \in F : Rank(F, pos)[a] <= Rank(F, pos)[b] <=> pos[a] <= pos[b]
<1> DEFINE Upto(a) == {b \in F : pos[b] <= pos[a]}
           n == Cardinality(F)
           r == Rank(F, pos)
<1>0. n \in Nat
  BY FS_CardinalityType
<1>1. \A a \in F : r[a] = Cardinality(Upto(a))
  BY DEF Rank
<1>2. ASSUME NEW a \in F
      PROVE  IsFiniteSet(Upto(a)) /\ r[a] \in 1 .. n /\ r[a] \in Nat
  <2>1. Upto(a) \in SUBSET F /\ a \in Upto(a)
    OBVIOUS
  <2>2. IsFiniteSet(Upto(a)) /\ Cardinality(Upto(a)) <= n
    BY <2>1, FS_Subset
  <2>3. Cardinality(Upto(a)) \in Nat /\ Cardinality(Upto(a)) # 0
    BY <2>1, <2>2, FS_CardinalityType, FS_EmptySet
  <2>4. QED
    BY <1>0, <1>1, <2>2, <2>3
<1>3. ASSUME NEW a \in F, NEW b \in F, pos[a] < pos[b]
      PROVE  r[a] < r[b]
  <2>1. Upto(a) \in SUBSET Upto(b) /\ b \in Upto(b) /\ b \notin Upto(a)
    BY <1>3
  <2>2. /\ Cardinality(Upto(a)) <= Cardinality(Upto(b))
        /\ Cardinality(Upto(a)) # Cardinality(Upto(b))
    <3>1. IsFiniteSet(Upto(b))
      BY <1>2
    <3> HIDE DEF Upto
    <3>2. QED
      BY <2>1, <3>1, FS_Subset
  <2> HIDE DEF Upto, r
  <2>3. QED
    BY <1>1, <1>2, <2>2
<1>4. \A a, b \in F : r[a] <= r[b] <=> pos[a] <= pos[b]
  <2> HIDE DEF r
  <2> SUFFICES ASSUME NEW a \in F, NEW b \in F
               PROVE  r[a] <= r[b] <=> pos[a] <= pos[b]
    OBVIOUS
  <2>1. r[a] \in Nat /\ r[b] \in Nat /\ pos[a] \in Int /\ pos[b] \in Int
    BY <1>2
  <2>2. pos[a] = pos[b] => r[a] = r[b]
    OBVIOUS
  <2>3. QED
    BY <1>3, <2>1, <2>2
<1>5. r \in Injection(F, 1 .. n)
  <2>1. r \in [F -> 1 .. n]
    BY <1>2 DEF Rank
  <2>2. \A a, b \in F : r[a] = r[b] => a = b
    BY <1>2, <1>4
  <2>3. QED
    BY <2>1, <2>2 DEF Injection, IsInjective
<1>6. IsFiniteSet(1 .. n) /\ Cardinality(1 .. n) = n
  BY <1>0, FS_Interval
<1>7. r \in Surjection(F, 1 .. n)
  BY <1>5, <1>6, FS_Injection
<1>8. QED
  BY <1>4, <1>5, <1>7 DEF Bijection

(***************************************************************************)
(* The queue                                                               *)
(***************************************************************************)

\* The panel lists every task once.
QueueInv ==
  /\ queue \in Seq(Tasks)
  /\ \A i, j \in DOMAIN queue : queue[i] = queue[j] => i = j
  /\ {queue[i] : i \in DOMAIN queue} = Present(tasks)

\* The place of a task.
LEMMA Places ==
  ASSUME QueueInv
  PROVE  /\ DOMAIN queue = 1 .. Len(queue) /\ Len(queue) \in Nat
         /\ \A i \in DOMAIN queue : queue[i] \in Present(tasks) /\ At(queue[i]) = i
         /\ \A t \in Present(tasks) : At(t) \in DOMAIN queue /\ queue[At(t)] = t
<1>1. DOMAIN queue = 1 .. Len(queue) /\ Len(queue) \in Nat
  BY LenProperties DEF QueueInv
<1>2. \A t \in Present(tasks) : At(t) \in DOMAIN queue /\ queue[At(t)] = t
  BY DEF QueueInv, At
<1>3. \A i \in DOMAIN queue : queue[i] \in Present(tasks)
  BY DEF QueueInv
<1>4. \A i \in DOMAIN queue : At(queue[i]) = i
  BY <1>2, <1>3 DEF QueueInv
<1>5. QED
  BY <1>1, <1>2, <1>3, <1>4

\* The tasks are as many as the queue is long.
LEMMA PresentFinite ==
  ASSUME QueueInv
  PROVE  IsFiniteSet(Present(tasks)) /\ Cardinality(Present(tasks)) = Len(queue)
<1> DEFINE D == 1 .. Len(queue)
<1>1. DOMAIN queue = D /\ Len(queue) \in Nat
  BY Places
<1>2. IsFiniteSet(D) /\ Cardinality(D) = Len(queue)
  <2> DEFINE l == Len(queue)
  <2>1. l \in Nat
    BY <1>1
  <2> HIDE DEF l
  <2>2. IsFiniteSet(1 .. l) /\ Cardinality(1 .. l) = l
    BY <2>1, FS_Interval
  <2>3. QED
    BY <2>2 DEF l
<1>3. queue \in [D -> Present(tasks)]
  BY <1>1, Places, LenProperties DEF QueueInv
<1>4. queue \in Bijection(D, Present(tasks))
  BY <1>1, <1>3, Places DEF Bijection, Injection, Surjection, IsInjective
<1>5. ExistsBijection(D, Present(tasks))
  BY <1>4 DEF ExistsBijection
<1>6. QED
  BY <1>2, <1>5, FS_Bijection

\* What remains of the queue lists what remains, once and in the same order.
LEMMA InOrderKeeps ==
  ASSUME QueueInv, NEW ts, Present(ts) \subseteq Present(tasks)
  PROVE  /\ InOrder(ts) \in Seq(Tasks)
         /\ \A m, n \in DOMAIN InOrder(ts) : InOrder(ts)[m] = InOrder(ts)[n] => m = n
         /\ {InOrder(ts)[n] : n \in DOMAIN InOrder(ts)} = Present(ts)
         /\ \A m, n \in DOMAIN InOrder(ts) :
              m < n => At(InOrder(ts)[m]) < At(InOrder(ts)[n])
<1> DEFINE kept == {i \in DOMAIN queue : ts[queue[i]] # None}
           k == Cardinality(kept)
           place == [i \in kept |-> i]
           r == Rank(kept, place)
           pick(n) == CHOOSE i \in kept : Cardinality({j \in kept : j <= i}) = n
           q == InOrder(ts)
<1>1. IsFiniteSet(kept) /\ k \in Nat /\ kept \subseteq Nat
  <2>1. DOMAIN queue = 1 .. Len(queue) /\ Len(queue) \in Nat
    BY Places
  <2>2. IsFiniteSet(DOMAIN queue)
    BY <2>1, FS_Interval
  <2>3. kept \in SUBSET DOMAIN queue
    OBVIOUS
  <2>4. IsFiniteSet(kept)
    BY <2>2, <2>3, FS_Subset
  <2>5. QED
    BY <2>1, <2>3, <2>4, FS_CardinalityType
<1>2. place \in [kept -> Int] /\ \A a, b \in kept : place[a] = place[b] => a = b
  BY <1>1
<1>3. \A i \in kept : r[i] = Cardinality({j \in kept : j <= i})
  <2>1. ASSUME NEW i \in kept
        PROVE  {j \in kept : place[j] <= place[i]} = {j \in kept : j <= i}
    OBVIOUS
  <2>2. QED
    BY <2>1 DEF Rank
<1>4. /\ r \in Bijection(kept, 1 .. k)
      /\ \A a, b \in kept : r[a] <= r[b] <=> a <= b
  <2> HIDE DEF kept
  <2>1. /\ r \in Bijection(kept, 1 .. k)
        /\ \A a, b \in kept : r[a] <= r[b] <=> place[a] <= place[b]
    BY <1>1, <1>2, RankBijection
  <2>2. QED
    BY <2>1
<1>5. q = [n \in 1 .. k |-> queue[pick(n)]]
  BY DEF InOrder
<1>6. \A n \in 1 .. k : pick(n) \in kept /\ r[pick(n)] = n
  <2> SUFFICES ASSUME NEW n \in 1 .. k
               PROVE  pick(n) \in kept /\ r[pick(n)] = n
    OBVIOUS
  <2>1. \E i \in kept : r[i] = n
    BY <1>4 DEF Bijection, Surjection
  <2>2. \E i \in kept : Cardinality({j \in kept : j <= i}) = n
    BY <1>3, <2>1
  <2>3. pick(n) \in kept /\ Cardinality({j \in kept : j <= pick(n)}) = n
    BY <2>2
  <2>4. QED
    BY <1>3, <2>3
<1>7. \A i \in kept : r[i] \in 1 .. k /\ pick(r[i]) = i
  <2>1. r \in [kept -> 1 .. k]
    BY <1>4 DEF Bijection, Injection
  <2>2. \A i \in kept : r[i] \in 1 .. k /\ pick(r[i]) \in kept /\ r[pick(r[i])] = r[i]
    BY <1>6, <2>1
  <2> HIDE DEF kept, place, r, pick
  <2>3. \A a, b \in kept : r[a] = r[b] => a = b
    BY <1>1, <1>4, <2>2
  <2>4. QED
    BY <2>2, <2>3
<1>8. \A i \in kept : i \in DOMAIN queue /\ queue[i] \in Present(ts) /\ At(queue[i]) = i
  BY Places DEF Present
<1>9. \A t \in Present(ts) : At(t) \in kept /\ queue[At(t)] = t
  BY Places DEF Present
<1> HIDE DEF kept, place, k, r, pick, q
<1>10. DOMAIN q = 1 .. k /\ \A n \in 1 .. k : q[n] = queue[pick(n)]
  BY <1>5
<1>11. q \in Seq(Tasks)
  <2>1. \A n \in 1 .. k : q[n] \in Tasks
    BY <1>6, <1>8, <1>10 DEF Present
  <2>2. QED
    BY <1>1, <1>5, <1>10, <2>1
<1>12. \A m, n \in DOMAIN q : q[m] = q[n] => m = n
  BY <1>6, <1>8, <1>10
<1>13. {q[n] : n \in DOMAIN q} = Present(ts)
  <2>1. \A n \in 1 .. k : q[n] \in Present(ts)
    BY <1>6, <1>8, <1>10
  <2>2. \A t \in Present(ts) : r[At(t)] \in 1 .. k /\ q[r[At(t)]] = t
    BY <1>7, <1>9, <1>10
  <2>3. QED
    BY <1>10, <2>1, <2>2
<1>14. \A m, n \in DOMAIN q : m < n => At(q[m]) < At(q[n])
  <2> SUFFICES ASSUME NEW m \in 1 .. k, NEW n \in 1 .. k, m < n
               PROVE  At(q[m]) < At(q[n])
    BY <1>10
  <2>1. At(q[m]) = pick(m) /\ At(q[n]) = pick(n)
    BY <1>6, <1>8, <1>10
  <2>2. ~ (r[pick(n)] <= r[pick(m)])
    BY <1>6
  <2>3. ~ (pick(n) <= pick(m))
    BY <1>4, <1>6, <2>2
  <2>4. pick(m) \in Nat /\ pick(n) \in Nat
    BY <1>1, <1>6
  <2>5. QED
    BY <2>1, <2>3, <2>4
<1>15. QED
  BY <1>11, <1>12, <1>13, <1>14 DEF q

(***************************************************************************)
(* The history                                                             *)
(***************************************************************************)

\* prune_history leaves the newest finished tasks: the limit, if there are more.
LEMMA PruneBounds ==
  ASSUME QueueInv, NEW ts \in TaskList, Present(ts) \subseteq Present(tasks)
  PROVE  /\ Finished(Prune(ts)) \subseteq Finished(ts)
         /\ Present(Prune(ts)) \subseteq Present(ts)
         /\ IsFiniteSet(Finished(ts))
         /\ Cardinality(Finished(Prune(ts))) <= MaxHistory
         /\ \A t \in Present(ts) : Prune(ts)[t] = None =>
              Cardinality({u \in Finished(Prune(ts)) : At(u) > At(t)}) = MaxHistory
<1> DEFINE F == Finished(ts)
           K == Finished(Prune(ts))
           pos == [t \in F |-> -At(t)]
           r == Rank(F, pos)
           n == Cardinality(F)
<1>1. /\ IsFiniteSet(F) /\ n \in Nat /\ F \subseteq Present(tasks)
      /\ \A t \in F : At(t) \in Nat
      /\ \A t, u \in F : At(t) = At(u) => t = u
  <2>1. F \in SUBSET Present(tasks)
    BY DEF Finished
  <2>2. IsFiniteSet(F)
    BY <2>1, PresentFinite, FS_Subset
  <2>3. QED
    BY <2>1, <2>2, Places, FS_CardinalityType
<1>2. /\ r \in Bijection(F, 1 .. n)
      /\ \A t, u \in F : r[t] <= r[u] <=> At(t) >= At(u)
  <2>1. pos \in [F -> Int]
    BY <1>1
  <2>2. \A t, u \in F : pos[t] = pos[u] => t = u
    BY <1>1
  <2>3. \A t, u \in F : pos[t] <= pos[u] <=> At(t) >= At(u)
    BY <1>1
  <2> HIDE DEF F, pos
  <2>4. QED
    BY <1>1, <2>1, <2>2, <2>3, RankBijection
<1>3. \A t \in F : r[t] = Cardinality(NotOlder(ts, t))
  <2> SUFFICES ASSUME NEW t \in F
               PROVE  r[t] = Cardinality(NotOlder(ts, t))
    OBVIOUS
  <2>1. {u \in F : pos[u] <= pos[t]} = NotOlder(ts, t)
    BY <1>1 DEF NotOlder
  <2>2. QED
    BY <2>1 DEF Rank
<1>4. \A t \in Tasks : Prune(ts)[t] = IF t \in F /\ r[t] > MaxHistory THEN None ELSE ts[t]
  BY <1>3 DEF Prune, Finished, Present
<1>5. \A t \in F : t \in Tasks /\ ts[t] # None /\ ts[t].status = "ended" /\ r[t] \in 1 .. n
  BY <1>2 DEF Finished, Present, Bijection, Injection
<1> HIDE DEF r
<1>6. K = {t \in F : ~ (r[t] > MaxHistory)}
  BY <1>4, <1>5 DEF Finished, Present
<1>7. Present(Prune(ts)) \subseteq Present(ts)
  BY <1>4 DEF Present
<1>8. K \in SUBSET F /\ IsFiniteSet(K)
  BY <1>1, <1>6, FS_Subset
<1> DEFINE h == [t \in K |-> r[t]]
<1>9. MaxHistory \in Nat /\ IsFiniteSet(1 .. MaxHistory) /\ Cardinality(1 .. MaxHistory) = MaxHistory
  BY BoundAssumption, FS_Interval
<1>10. h \in Injection(K, 1 .. MaxHistory)
  <2>1. \A t \in K : t \in F /\ r[t] \in 1 .. MaxHistory
    BY <1>1, <1>5, <1>6, <1>9
  <2>2. \A t, u \in F : r[t] = r[u] => t = u
    BY <1>1, <1>2, <1>5
  <2> HIDE DEF F, K
  <2>3. h \in [K -> 1 .. MaxHistory]
    BY <2>1
  <2>4. \A t, u \in K : h[t] = h[u] => t = u
    BY <2>1, <2>2
  <2>5. QED
    BY <2>3, <2>4 DEF Injection, IsInjective
<1>11. Cardinality(K) <= MaxHistory
  BY <1>8, <1>9, <1>10, FS_Injection
<1>12. ASSUME NEW t \in Present(ts), Prune(ts)[t] = None
       PROVE  Cardinality({u \in K : At(u) > At(t)}) = MaxHistory
  <2>1. t \in F /\ r[t] > MaxHistory
    BY <1>4, <1>12 DEF Present
  <2>2. \A u \in K : At(u) > At(t)
    <3> SUFFICES ASSUME NEW u \in K
                 PROVE  At(u) > At(t)
      OBVIOUS
    <3>1. u \in F /\ ~ (r[t] <= r[u])
      BY <1>5, <1>6, <1>9, <2>1
    <3>2. QED
      BY <1>1, <1>2, <2>1, <3>1
  <2>3. {u \in K : At(u) > At(t)} = K
    BY <2>2
  <2>4. \A j \in 1 .. MaxHistory : \E u \in K : h[u] = j
    <3> SUFFICES ASSUME NEW j \in 1 .. MaxHistory
                 PROVE  \E u \in K : h[u] = j
      OBVIOUS
    <3>1. j \in 1 .. n
      BY <1>1, <1>5, <1>9, <2>1
    <3>2. PICK u \in F : r[u] = j
      BY <1>2, <3>1 DEF Bijection, Surjection
    <3>3. u \in K
      BY <1>6, <1>9, <3>2
    <3>4. QED
      BY <3>2, <3>3
  <2>5. h \in Surjection(K, 1 .. MaxHistory)
    BY <1>10, <2>4 DEF Injection, Surjection
  <2> HIDE DEF h, K
  <2>6. Cardinality(K) = MaxHistory
    BY <1>9, <1>10, <2>5, FS_Injection
  <2>7. QED
    BY <2>3, <2>6
<1>13. QED
  BY <1>1, <1>7, <1>8, <1>11, <1>12

(***************************************************************************)
(* The steps                                                               *)
(***************************************************************************)

HistoryInv ==
  /\ IsFiniteSet(Present(tasks))
  /\ Cardinality(Active(tasks)) <= MaxQueued
  /\ Cardinality(Finished(tasks)) <= MaxHistory

\* What changes the task list: a task is added, runs or ends, or the history
\* is cleared.
Ends == \E S \in SUBSET Active(tasks) : SetTasks(Prune(End(tasks, S)))

LEMMA QueueSteps ==
  ASSUME [Next]_vars
  PROVE  \/ UNCHANGED <<tasks, queue>>
         \/ \E t \in Tasks : Begin(t)
         \/ \E p \in Profiles : Enqueue(p)
         \/ Ends
         \/ ClearFinished
<1>1. ASSUME NEW t \in Tasks, Finish(t)
      PROVE  Ends
  BY <1>1 DEF Finish, Ends
<1>2. ASSUME NEW S, CancelTasks(S)
      PROVE  Ends
  <2>1. S \cap Waiting(tasks) \in SUBSET Active(tasks)
    BY DEF Waiting, Active
  <2>2. QED
    BY <1>2, <2>1 DEF CancelTasks, Ends
<1>3. ASSUME NEW t \in Tasks, ReadProfile(t) \/ Prepare(t) \/ Acquire(t) \/ StopsCancelled(t) \/ CopyEnds(t)
      PROVE  UNCHANGED <<tasks, queue>> \/ Ends
  BY <1>1, <1>3 DEF ReadProfile, Prepare, Acquire, StopsCancelled, CopyEnds
<1>4. ASSUME NEW t \in Tasks, CancelTransfer(t)
      PROVE  Ends
  BY <1>2, <1>4 DEF CancelTransfer
<1>5. ASSUME NEW p \in Profiles, Disconnect(p)
      PROVE  Ends
  BY <1>2, <1>5 DEF Disconnect
<1>6. CASE Shutdown
  BY <1>2, <1>6 DEF Shutdown
<1>7. ASSUME NEW c \in Calls, Proceeds(c)
      PROVE  UNCHANGED <<tasks, queue>> \/ Ends
  BY <1>2, <1>7 DEF Proceeds, Advance, Block, CancelProfile, transferVars
<1>8. ASSUME NEW c \in Calls, NEW p \in Profiles, Save(c, p) \/ Delete(c, p)
      PROVE  UNCHANGED <<tasks, queue>>
  BY <1>8 DEF Save, Delete, transferVars
<1>9. ASSUME NEW x \in Terminals, Opens(x)
      PROVE  UNCHANGED <<tasks, queue>>
  BY <1>9 DEF Opens, OpenTerminal, TerminalProfile, Recheck, Launch, transferVars
<1>10. CASE UNCHANGED vars
  BY <1>10 DEF vars, transferVars
<1>11. QED
  BY <1>3, <1>4, <1>5, <1>6, <1>7, <1>8, <1>9, <1>10 DEF Next, Executes, Opens

\* Active and finished tasks are apart, and both are in the panel.
LEMMA Parts ==
  ASSUME NEW ts
  PROVE  /\ Active(ts) \subseteq Present(ts) /\ Finished(ts) \subseteq Present(ts)
         /\ Present(ts) \subseteq Tasks
BY DEF Active, Finished, Present

\* A change of the list without new tasks, that keeps no finished task it
\* should drop.
LEMMA FewerTasks ==
  ASSUME HistoryInv, QueueInv, Present(tasks') \subseteq Present(tasks), queue' = InOrder(tasks'),
         Active(tasks') \subseteq Active(tasks), Cardinality(Finished(tasks')) <= MaxHistory
  PROVE  QueueInv' /\ HistoryInv'
<1>1. QueueInv'
  BY InOrderKeeps DEF QueueInv
<1>2. IsFiniteSet(Present(tasks'))
  BY FS_Subset DEF HistoryInv
<1>3. IsFiniteSet(Active(tasks))
  BY Parts, FS_Subset DEF HistoryInv
<1>4. Cardinality(Active(tasks')) <= Cardinality(Active(tasks))
      /\ Cardinality(Active(tasks)) \in Nat /\ Cardinality(Active(tasks')) \in Nat
  BY <1>3, FS_Subset, FS_CardinalityType
<1>5. QED
  BY <1>1, <1>2, <1>4, BoundAssumption DEF HistoryInv

LEMMA EndStep ==
  ASSUME TasksType, QueueInv, HistoryInv, Ends
  PROVE  QueueInv' /\ HistoryInv'
<1>1. PICK S \in SUBSET Active(tasks) : SetTasks(Prune(End(tasks, S)))
  BY DEF Ends
<1> DEFINE es == End(tasks, S)
<1>2. es \in TaskList /\ Active(es) = Active(tasks) \ S /\ \A t \in Tasks \ S : es[t] = tasks[t]
  BY EndKeeps DEF TasksType
<1>3. Present(es) \subseteq Present(tasks)
  BY <1>2, Parts DEF Present
<1> HIDE DEF es
<1>4. tasks' = Prune(es) /\ queue' = InOrder(tasks')
  BY <1>1 DEF SetTasks, es
<1>5. Active(tasks') \subseteq Active(tasks)
  BY <1>2, <1>4, PruneKeeps
<1>6. Present(tasks') \subseteq Present(tasks) /\ Cardinality(Finished(tasks')) <= MaxHistory
  BY <1>2, <1>3, <1>4, PruneBounds
<1>7. QED
  BY <1>4, <1>5, <1>6, FewerTasks

LEMMA ClearStep ==
  ASSUME TasksType, QueueInv, HistoryInv, ClearFinished
  PROVE  QueueInv' /\ HistoryInv'
<1> DEFINE ts == [t \in Tasks |-> IF t \in Finished(tasks) THEN None ELSE tasks[t]]
<1>1. tasks' = ts /\ queue' = InOrder(tasks')
  BY DEF ClearFinished, SetTasks
<1>2. Present(ts) \subseteq Present(tasks) /\ Active(ts) \subseteq Active(tasks)
  BY DEF Present, Active, Finished
<1>3. Finished(ts) = {}
  BY DEF Present, Finished
<1>4. Cardinality(Finished(tasks')) <= MaxHistory
  BY <1>1, <1>3, FS_EmptySet, BoundAssumption
<1>5. QED
  BY <1>1, <1>2, <1>4, FewerTasks

LEMMA BeginStep ==
  ASSUME TasksType, QueueInv, HistoryInv, NEW t \in Tasks, Begin(t)
  PROVE  QueueInv' /\ HistoryInv'
<1>1. CASE t \notin Waiting(tasks)
  BY <1>1 DEF Begin, QueueInv, HistoryInv
<1>2. CASE t \in Waiting(tasks)
  <2> DEFINE n == [tasks[t] EXCEPT !.status = "running"]
  <2>1. tasks' = [tasks EXCEPT ![t] = n] /\ queue' = queue
    BY <1>2 DEF Begin
  <2>2. tasks[t] \in Task /\ tasks[t] # None /\ tasks[t].status = "waiting"
    BY <1>2 DEF Waiting, Present, TasksType, TaskList
  <2>3. n \in Task /\ n.status = "running" /\ n # None
    BY <2>2, NoneIsNoTask DEF Task
  <2> HIDE DEF n
  <2>4. tasks'[t] = n /\ \A u \in Tasks : u # t => tasks'[u] = tasks[u]
    BY <2>1 DEF TasksType, TaskList
  <2>5. /\ Present(tasks') = Present(tasks) /\ Active(tasks') = Active(tasks)
        /\ Finished(tasks') = Finished(tasks)
    BY <2>2, <2>3, <2>4 DEF Present, Active, Finished
  <2>6. QED
    BY <2>1, <2>5 DEF QueueInv, HistoryInv
<1>3. QED
  BY <1>1, <1>2

\* The new task comes last, and the history is pruned before.
LEMMA EnqueueStep ==
  ASSUME TasksType, QueueInv, HistoryInv, NEW p \in Profiles, Enqueue(p)
  PROVE  QueueInv' /\ HistoryInv'
<1> DEFINE k == NewTask
           n == [profile |-> p, status |-> "waiting"]
           ps == Prune(tasks)
           q == InOrder(ps)
<1>1. k \in Tasks /\ tasks[k] = None
  <2>1. NewTask \in Unused
    BY DEF Enqueue, NewTask
  <2>2. QED
    BY <2>1 DEF Unused
<1>2. n # None /\ n.status = "waiting"
  <2>1. n \in Task
    BY DEF Task
  <2>2. QED
    BY <2>1, NoneIsNoTask
<1>3. tasks' = [ps EXCEPT ![k] = n] /\ queue' = Append(q, k) /\ Cardinality(Active(tasks)) < MaxQueued
  BY DEF Enqueue, HasRoom
<1>4. /\ ps \in TaskList /\ Active(ps) = Active(tasks)
      /\ \A t \in Tasks : tasks[t] = None => ps[t] = None
  BY PruneKeeps DEF TasksType
<1>5. Present(ps) \subseteq Present(tasks) /\ Cardinality(Finished(ps)) <= MaxHistory
  <2>1. Present(tasks) \subseteq Present(tasks)
    OBVIOUS
  <2>2. QED
    BY <2>1, PruneBounds DEF TasksType
<1>6. /\ q \in Seq(Tasks)
      /\ \A i, j \in DOMAIN q : q[i] = q[j] => i = j
      /\ {q[i] : i \in DOMAIN q} = Present(ps)
  BY <1>5, InOrderKeeps
<1> HIDE DEF k, n, ps, q
<1>7. tasks'[k] = n /\ \A t \in Tasks : t # k => tasks'[t] = ps[t]
  BY <1>1, <1>3, <1>4 DEF TaskList
<1>8. ps[k] = None /\ k \notin Present(ps) /\ k \notin Active(ps) /\ k \notin Finished(ps)
  BY <1>1, <1>4 DEF Present, Active, Finished
<1>9. /\ Present(tasks') = Present(ps) \cup {k} /\ Active(tasks') = Active(ps) \cup {k}
      /\ Finished(tasks') = Finished(ps)
  BY <1>1, <1>2, <1>7, <1>8 DEF Present, Active, Finished
<1>10. IsFiniteSet(Present(ps)) /\ IsFiniteSet(Active(ps))
  BY <1>5, Parts, FS_Subset DEF HistoryInv
<1>11. Cardinality(Active(tasks')) <= MaxQueued
  <2>1. Cardinality(Active(ps) \cup {k}) = Cardinality(Active(ps)) + 1
    BY <1>8, <1>10, FS_AddElement
  <2>2. Cardinality(Active(ps)) \in Nat
    BY <1>10, FS_CardinalityType
  <2>3. Cardinality(Active(ps)) < MaxQueued /\ MaxQueued \in Nat
    BY <1>3, <1>4, BoundAssumption
  <2>4. Cardinality(Active(ps)) + 1 <= MaxQueued
    BY <2>2, <2>3
  <2>5. QED
    BY <1>9, <2>1, <2>4
<1>12. IsFiniteSet(Present(tasks'))
  BY <1>9, <1>10, FS_AddElement
<1>13. /\ queue' \in Seq(Tasks) /\ Len(q) \in Nat /\ DOMAIN q = 1 .. Len(q)
       /\ DOMAIN queue' = 1 .. Len(q) + 1
       /\ \A i \in 1 .. Len(q) : queue'[i] = q[i]
       /\ queue'[Len(q) + 1] = k
  BY <1>1, <1>3, <1>6, AppendProperties, LenProperties
<1>14. \A i \in 1 .. Len(q) : queue'[i] # k
  BY <1>6, <1>8, <1>13
<1>15. \A i \in DOMAIN queue' : i \in 1 .. Len(q) \/ i = Len(q) + 1
  BY <1>13
<1>16. \A i, j \in DOMAIN queue' : queue'[i] = queue'[j] => i = j
  BY <1>6, <1>13, <1>14, <1>15
<1>17. {queue'[i] : i \in DOMAIN queue'} = Present(tasks')
  <2>1. \A i \in DOMAIN queue' : queue'[i] \in Present(tasks')
    BY <1>6, <1>9, <1>13, <1>15
  <2>2. \A t \in Present(tasks') : \E i \in DOMAIN queue' : queue'[i] = t
    <3> SUFFICES ASSUME NEW t \in Present(tasks')
                 PROVE  \E i \in DOMAIN queue' : queue'[i] = t
      OBVIOUS
    <3>1. CASE t = k
      <4>1. Len(q) + 1 \in DOMAIN queue'
        BY <1>13
      <4>2. QED
        BY <3>1, <4>1, <1>13
    <3>2. CASE t # k
      <4>1. PICK i \in DOMAIN q : q[i] = t
        BY <3>2, <1>6, <1>9
      <4>2. i \in DOMAIN queue'
        BY <1>13
      <4>3. QED
        BY <4>1, <4>2, <1>13
    <3>3. QED
      BY <3>1, <3>2
  <2>3. QED
    BY <2>1, <2>2
<1>18. QED
  BY <1>5, <1>9, <1>11, <1>12, <1>13, <1>16, <1>17 DEF QueueInv, HistoryInv

LEMMA QueueStep ==
  ASSUME TasksType, QueueInv, HistoryInv, [Next]_vars
  PROVE  QueueInv' /\ HistoryInv'
<1>1. CASE UNCHANGED <<tasks, queue>>
  BY <1>1 DEF QueueInv, HistoryInv
<1>2. QED
  BY <1>1, QueueSteps, BeginStep, EnqueueStep, EndStep, ClearStep

LEMMA QueueInit ==
  ASSUME Init
  PROVE  QueueInv /\ HistoryInv
<1>1. queue = <<>> /\ Present(tasks) = {} /\ Active(tasks) = {} /\ Finished(tasks) = {}
  BY DEF Init, Present, Active, Finished
<1>2. queue \in Seq(Tasks) /\ DOMAIN queue = {}
  BY <1>1
<1>3. QueueInv
  BY <1>1, <1>2 DEF QueueInv
<1>4. HistoryInv
  BY <1>1, FS_EmptySet, BoundAssumption DEF HistoryInv
<1>5. QED
  BY <1>3, <1>4

LEMMA QueueInvariance == Spec => [](QueueInv /\ HistoryInv)
<1>1. IInv => TasksType
  BY DEF IInv, TransferInv
<1>2. Init => QueueInv /\ HistoryInv
  BY QueueInit
<1>3. TasksType /\ QueueInv /\ HistoryInv /\ [Next]_vars => QueueInv' /\ HistoryInv'
  BY QueueStep
<1>4. QED
  BY <1>1, <1>2, <1>3, Invariance, PTL DEF Spec

(***************************************************************************)
(* The results                                                             *)
(***************************************************************************)

\* Queue and history keep to their limits, and the panel lists every task
\* once.
THEOREM QueueBounded == Spec => []QueueBound
<1>1. QueueInv /\ HistoryInv => QueueBound
  BY PresentFinite DEF QueueInv, HistoryInv, QueueBound
<1>2. QED
  BY <1>1, QueueInvariance, PTL

\* Only the user, by clearing the history, and prune_history take tasks from the
\* panel; the latter takes finished ones, and only those that have as many
\* newer ones as the history may have.
LEMMA OldestStep ==
  ASSUME TasksType, QueueInv, [Next]_vars,
         NEW t \in Present(tasks), tasks'[t] = None, ~ ClearFinished
  PROVE  Cardinality({u \in Finished(tasks') : u \in Present(tasks) /\ At(u) > At(t)}) = MaxHistory
<1>0. t \in Tasks /\ tasks[t] # None /\ tasks[t] \in Task
  BY DEF Present, TasksType, TaskList
<1>1. CASE Ends
  <2>1. PICK S \in SUBSET Active(tasks) : SetTasks(Prune(End(tasks, S)))
    BY <1>1 DEF Ends
  <2> DEFINE es == End(tasks, S)
  <2>2. es \in TaskList /\ \A u \in Tasks \ S : es[u] = tasks[u]
    BY EndKeeps DEF TasksType
  <2>3. Present(es) \subseteq Present(tasks)
    BY <2>2, Parts DEF Present, Active
  <2>4. t \in Present(es)
    <3>1. CASE t \in S
      <4>1. es[t] \in Task
        BY <1>0, <3>1 DEF End, Task
      <4>2. QED
        BY <1>0, <4>1, NoneIsNoTask DEF Present
    <3>2. CASE t \notin S
      BY <1>0, <2>2, <3>2 DEF Present
    <3>3. QED
      BY <3>1, <3>2
  <2> HIDE DEF es
  <2>5. tasks' = Prune(es)
    BY <2>1 DEF SetTasks, es
  <2>6. /\ Finished(tasks') \subseteq Present(tasks)
        /\ Cardinality({u \in Finished(tasks') : At(u) > At(t)}) = MaxHistory
    <3>1. /\ Present(Prune(es)) \subseteq Present(es)
          /\ Cardinality({u \in Finished(Prune(es)) : At(u) > At(t)}) = MaxHistory
      BY <2>2, <2>3, <2>4, <2>5, PruneBounds
    <3>2. QED
      BY <2>3, <2>5, <3>1, Parts
  <2>7. {u \in Finished(tasks') : u \in Present(tasks) /\ At(u) > At(t)}
        = {u \in Finished(tasks') : At(u) > At(t)}
    BY <2>6
  <2>8. QED
    BY <2>6, <2>7
<1>2. ASSUME NEW p \in Profiles, Enqueue(p)
      PROVE  Cardinality({u \in Finished(tasks') : u \in Present(tasks) /\ At(u) > At(t)}) = MaxHistory
  <2> DEFINE k == NewTask
             n == [profile |-> p, status |-> "waiting"]
             ps == Prune(tasks)
  <2>1. k \in Tasks /\ tasks[k] = None
    <3>1. NewTask \in Unused
      BY <1>2 DEF Enqueue, NewTask
    <3>2. QED
      BY <3>1 DEF Unused
  <2>2. tasks' = [ps EXCEPT ![k] = n] /\ n.status = "waiting"
    BY <1>2 DEF Enqueue
  <2>3. ps \in TaskList /\ ps[k] = None
    BY <2>1, PruneKeeps DEF TasksType
  <2>4. /\ Present(ps) \subseteq Present(tasks)
        /\ \A u \in Present(tasks) : ps[u] = None =>
             Cardinality({v \in Finished(ps) : At(v) > At(u)}) = MaxHistory
    <3>1. Present(tasks) \subseteq Present(tasks)
      OBVIOUS
    <3>2. QED
      BY <3>1, PruneBounds DEF TasksType
  <2> HIDE DEF k, n, ps
  <2>5. tasks'[k] = n /\ \A u \in Tasks : u # k => tasks'[u] = ps[u]
    BY <2>1, <2>2, <2>3 DEF TaskList
  <2>6. Finished(tasks') = Finished(ps)
    BY <2>1, <2>2, <2>3, <2>5 DEF Finished, Present
  <2>7. ps[t] = None
    BY <1>0, <2>1, <2>5
  <2>8. {u \in Finished(tasks') : u \in Present(tasks) /\ At(u) > At(t)}
        = {u \in Finished(ps) : At(u) > At(t)}
    BY <2>4, <2>6, Parts
  <2>9. QED
    BY <2>4, <2>7, <2>8
<1>3. ASSUME NEW u \in Tasks, Begin(u)
      PROVE  FALSE
  <2>1. tasks' = tasks \/ tasks' = [tasks EXCEPT ![u].status = "running"]
    BY <1>3 DEF Begin
  <2>2. tasks'[t] = [tasks[t] EXCEPT !.status = "running"]
    BY <1>0, <2>1 DEF TasksType, TaskList
  <2>3. tasks'[t] \in Task
    BY <1>0, <2>2 DEF Task
  <2>4. QED
    BY <2>3, NoneIsNoTask
<1>4. QED
  BY <1>0, <1>1, <1>2, <1>3, QueueSteps

\* Whatever leaves the panel the user has cleared, or a full history has pruned
\* as one of its oldest; no task that waits or runs ever leaves it.
THEOREM OldestArePruned == Spec => OldestPruned
<1>1. IInv => TasksType
  BY DEF IInv, TransferInv
<1>2. TasksType /\ QueueInv /\ [Next]_vars =>
        [\A t \in Present(tasks) : tasks'[t] = None =>
           \/ ClearFinished
           \/ Cardinality({u \in Finished(tasks') : u \in Present(tasks) /\ At(u) > At(t)}) = MaxHistory]_vars
  BY OldestStep
<1>3. QED
  BY <1>1, <1>2, Invariance, QueueInvariance, PTL DEF Spec, OldestPruned
=============================================================================
