----------------------------- MODULE TaskQueues -----------------------------
(***************************************************************************)
(* fml/message_loop_task_queues.cc: the task queues of all message loops,  *)
(* the timer that wakes each loop, and the merging of two queues, by which *)
(* the loop of an owner queue also runs the tasks of a subsumed queue.     *)
(*                                                                         *)
(* Every queue has a mutex, and the operations differ in which ones they   *)
(* hold: GetTasksToRunNow holds the owner's while it reads and pops the    *)
(* subsumed queue, and RegisterTask holds only the mutex of the queue it   *)
(* registers with.  The two are therefore split into the steps another     *)
(* thread can see; the operations that hold the mutexes of all the queues  *)
(* they touch are single actions.                                          *)
(***************************************************************************)
EXTENDS Integers, Sequences

CONSTANTS Queues,     \* the queue ids handed out by CreateTaskQueue
          kUnmerged,  \* the id of no queue
          MaxTime,    \* bound on time
          MaxTasks,   \* bound on the number of tasks registered
          MaxMerges   \* bound on the number of merges

ASSUME QueuesAssumption == kUnmerged \notin Queues
ASSUME LimitsAssumption == MaxTime \in Nat /\ MaxTasks \in Nat /\ MaxMerges \in Nat

VARIABLES tasks,       \* delayed_tasks of each queue
          ownerOf,     \* owner_of
          subsumedBy,  \* subsumed_by
          wake,        \* the time each loop's timer is armed for
          order,       \* order_
          now,         \* fml::TimePoint::Now()
          registering, \* the queues a RegisterTask is in the middle of
          loop,        \* where each loop's thread is
          flushTime,   \* the time read by GetTasksToRunNow
          rearm,       \* the time GetTasksToRunNow is about to arm the timer for
          batch,       \* invocations: taken by each loop and not yet run
          done,        \* history: the tasks that were run
          merges       \* history: the number of merges

mergeVars == <<ownerOf, subsumedBy, merges>>
flushVars == <<loop, flushTime, rearm, batch>>
vars == <<tasks, ownerOf, subsumedBy, wake, order, now, registering, loop,
          flushTime, rearm, batch, done, merges>>

Time == 0..MaxTime
Never == MaxTime + 1  \* fml::TimePoint::Max()
Task == [order : Nat, time : Time, home : Queues]
LoopState == {"waiting", "woken", "taking", "popping", "rearming", "running"}

\* A queue whose mutex is held.
Locked(q) == registering[q] \/ loop[q] \in {"taking", "popping", "rearming"}

Init ==
    /\ tasks = [q \in Queues |-> {}]
    /\ ownerOf = [q \in Queues |-> kUnmerged]
    /\ subsumedBy = [q \in Queues |-> kUnmerged]
    /\ wake = [q \in Queues |-> Never]
    /\ order = 0 /\ now = 0 /\ done = {} /\ merges = 0
    /\ registering = [q \in Queues |-> FALSE]
    /\ loop = [q \in Queues |-> "waiting"]
    /\ flushTime = [q \in Queues |-> 0]
    /\ rearm = [q \in Queues |-> Never]
    /\ batch = [q \in Queues |-> <<>>]

-----------------------------------------------------------------------------
(* Helpers.                                                                 *)

\* Mutant: the order of registration does not break ties.
AfterByTime(t, u) == t.time > u.time

\* DelayedTask::operator>
After(t, u) == IF t.time = u.time THEN t.order > u.order ELSE t.time > u.time

\* t is delayed_tasks.top() of the queue contents S.
IsTop(t, S) == t \in S /\ \A u \in S : ~After(t, u)

\* The tasks of the queue that q owns, if any.
SubsumedTasks(q) == IF ownerOf[q] = kUnmerged THEN {} ELSE tasks[ownerOf[q]]

\* HasPendingTasksUnlocked
HasPendingTasks(q) ==
    /\ subsumedBy[q] = kUnmerged
    /\ tasks[q] # {} \/ SubsumedTasks(q) # {}

\* Mutant: the owner's tasks come first.
IsNextTaskOwnerFirst(q, t) ==
    IF tasks[q] # {} THEN IsTop(t, tasks[q]) ELSE IsTop(t, SubsumedTasks(q))

\* PeekNextTaskUnlocked
IsNextTask(q, t) ==
    IF tasks[q] # {} /\ SubsumedTasks(q) # {}
    THEN \E o \in tasks[q], u \in SubsumedTasks(q) :
           /\ IsTop(o, tasks[q]) /\ IsTop(u, SubsumedTasks(q))
           /\ t = IF After(o, u) THEN u ELSE o
    ELSE IsTop(t, tasks[q]) \/ IsTop(t, SubsumedTasks(q))

-----------------------------------------------------------------------------
(* RegisterTask, by any thread.                                             *)

\* The task is pushed, under the queue's mutex.
RegisterTask(q, time) ==
    /\ ~Locked(q) /\ order < MaxTasks
    /\ tasks' = [tasks EXCEPT ![q] = @ \cup {[order |-> order, time |-> time, home |-> q]}]
    /\ order' = order + 1
    /\ registering' = [registering EXCEPT ![q] = TRUE]
    /\ UNCHANGED <<mergeVars, wake, now, flushVars, done>>

LoopToWake(q) == IF subsumedBy[q] # kUnmerged THEN subsumedBy[q] ELSE q

\* The loop is woken for the queue's own top, and the mutex released.
RegisterWakeUp(q) ==
    /\ registering[q]
    /\ \E t \in tasks[q] : /\ IsTop(t, tasks[q])
                           /\ wake' = [wake EXCEPT ![LoopToWake(q)] = t.time]
    /\ registering' = [registering EXCEPT ![q] = FALSE]
    /\ UNCHANGED <<tasks, mergeVars, order, now, flushVars, done>>

\* top() of an empty queue is undefined: the loop may be woken for any time.
RegisterWakeUpEmpty(q) ==
    /\ registering[q]
    /\ tasks[q] = {}
    /\ \E t \in Time \cup {Never} : wake' = [wake EXCEPT ![LoopToWake(q)] = t]
    /\ registering' = [registering EXCEPT ![q] = FALSE]
    /\ UNCHANGED <<tasks, mergeVars, order, now, flushVars, done>>

-----------------------------------------------------------------------------
(* The thread of loop q: its timer fires, it flushes the expired tasks and  *)
(* runs them.                                                               *)

\* The loop's timer expires (and is not armed again by itself).
TimerFires(q) ==
    /\ loop[q] = "waiting" /\ wake[q] <= now
    /\ wake' = [wake EXCEPT ![q] = Never]
    /\ loop' = [loop EXCEPT ![q] = "woken"]
    /\ UNCHANGED <<tasks, mergeVars, order, now, registering, flushTime, rearm, batch, done>>

\* GetTasksToRunNow: the mutex, the check for pending tasks and the clock.
FlushBegin(q) ==
    /\ loop[q] = "woken" /\ ~Locked(q)
    /\ loop' = [loop EXCEPT ![q] = IF HasPendingTasks(q) THEN "taking" ELSE "waiting"]
    /\ flushTime' = [flushTime EXCEPT ![q] = IF HasPendingTasks(q) THEN now ELSE 0]
    /\ UNCHANGED <<tasks, mergeVars, wake, order, now, registering, rearm, batch, done>>

\* One round of the loop: the next expired task of both queues is looked up and
\* its closure copied to the invocations ...
FlushTake(q) ==
    /\ loop[q] = "taking" /\ HasPendingTasks(q)
    /\ \E t \in UNION {tasks[p] : p \in Queues} :
         /\ IsNextTask(q, t) /\ t.time <= flushTime[q]
         /\ batch' = [batch EXCEPT ![q] = Append(@, t)]
    /\ loop' = [loop EXCEPT ![q] = "popping"]
    /\ UNCHANGED <<tasks, mergeVars, wake, order, now, registering, flushTime, rearm, done>>

\* The queue the latest invocation of loop q is from.
TopQueue(q) == batch[q][Len(batch[q])].home

\* ... and the top of the queue it is from is popped, whatever that is by now.
FlushPop(q) ==
    /\ loop[q] = "popping"
    /\ \E t \in tasks[TopQueue(q)] :
         /\ IsTop(t, tasks[TopQueue(q)])
         /\ tasks' = [tasks EXCEPT ![TopQueue(q)] = @ \ {t}]
    /\ loop' = [loop EXCEPT ![q] = "taking"]
    /\ UNCHANGED <<batch, mergeVars, wake, order, now, registering, flushTime, rearm, done>>

\* The loop ends: the time of the next wake up is read.
FlushEnd(q) ==
    /\ loop[q] = "taking"
    /\ \/ ~HasPendingTasks(q) /\ rearm' = [rearm EXCEPT ![q] = Never]
       \/ /\ HasPendingTasks(q)
          /\ \E t \in UNION {tasks[p] : p \in Queues} :
               /\ IsNextTask(q, t) /\ t.time > flushTime[q]
               /\ rearm' = [rearm EXCEPT ![q] = t.time]
    /\ loop' = [loop EXCEPT ![q] = "rearming"]
    /\ UNCHANGED <<tasks, mergeVars, wake, order, now, registering, flushTime, batch, done>>

\* Mutant: the timer is not armed again.
FlushNoRearm(q) ==
    /\ loop[q] = "rearming"
    /\ loop' = [loop EXCEPT ![q] = IF batch[q] = <<>> THEN "waiting" ELSE "running"]
    /\ UNCHANGED <<tasks, mergeVars, wake, order, now, registering, flushTime, rearm, batch, done>>

\* The timer is armed for it, and the mutex released; the locals are reset.
FlushRearm(q) ==
    /\ loop[q] = "rearming"
    /\ wake' = [wake EXCEPT ![q] = rearm[q]]
    /\ loop' = [loop EXCEPT ![q] = IF batch[q] = <<>> THEN "waiting" ELSE "running"]
    /\ rearm' = [rearm EXCEPT ![q] = Never]
    /\ flushTime' = [flushTime EXCEPT ![q] = 0]
    /\ UNCHANGED <<tasks, mergeVars, order, now, registering, batch, done>>

\* FlushTasks: the next of the invocations has run.
RunTask(q) ==
    /\ loop[q] = "running"
    /\ done' = done \cup {Head(batch[q])}
    /\ batch' = [batch EXCEPT ![q] = Tail(@)]
    /\ loop' = [loop EXCEPT ![q] = IF Len(batch[q]) = 1 THEN "waiting" ELSE "running"]
    /\ UNCHANGED <<tasks, mergeVars, wake, order, now, registering, flushTime, rearm>>

-----------------------------------------------------------------------------
(* Merge and Unmerge.                                                       *)

\* The loops in L are woken for their next task, if they have one.
WakeForNext(L) ==
    /\ wake' \in [Queues -> Time \cup {Never}]
    /\ \A q \in Queues :
         IF q \in L /\ HasPendingTasks(q)'
         THEN \E t \in UNION {tasks[p] : p \in Queues} :
                IsNextTask(q, t)' /\ wake'[q] = t.time
         ELSE wake'[q] = wake[q]

\* Merge(owner, subsumed), where it changes anything: both mutexes are held
\* and neither queue is merged.  Otherwise it only returns an answer.
Merge(o, s) ==
    /\ ~Locked(o) /\ ~Locked(s) /\ merges < MaxMerges
    /\ o # s
    /\ \A q \in {o, s} : ownerOf[q] = kUnmerged /\ subsumedBy[q] = kUnmerged
    /\ ownerOf' = [ownerOf EXCEPT ![o] = s]
    /\ subsumedBy' = [subsumedBy EXCEPT ![s] = o]
    /\ merges' = merges + 1
    /\ UNCHANGED <<tasks, order, now, registering, flushVars, done>>
    /\ WakeForNext({o})

\* Unmerge(owner), where it returns true.  Only the owner's mutex is held.
Unmerge(o) ==
    /\ ~Locked(o)
    /\ ownerOf[o] # kUnmerged
    /\ subsumedBy' = [subsumedBy EXCEPT ![ownerOf[o]] = kUnmerged]
    /\ ownerOf' = [ownerOf EXCEPT ![o] = kUnmerged]
    /\ UNCHANGED <<tasks, merges, order, now, registering, flushVars, done>>
    /\ WakeForNext({o, ownerOf[o]})

\* Time passes.
Tick ==
    /\ now < MaxTime
    /\ now' = now + 1
    /\ UNCHANGED <<tasks, mergeVars, wake, order, registering, flushVars, done>>

-----------------------------------------------------------------------------
LoopStep(q) == TimerFires(q) \/ FlushBegin(q) \/ FlushTake(q) \/ FlushPop(q)
               \/ FlushEnd(q) \/ FlushRearm(q) \/ RunTask(q)

\* Queues that are never merged.  A queue keeps its task until RegisterTask has
\* read top(): only the queue's own loop pops, and it needs the mutex.
UnmergedNext ==
    \/ \E q \in Queues : \/ LoopStep(q) \/ RegisterWakeUp(q)
                         \/ \E time \in Time : RegisterTask(q, time)
    \/ Tick
UnmergedSpec == Init /\ [][UnmergedNext]_vars

\* The threads of the loops run and time passes; whoever registers a task
\* completes the call.
UnmergedFairSpec == /\ UnmergedSpec
                    /\ \A q \in Queues : WF_vars(LoopStep(q)) /\ WF_vars(RegisterWakeUp(q))
                    /\ WF_vars(Tick)

\* With merging, the owner's loop pops the tasks of a subsumed queue while
\* RegisterTask holds that queue's mutex.
Next ==
    \/ UnmergedNext
    \/ \E q \in Queues : RegisterWakeUpEmpty(q)
    \/ \E o \in Queues : Unmerge(o) \/ \E s \in Queues : Merge(o, s)
Spec == Init /\ [][Next]_vars

-----------------------------------------------------------------------------
(* Properties.                                                              *)

TypeOK ==
    /\ tasks \in [Queues -> SUBSET Task]
    /\ ownerOf \in [Queues -> Queues \cup {kUnmerged}]
    /\ subsumedBy \in [Queues -> Queues \cup {kUnmerged}]
    /\ wake \in [Queues -> Time \cup {Never}]
    /\ order \in 0..MaxTasks /\ now \in Time /\ merges \in 0..MaxMerges
    /\ registering \in [Queues -> BOOLEAN]
    /\ loop \in [Queues -> LoopState]
    /\ flushTime \in [Queues -> Time]
    /\ rearm \in [Queues -> Time \cup {Never}]
    /\ batch \in [Queues -> Seq(Task)]
    /\ done \in SUBSET Task
    /\ \A q \in Queues : /\ loop[q] \in {"popping", "running"} => batch[q] # <<>>
                         /\ loop[q] \in {"waiting", "woken"} => batch[q] = <<>>

\* "Each task queue can only be merged and subsumed once": owner_of and
\* subsumed_by are each other's inverse, whatever Merge and Unmerge did, and
\* "exactly one of these will be _kUnmerged" in a merged queue.
MergeRelation ==
    /\ \A o, s \in Queues : ownerOf[o] = s <=> subsumedBy[s] = o
    /\ \A q \in Queues : ownerOf[q] = kUnmerged \/ subsumedBy[q] = kUnmerged

\* The tasks that loop q runs: its own and those of the queue it owns.
Pending(q) == tasks[q] \cup SubsumedTasks(q)

\* Nothing is under way that would still arm the timer of loop q, which no
\* other queue owns.
Settled(q) ==
    /\ subsumedBy[q] = kUnmerged /\ loop[q] # "woken" /\ ~Locked(q)
    /\ ownerOf[q] # kUnmerged => ~registering[ownerOf[q]]

\* "This also wakes up the loop at the required times": the timer of a loop is
\* armed no later than for the first of the tasks it has to run.
WakesInTime ==
    \A q \in Queues : Settled(q) => \A t \in Pending(q) : wake[q] <= t.time

\* The invocations of loop q that are out of their queue.
Taken(q) == SubSeq(batch[q], 1, Len(batch[q]) - (IF loop[q] = "popping" THEN 1 ELSE 0))

\* The places the i-th task is in.
Places(i) ==
    {<<"tasks", q, 0>> : q \in {p \in Queues : \E t \in tasks[p] : t.order = i}}
    \cup {x \in {"batch"} \X Queues \X (1..MaxTasks) :
            x[3] <= Len(Taken(x[2])) /\ Taken(x[2])[x[3]].order = i}
    \cup {<<"done", t.home, 0>> : t \in {u \in done : u.order = i}}

\* "This class keeps track of all the tasks ... that need to be run": every task
\* registered is in exactly one place, waiting in a queue, taken by one loop, or
\* run; none is lost between the look at a queue's top and its pop.
EachTaskOnce == \A i \in 0..(order - 1) : \E p \in Places(i) : Places(i) = {p}

\* A task of a queue that is never merged is run after those registered with the
\* queue before it for the same time or an earlier one.
RunInOrder ==
    \A t \in done : \A q \in Queues :
        \A u \in tasks[q] \cup {batch[q][j] : j \in 1..Len(batch[q])} :
            u.home = t.home /\ u.order < t.order => u.time > t.time

\* GetTasksToRunNow takes the tasks of an owner and of its subsumed queue as if
\* they were in one queue: by target time, then by order of registration.
TakesEarliest ==
    [][\A q \in Queues : Len(batch'[q]) > Len(batch[q]) =>
         LET t == batch'[q][Len(batch'[q])]
         IN  t \in Pending(q) /\ \A u \in Pending(q) : ~After(t, u)]_vars

\* Every task registered with a queue that is never merged is run.
EventuallyRun == \A i \in 0..(MaxTasks - 1) : order > i ~> \E t \in done : t.order = i

\* GetTasksToRunNow on a queue that is never merged loses and doubles no task, and
\* keeps them in order.
OnceInOrder == EachTaskOnce /\ RunInOrder

\* Whatever Merge and Unmerge do, the queues stay paired, and a flush treats a pair
\* as one queue.
MergingSafe == []MergeRelation /\ TakesEarliest
=============================================================================
