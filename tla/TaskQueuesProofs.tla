-------------------------- MODULE TaskQueuesProofs --------------------------
(***************************************************************************)
(* TaskQueues for any queues, times, tasks and merges: the state stays of  *)
(* its type, merging keeps owner_of and subsumed_by inverse, and queues    *)
(* that are never merged wake their loops in time.                         *)
(***************************************************************************)
EXTENDS TaskQueues, SequenceTheorems, TLAPS

-----------------------------------------------------------------------------
(* Facts about the helpers.                                                 *)

\* Every time, and Never, is an integer, and no time is after Never.
LEMMA TimesAreInts ==
    /\ MaxTime \in Nat /\ MaxTasks \in Nat /\ MaxMerges \in Nat
    /\ Time \subseteq Int /\ Never \in Int /\ 0 \in Time
    /\ \A t \in Time : t <= Never
  BY LimitsAssumption DEF Time, Never

\* Appending gives a sequence that is not empty.
LEMMA AppendIsNonempty ==
    ASSUME NEW S, NEW s \in Seq(S), NEW e \in S
    PROVE  Append(s, e) \in Seq(S) /\ Append(s, e) # <<>>
  BY AppendProperties

\* The tail of a sequence of length one, and of no other, is empty.
LEMMA TailOfOne ==
    ASSUME NEW S, NEW s \in Seq(S), s # <<>>
    PROVE  Len(s) = 1 <=> Tail(s) = <<>>
<1>1. Tail(s) \in Seq(S) /\ Len(Tail(s)) = Len(s) - 1 /\ Len(s) \in Nat
  BY HeadTailProperties
<1>2. Tail(s) = <<>> <=> Len(Tail(s)) = 0
  BY <1>1, EmptySeq
<1> QED
  BY <1>1, <1>2

\* PeekNextTaskUnlocked finds a task of the two queues.
LEMMA NextTaskIsPending ==
    ASSUME NEW q \in Queues, NEW t, IsNextTask(q, t)
    PROVE  t \in tasks[q] \cup SubsumedTasks(q)
  BY DEF IsNextTask, IsTop

\* What DelayedTask::operator> compares are integers.
LEMMA TaskFields ==
    ASSUME NEW t \in Task
    PROVE  t.time \in Int /\ t.order \in Int
<1>1. t.time \in Time
  BY DEF Task
<1>2. t.order \in Nat
  BY DEF Task
<1>3. t.time \in Int
  BY <1>1, TimesAreInts
<1> QED
  BY <1>2, <1>3

\* A queue's top has the earliest time.
LEMMA TopIsEarliest ==
    ASSUME NEW S \in SUBSET Task, NEW t, IsTop(t, S), NEW u \in S
    PROVE  t.time <= u.time
<1>1. t \in Task /\ u \in Task /\ ~After(t, u)
  BY DEF IsTop
<1>2. t.time \in Int /\ u.time \in Int
  BY <1>1, TaskFields
<1> QED
  BY <1>1, <1>2 DEF After

-----------------------------------------------------------------------------
(* Type correctness.                                                        *)

LEMMA InitTypeOK == Init => TypeOK
  BY TimesAreInts, QueuesAssumption, LimitsAssumption DEF Init, TypeOK, LoopState, Task

LEMMA RegisterTypeOK ==
    ASSUME TypeOK, NEW q \in Queues, NEW time \in Time, RegisterTask(q, time)
    PROVE  TypeOK'
<1> USE DEF TypeOK, RegisterTask, mergeVars, flushVars
<1>1. [order |-> order, time |-> time, home |-> q] \in Task
  BY DEF Task
<1>2. tasks' \in [Queues -> SUBSET Task]
  BY <1>1
<1>3. order' \in 0..MaxTasks
  BY TimesAreInts
<1> QED
  BY <1>2, <1>3

LEMMA WakeUpTypeOK ==
    ASSUME TypeOK, NEW q \in Queues, RegisterWakeUp(q) \/ RegisterWakeUpEmpty(q)
    PROVE  TypeOK'
<1> USE DEF TypeOK, mergeVars, flushVars
<1>1. LoopToWake(q) \in Queues
  BY DEF LoopToWake
<1>2. CASE RegisterWakeUp(q)
  <2>1. PICK t \in tasks[q] : wake' = [wake EXCEPT ![LoopToWake(q)] = t.time]
    BY <1>2 DEF RegisterWakeUp
  <2>2. t.time \in Time
    BY DEF Task
  <2>3. wake' \in [Queues -> Time \cup {Never}]
    BY <2>1, <2>2
  <2>4. registering' \in [Queues -> BOOLEAN]
    BY <1>2 DEF RegisterWakeUp
  <2> QED
    BY <1>2, <2>3, <2>4 DEF RegisterWakeUp
<1>3. CASE RegisterWakeUpEmpty(q)
  <2>1. wake' \in [Queues -> Time \cup {Never}]
    BY <1>1, <1>3 DEF RegisterWakeUpEmpty
  <2>2. registering' \in [Queues -> BOOLEAN]
    BY <1>3 DEF RegisterWakeUpEmpty
  <2> QED
    BY <1>3, <2>1, <2>2 DEF RegisterWakeUpEmpty
<1> QED
  BY <1>2, <1>3

LEMMA LoopTypeOK ==
    ASSUME TypeOK, NEW q \in Queues, LoopStep(q)
    PROVE  TypeOK'
<1> USE DEF TypeOK, mergeVars, flushVars
<1>1. CASE TimerFires(q)
  BY <1>1 DEF TimerFires, LoopState
<1>2. CASE FlushBegin(q)
  BY <1>2, TimesAreInts DEF FlushBegin, LoopState
<1>3. CASE FlushTake(q)
  <2>1. PICK t \in UNION {tasks[p] : p \in Queues} : batch' = [batch EXCEPT ![q] = Append(@, t)]
    BY <1>3 DEF FlushTake
  <2>2. t \in Task
    OBVIOUS
  <2>3. Append(batch[q], t) \in Seq(Task) /\ Append(batch[q], t) # <<>>
    BY <2>2, AppendIsNonempty
  <2>4. batch' \in [Queues -> Seq(Task)]
    BY <2>1, <2>3
  <2>5. loop' \in [Queues -> LoopState]
    BY <1>3 DEF FlushTake, LoopState
  <2>6. \A p \in Queues : /\ loop'[p] \in {"popping", "running"} => batch'[p] # <<>>
                          /\ loop'[p] \in {"waiting", "woken"} => batch'[p] = <<>>
    BY <1>3, <2>1, <2>3 DEF FlushTake
  <2> QED
    BY <1>3, <2>4, <2>5, <2>6 DEF FlushTake
<1>4. CASE FlushEnd(q)
  <2>1. rearm' \in [Queues -> Time \cup {Never}]
    <3>1. CASE rearm' = [rearm EXCEPT ![q] = Never]
      BY <3>1
    <3>2. CASE \E t \in UNION {tasks[p] : p \in Queues} : rearm' = [rearm EXCEPT ![q] = t.time]
      <4>1. PICK t \in UNION {tasks[p] : p \in Queues} : rearm' = [rearm EXCEPT ![q] = t.time]
        BY <3>2
      <4>2. t.time \in Time
        BY DEF Task
      <4> QED
        BY <4>1, <4>2
    <3> QED
      BY <1>4, <3>1, <3>2 DEF FlushEnd
  <2> QED
    BY <1>4, <2>1 DEF FlushEnd, LoopState
<1>5. CASE FlushRearm(q)
  BY <1>5, TimesAreInts DEF FlushRearm, LoopState
<1>6. CASE RunTask(q)
  <2>1. batch[q] \in Seq(Task) /\ batch[q] # <<>>
    BY <1>6 DEF RunTask
  <2>2. Head(batch[q]) \in Task /\ Tail(batch[q]) \in Seq(Task)
    BY <2>1
  <2>3. Len(batch[q]) = 1 <=> Tail(batch[q]) = <<>>
    BY <2>1, TailOfOne
  <2>4. batch' \in [Queues -> Seq(Task)] /\ done' \in SUBSET Task
    BY <1>6, <2>2 DEF RunTask
  <2>5. loop' \in [Queues -> LoopState]
    BY <1>6 DEF RunTask, LoopState
  <2>6. \A p \in Queues : /\ loop'[p] \in {"popping", "running"} => batch'[p] # <<>>
                          /\ loop'[p] \in {"waiting", "woken"} => batch'[p] = <<>>
    BY <1>6, <2>3 DEF RunTask
  <2> QED
    BY <1>6, <2>4, <2>5, <2>6 DEF RunTask
<1>7. CASE FlushPop(q)
  <2>1. tasks' \in [Queues -> SUBSET Task]
    <3>1. PICK t \in tasks[TopQueue(q)] : tasks' = [tasks EXCEPT ![TopQueue(q)] = @ \ {t}]
      BY <1>7 DEF FlushPop
    <3> QED
      BY <3>1
  <2>2. loop' \in [Queues -> LoopState]
    BY <1>7 DEF FlushPop, LoopState
  <2>3. \A p \in Queues : /\ loop'[p] \in {"popping", "running"} => batch'[p] # <<>>
                          /\ loop'[p] \in {"waiting", "woken"} => batch'[p] = <<>>
    BY <1>7 DEF FlushPop
  <2> QED
    BY <1>7, <2>1, <2>2, <2>3 DEF FlushPop
<1> QED
  BY <1>1, <1>2, <1>3, <1>4, <1>5, <1>6, <1>7 DEF LoopStep

LEMMA MergingTypeOK ==
    ASSUME TypeOK, NEW o \in Queues,
           Unmerge(o) \/ \E s \in Queues : Merge(o, s)
    PROVE  TypeOK'
<1> USE DEF TypeOK, mergeVars, flushVars
<1>1. CASE Unmerge(o)
  <2>1. wake' \in [Queues -> Time \cup {Never}]
    BY <1>1 DEF Unmerge, WakeForNext
  <2> QED
    BY <1>1, <2>1 DEF Unmerge
<1>2. ASSUME NEW s \in Queues, Merge(o, s) PROVE TypeOK'
  <2>1. wake' \in [Queues -> Time \cup {Never}]
    BY <1>2 DEF Merge, WakeForNext
  <2>2. merges' \in 0..MaxMerges
    BY <1>2, TimesAreInts DEF Merge
  <2> QED
    BY <1>2, <2>1, <2>2 DEF Merge
<1> QED
  BY <1>1, <1>2

LEMMA TickTypeOK == TypeOK /\ Tick => TypeOK'
  BY TimesAreInts DEF TypeOK, Tick, mergeVars, flushVars, Time

LEMMA NextTypeOK == TypeOK /\ [Next]_vars => TypeOK'
<1>1. CASE UNCHANGED vars
  BY <1>1 DEF TypeOK, vars
<1> QED
  BY <1>1, RegisterTypeOK, WakeUpTypeOK, LoopTypeOK, MergingTypeOK, TickTypeOK
     DEF Next, UnmergedNext

\* The queues, the timers and the batches of the loops stay of their types, and a
\* loop holds invocations exactly while FlushTasks is under way.
THEOREM TypeCorrect == Spec => []TypeOK
  BY InitTypeOK, NextTypeOK, PTL DEF Spec

-----------------------------------------------------------------------------
(* The order in which tasks are taken.                                      *)

\* What comes after the later of two tasks comes after the earlier one.
LEMMA AfterIsTransitive ==
    ASSUME NEW t \in Task, NEW u \in Task, NEW v \in Task, ~After(t, u), ~After(u, v)
    PROVE  ~After(t, v)
<1>1. /\ t.time \in Int /\ u.time \in Int /\ v.time \in Int
      /\ t.order \in Int /\ u.order \in Int /\ v.order \in Int
  BY TaskFields
<1> QED
  BY <1>1 DEF After

LEMMA AfterIsAsymmetric ==
    ASSUME NEW t \in Task, NEW u \in Task, After(t, u)
    PROVE  ~After(u, t)
<1>1. t.time \in Int /\ u.time \in Int /\ t.order \in Int /\ u.order \in Int
  BY TaskFields
<1> QED
  BY <1>1 DEF After

\* No task of the two queues comes before the one PeekNextTaskUnlocked finds.
LEMMA NextTaskIsFirst ==
    ASSUME TypeOK, NEW q \in Queues, NEW t, IsNextTask(q, t), NEW u \in Pending(q)
    PROVE  t \in Pending(q) /\ ~After(t, u)
<1> DEFINE S == SubsumedTasks(q)
<1>1. tasks[q] \subseteq Task /\ S \subseteq Task
  BY DEF TypeOK, SubsumedTasks
<1>2. t \in Pending(q)
  BY NextTaskIsPending DEF Pending
<1>3. CASE tasks[q] # {} /\ S # {}
  <2>1. PICK o \in tasks[q], v \in S :
          /\ \A x \in tasks[q] : ~After(o, x)
          /\ \A x \in S : ~After(v, x)
          /\ t = IF After(o, v) THEN v ELSE o
    BY <1>3 DEF IsNextTask, IsTop
  <2>2. CASE After(o, v)
    <3>1. ~After(v, o)
      BY <1>1, <2>2, AfterIsAsymmetric
    <3>2. u \in tasks[q] => ~After(v, u)
      BY <1>1, <2>1, <3>1, AfterIsTransitive
    <3> QED
      BY <1>2, <2>1, <2>2, <3>2 DEF Pending
  <2>3. CASE ~After(o, v)
    <3>1. u \in S => ~After(o, u)
      BY <1>1, <2>1, <2>3, AfterIsTransitive
    <3> QED
      BY <1>2, <2>1, <2>3, <3>1 DEF Pending
  <2> QED
    BY <2>2, <2>3
<1>4. CASE ~(tasks[q] # {} /\ S # {})
  BY <1>2, <1>4 DEF IsNextTask, IsTop, Pending
<1> QED
  BY <1>3, <1>4

\* A step adds to a batch only what PeekNextTaskUnlocked finds.
LEMMA OnlyFlushTakes ==
    ASSUME TypeOK, [Next]_vars, NEW q \in Queues, Len(batch'[q]) > Len(batch[q])
    PROVE  IsNextTask(q, batch'[q][Len(batch'[q])])
<1>0. batch[q] \in Seq(Task) /\ Len(batch[q]) \in Nat
  BY DEF TypeOK
<1>1. batch'[q] # batch[q]
  BY <1>0
<1>2. ASSUME NEW p \in Queues, FlushTake(p) PROVE IsNextTask(q, batch'[q][Len(batch'[q])])
  <2>1. PICK t \in UNION {tasks[r] : r \in Queues} :
          IsNextTask(p, t) /\ batch' = [batch EXCEPT ![p] = Append(@, t)]
    BY <1>2 DEF FlushTake
  <2>2. p = q /\ batch'[q] = Append(batch[q], t)
    BY <1>1, <2>1 DEF TypeOK
  <2>3. t \in Task
    BY DEF TypeOK
  <2>4. Append(batch[q], t)[Len(Append(batch[q], t))] = t
    BY <1>0, <2>3
  <2> QED
    BY <2>1, <2>2, <2>4
<1>3. ASSUME NEW p \in Queues, RunTask(p) PROVE FALSE
  <2>1. batch[p] \in Seq(Task) /\ batch[p] # <<>>
    BY <1>3 DEF TypeOK, RunTask
  <2>2. p = q /\ batch'[q] = Tail(batch[q])
    BY <1>1, <1>3 DEF RunTask, TypeOK
  <2>3. Len(Tail(batch[q])) = Len(batch[q]) - 1
    BY <2>1, <2>2, HeadTailProperties
  <2> QED
    BY <1>0, <2>2, <2>3
<1>4. \/ \E p \in Queues : FlushTake(p) \/ RunTask(p)
      \/ UNCHANGED batch
  BY DEF Next, UnmergedNext, LoopStep, RegisterTask, RegisterWakeUp,
         RegisterWakeUpEmpty, TimerFires, FlushBegin, FlushPop, FlushEnd, FlushRearm, Tick,
         Merge, Unmerge, flushVars, vars
<1> QED
  BY <1>1, <1>2, <1>3, <1>4

\* GetTasksToRunNow takes the tasks of an owner and its subsumed queue by target
\* time and then by order of registration, also while tasks are registered with
\* either and queues are merged and unmerged.
THEOREM FlushTakesEarliest == Spec => TakesEarliest
<1>1. TypeOK /\ [Next]_vars =>
        [\A q \in Queues : Len(batch'[q]) > Len(batch[q]) =>
           LET t == batch'[q][Len(batch'[q])]
           IN  t \in Pending(q) /\ \A u \in Pending(q) : ~After(t, u)]_vars
  <2> SUFFICES ASSUME TypeOK, [Next]_vars, NEW q \in Queues, Len(batch'[q]) > Len(batch[q])
               PROVE  /\ batch'[q][Len(batch'[q])] \in Pending(q)
                      /\ \A u \in Pending(q) : ~After(batch'[q][Len(batch'[q])], u)
    OBVIOUS
  <2> DEFINE t == batch'[q][Len(batch'[q])]
  <2>1. IsNextTask(q, t)
    BY OnlyFlushTakes
  <2>2. t \in Pending(q)
    BY <2>1, NextTaskIsPending DEF Pending
  <2>3. \A u \in Pending(q) : ~After(t, u)
    BY <2>1, NextTaskIsFirst
  <2> QED
    BY <2>2, <2>3
<1> QED
  BY <1>1, TypeCorrect, PTL DEF Spec, TakesEarliest

-----------------------------------------------------------------------------
(* Merging.                                                                 *)

\* The relation in terms of the queues themselves.
LEMMA NextMergeRelation == TypeOK /\ MergeRelation /\ [Next]_vars => MergeRelation'
<1> SUFFICES ASSUME TypeOK, MergeRelation, [Next]_vars PROVE MergeRelation'
  OBVIOUS
<1>1. CASE UNCHANGED <<ownerOf, subsumedBy>>
  BY <1>1 DEF MergeRelation
<1>2. ASSUME NEW o \in Queues, Unmerge(o) PROVE MergeRelation'
  BY <1>2, QueuesAssumption DEF TypeOK, MergeRelation, Unmerge
<1>3. ASSUME NEW o \in Queues, NEW s \in Queues, Merge(o, s) PROVE MergeRelation'
  BY <1>3, QueuesAssumption DEF TypeOK, MergeRelation, Merge
<1>4. UnmergedNext \/ (\E q \in Queues : RegisterWakeUpEmpty(q)) \/ UNCHANGED vars
      => UNCHANGED <<ownerOf, subsumedBy>>
  BY DEF UnmergedNext, LoopStep, RegisterTask, RegisterWakeUp,
         RegisterWakeUpEmpty, TimerFires, FlushBegin, FlushTake, FlushPop, FlushEnd,
         FlushRearm, RunTask, Tick, mergeVars, vars
<1> QED
  BY <1>1, <1>2, <1>3, <1>4 DEF Next

\* Whatever Merge and Unmerge are called with, and in whatever order, owner_of and
\* subsumed_by are inverse and no queue is both owner and subsumed.
THEOREM MergingIsARelation == Spec => []MergeRelation
<1>1. Init => MergeRelation
  BY QueuesAssumption DEF Init, MergeRelation
<1> QED
  BY <1>1, TypeCorrect, NextMergeRelation, PTL DEF Spec

-----------------------------------------------------------------------------
(* Wake ups of queues that are never merged.                                *)

NeverMerged ==
    \A q \in Queues : ownerOf[q] = kUnmerged /\ subsumedBy[q] = kUnmerged

\* A queue's mutex is held by at most one of RegisterTask and GetTasksToRunNow.
Exclusive ==
    \A q \in Queues : registering[q] => loop[q] \notin {"taking", "popping", "rearming"}

\* The wake up GetTasksToRunNow is about to ask for is early enough.
RearmsInTime ==
    \A q \in Queues : loop[q] = "rearming" => \A t \in tasks[q] : rearm[q] <= t.time

\* The wake up asked for is early enough for the queue's own tasks.
ArmedInTime ==
    \A q \in Queues : /\ ~registering[q]
                      /\ loop[q] \in {"waiting", "running"}
                      => \A t \in tasks[q] : wake[q] <= t.time

WakeInv == NeverMerged /\ Exclusive /\ RearmsInTime /\ ArmedInTime

LEMMA InitWakeInv == Init => WakeInv
  BY DEF Init, WakeInv, NeverMerged, Exclusive, RearmsInTime, ArmedInTime

LEMMA WakeInvImplies == TypeOK /\ WakeInv => WakesInTime
<1> SUFFICES ASSUME TypeOK, WakeInv, NEW q \in Queues, Settled(q), NEW t \in Pending(q)
             PROVE  wake[q] <= t.time
  BY DEF WakesInTime
<1>1. t \in tasks[q]
  BY DEF Pending, SubsumedTasks, WakeInv, NeverMerged
<1>2. ~registering[q] /\ loop[q] \in {"waiting", "running"}
  BY DEF Settled, Locked, TypeOK, LoopState
<1> QED
  BY <1>1, <1>2 DEF WakeInv, ArmedInTime

LEMMA RegisterWakeInv ==
    ASSUME TypeOK, WakeInv, NEW q \in Queues, NEW time \in Time, RegisterTask(q, time)
    PROVE  WakeInv'
  BY DEF WakeInv, NeverMerged, Exclusive, RearmsInTime, ArmedInTime, RegisterTask,
         TypeOK, Locked, mergeVars, flushVars

LEMMA WakeUpWakeInv ==
    ASSUME TypeOK, WakeInv, NEW q \in Queues, RegisterWakeUp(q)
    PROVE  WakeInv'
<1>1. LoopToWake(q) = q
  BY DEF LoopToWake, WakeInv, NeverMerged
<1>2. UNCHANGED <<tasks, ownerOf, subsumedBy, loop, rearm>>
      /\ registering' = [registering EXCEPT ![q] = FALSE]
  BY DEF RegisterWakeUp, mergeVars, flushVars
<1>3. \A p \in Queues \ {q} : wake'[p] = wake[p]
  BY <1>1 DEF RegisterWakeUp, TypeOK
<1>4. \A t \in tasks[q] : wake'[q] <= t.time
  <2>1. PICK t \in tasks[q] : IsTop(t, tasks[q]) /\ wake'[q] = t.time
    BY <1>1 DEF RegisterWakeUp, TypeOK
  <2> QED
    BY <2>1, TopIsEarliest DEF TypeOK
<1> QED
  BY <1>2, <1>3, <1>4
     DEF WakeInv, NeverMerged, Exclusive, RearmsInTime, ArmedInTime, TypeOK

LEMMA LoopWakeInv ==
    ASSUME TypeOK, WakeInv, NEW q \in Queues, LoopStep(q)
    PROVE  WakeInv'
<1> USE DEF WakeInv, NeverMerged, Exclusive, RearmsInTime, ArmedInTime, TypeOK,
            mergeVars, flushVars
<1>1. CASE TimerFires(q)
  BY <1>1 DEF TimerFires
<1>2. CASE FlushBegin(q)
  BY <1>2 DEF FlushBegin, HasPendingTasks, Locked
<1>3. CASE FlushTake(q)
  BY <1>3 DEF FlushTake
<1>4. CASE FlushEnd(q)
  <2>1. \A t \in tasks[q] : rearm'[q] <= t.time
    <3>1. CASE ~HasPendingTasks(q)
      BY <3>1 DEF HasPendingTasks
    <3>2. CASE HasPendingTasks(q)
      <4>1. PICK t : IsNextTask(q, t) /\ rearm'[q] = t.time
        BY <1>4, <3>2 DEF FlushEnd
      <4>2. IsTop(t, tasks[q])
        BY <4>1 DEF IsNextTask, SubsumedTasks, IsTop
      <4> QED
        BY <4>1, <4>2, TopIsEarliest
    <3> QED
      BY <3>1, <3>2
  <2>2. \A p \in Queues \ {q} : rearm'[p] = rearm[p]
    BY <1>4 DEF FlushEnd
  <2> QED
    BY <1>4, <2>1, <2>2 DEF FlushEnd
<1>5. CASE FlushRearm(q)
  BY <1>5 DEF FlushRearm
<1>6. CASE RunTask(q)
  BY <1>6 DEF RunTask
<1>7. CASE FlushPop(q)
  <2>1. PICK t : tasks' = [tasks EXCEPT ![TopQueue(q)] = @ \ {t}]
    BY <1>7 DEF FlushPop
  <2>2. \A p \in Queues : tasks'[p] \subseteq tasks[p]
    BY <2>1
  <2> QED
    BY <1>7, <2>2 DEF FlushPop
<1> QED
  BY <1>1, <1>2, <1>3, <1>4, <1>5, <1>6, <1>7 DEF LoopStep

LEMMA NextWakeInv == TypeOK /\ WakeInv /\ [UnmergedNext]_vars => WakeInv'
<1>1. TypeOK /\ WakeInv /\ UNCHANGED vars => WakeInv'
  BY DEF WakeInv, NeverMerged, Exclusive, RearmsInTime, ArmedInTime, vars
<1>2. WakeInv /\ Tick => WakeInv'
  BY DEF WakeInv, NeverMerged, Exclusive, RearmsInTime, ArmedInTime, Tick, mergeVars, flushVars
<1> QED
  BY <1>1, <1>2, RegisterWakeInv, WakeUpWakeInv, LoopWakeInv DEF UnmergedNext

LEMMA UnmergedWakeInv == UnmergedSpec => [](TypeOK /\ WakeInv)
<1>1. TypeOK /\ [UnmergedNext]_vars => TypeOK'
  BY NextTypeOK DEF Next
<1> QED
  BY <1>1, InitTypeOK, InitWakeInv, NextWakeInv, PTL DEF UnmergedSpec

\* A loop whose queue is never merged has its timer armed no later than for the
\* first of its tasks, however RegisterTask interleaves with GetTasksToRunNow.
THEOREM UnmergedWakesInTime == UnmergedSpec => []WakesInTime
  BY UnmergedWakeInv, WakeInvImplies, PTL

\* When RegisterTask reads top() of its queue to wake the loop, the queue has a task.
TopExists == \A q \in Queues : registering[q] => tasks[q] # {}

\* A queue holds the tasks registered with it, and its loop pops from it alone.
OwnTasks ==
    \A q \in Queues : /\ \A t \in tasks[q] : t.home = q
                      /\ loop[q] = "popping" => TopQueue(q) = q

LEMMA LoopTopExists ==
    ASSUME TypeOK, WakeInv, OwnTasks, TopExists, NEW q \in Queues, LoopStep(q)
    PROVE  OwnTasks' /\ TopExists'
<1>1. CASE FlushPop(q)
  <2>1. TopQueue(q) = q /\ ~registering[q]
    BY <1>1 DEF FlushPop, OwnTasks, WakeInv, Exclusive
  <2>2. PICK t : tasks' = [tasks EXCEPT ![q] = @ \ {t}]
    BY <1>1, <2>1 DEF FlushPop
  <2>3. UNCHANGED <<registering, batch>> /\ loop' = [loop EXCEPT ![q] = "taking"]
    BY <1>1 DEF FlushPop
  <2> QED
    BY <2>1, <2>2, <2>3 DEF TopExists, OwnTasks, TopQueue, TypeOK
<1>2. CASE FlushTake(q)
  <2>1. PICK t : IsNextTask(q, t) /\ batch' = [batch EXCEPT ![q] = Append(@, t)]
    BY <1>2 DEF FlushTake
  <2>2. t \in tasks[q]
    BY <2>1 DEF IsNextTask, IsTop, SubsumedTasks, WakeInv, NeverMerged
  <2>3. t \in Task /\ batch[q] \in Seq(Task)
    BY <2>2 DEF TypeOK
  <2>4. TopQueue(q)' = q
    BY <2>1, <2>2, <2>3 DEF TopQueue, OwnTasks, TypeOK
  <2>5. \A p \in Queues \ {q} : batch'[p] = batch[p] /\ loop'[p] = loop[p]
    BY <1>2, <2>1 DEF FlushTake, TypeOK
  <2>6. UNCHANGED <<tasks, registering>>
    BY <1>2 DEF FlushTake
  <2> QED
    BY <2>4, <2>5, <2>6 DEF TopExists, OwnTasks, TopQueue
<1>3. CASE ~FlushPop(q) /\ ~FlushTake(q)
  <2>1. UNCHANGED <<tasks, registering>>
    BY <1>3 DEF LoopStep, TimerFires, FlushBegin, FlushEnd, FlushRearm, RunTask
  <2>2. loop'[q] # "popping"
    BY <1>3 DEF LoopStep, TimerFires, FlushBegin, FlushEnd, FlushRearm, RunTask, TypeOK
  <2>3. \A p \in Queues \ {q} : batch'[p] = batch[p] /\ loop'[p] = loop[p]
    BY <1>3 DEF LoopStep, TimerFires, FlushBegin, FlushEnd, FlushRearm, RunTask, TypeOK
  <2> QED
    BY <2>1, <2>2, <2>3 DEF TopExists, OwnTasks, TopQueue
<1> QED
  BY <1>1, <1>2, <1>3

\* As long as queues are not merged, RegisterTask never calls top() of an empty
\* queue: the loop that pops holds the mutex that RegisterTask holds.  So leaving
\* RegisterWakeUpEmpty out of UnmergedNext leaves out no behaviour.
THEOREM UnmergedTopExists == UnmergedSpec => []TopExists
<1> USE DEF OwnTasks, TopExists, TopQueue
<1>1. Init => OwnTasks /\ TopExists
  BY DEF Init
<1>2. ASSUME TypeOK, OwnTasks, TopExists, NEW q \in Queues, NEW time \in Time,
             RegisterTask(q, time)
      PROVE  OwnTasks' /\ TopExists'
  <2> DEFINE new == [order |-> order, time |-> time, home |-> q]
  <2>1. tasks' = [tasks EXCEPT ![q] = @ \cup {new}] /\ UNCHANGED <<loop, batch>>
        /\ registering' = [registering EXCEPT ![q] = TRUE]
    BY <1>2 DEF RegisterTask, flushVars
  <2>2. new.home = q
    OBVIOUS
  <2> HIDE DEF new
  <2>3. tasks'[q] = tasks[q] \cup {new} /\ \A p \in Queues \ {q} : tasks'[p] = tasks[p]
    BY <1>2, <2>1 DEF TypeOK
  <2>4. \A p \in Queues \ {q} : registering'[p] = registering[p]
    BY <1>2, <2>1 DEF TypeOK
  <2>5. OwnTasks'
    BY <1>2, <2>1, <2>2, <2>3
  <2>6. TopExists'
    BY <1>2, <2>3, <2>4
  <2> QED
    BY <2>5, <2>6
<1>3. ASSUME TypeOK, OwnTasks, TopExists, NEW q \in Queues, RegisterWakeUp(q)
      PROVE  OwnTasks' /\ TopExists'
  BY <1>3 DEF TypeOK, RegisterWakeUp, flushVars
<1>4. OwnTasks /\ TopExists /\ (Tick \/ UNCHANGED vars) => OwnTasks' /\ TopExists'
  BY DEF Tick, flushVars, vars
<1>5. TypeOK /\ WakeInv /\ OwnTasks /\ TopExists /\ [UnmergedNext]_vars
      => OwnTasks' /\ TopExists'
  BY <1>2, <1>3, <1>4, LoopTopExists DEF UnmergedNext
<1> QED
  BY <1>1, <1>5, UnmergedWakeInv, PTL DEF UnmergedSpec

\* Merge, Unmerge and GetTasksToRunNow keep the queues paired and take the tasks of
\* a pair in one order.
THEOREM MergingIsSafe == Spec => MergingSafe
  BY MergingIsARelation, FlushTakesEarliest DEF MergingSafe
=============================================================================
