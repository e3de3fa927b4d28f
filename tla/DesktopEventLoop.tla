------------------------- MODULE DesktopEventLoop -------------------------
(***************************************************************************)
(* The platform task runner of the desktop embedders: EmbedderTaskRunner   *)
(* (embedder/embedder_task_runner.cc), which gives the embedder a baton    *)
(* for every task, and GLFWEventLoop (glfw/glfw_event_loop.cc), which      *)
(* keeps the batons until their time and runs them between GLFW's events.  *)
(* Win32TaskRunner collects and runs its tasks the same way.  Time is a    *)
(* counter; it passes while tasks run and while a thread is preempted.     *)
(***************************************************************************)
EXTENDS Integers, Sequences, SequencesExt, FiniteSetsExt

CONSTANTS EngineThreads,  \* threads that post tasks to the platform
          Delays,         \* how far ahead of the present their targets are
          MaxPosts,       \* bound on the tasks posted
          MaxClock        \* bound on the time that passes

ASSUME EventLoopAssumption == Delays \subseteq Nat /\ {MaxPosts, MaxClock} \subseteq Nat

VARIABLES clock,
          pendingTasks,  \* pending_tasks_: the batons the embedder has not returned
          lastBaton,     \* last_baton_
          posting,       \* per thread: the call of PostTask it is in, or none
          taskOrder,     \* sGlobalTaskOrder
          taskQueue,     \* task_queue_, a set of records
          mainLoop,      \* the main thread in WaitForEvents: where it is and its locals
          emptyEvent,    \* an event GLFW has not waited for yet
          ran            \* the batons that have run, in order

eventLoopVars == <<clock, pendingTasks, lastBaton, posting, taskOrder, taskQueue, mainLoop, emptyEvent, ran>>

Batons == 1..MaxPosts
Idle == [step |-> "idle"]

EventLoopTypeOK ==
    /\ clock \in 0..MaxClock /\ lastBaton \in 0..MaxPosts /\ pendingTasks \subseteq 1..lastBaton
    /\ \A e \in EngineThreads : posting[e].step \in {"idle", "post", "convert", "wake"}
    /\ taskOrder \in 0..MaxPosts /\ \A t \in taskQueue : t.baton \in Batons
    /\ mainLoop.step \in {"collect", "fire", "sleep", "wait"} /\ emptyEvent \in BOOLEAN
    /\ \A i \in DOMAIN ran : ran[i] \in Batons

EventLoopInit ==
    /\ clock = 0 /\ pendingTasks = {} /\ lastBaton = 0 /\ taskOrder = 0
    /\ posting = [e \in EngineThreads |-> Idle]
    /\ taskQueue = {} /\ mainLoop = [step |-> "collect"] /\ emptyEvent = FALSE /\ ran = <<>>

\* The queue's order: by fire time, then by the number given when posted.
Before(a, b) == a.fire < b.fire \/ (a.fire = b.fire /\ a.order < b.order)
Top(q) == CHOOSE t \in q : \A u \in q \ {t} : Before(t, u)

ClockTick ==
    /\ clock < MaxClock /\ clock' = clock + 1
    /\ UNCHANGED <<pendingTasks, lastBaton, posting, taskOrder, taskQueue, mainLoop, emptyEvent, ran>>

\* EmbedderTaskRunner::PostTaskForTime, up to the call of the embedder.
PostTaskForTime(e, delay) ==
    /\ posting[e].step = "idle" /\ lastBaton < MaxPosts
    /\ lastBaton' = lastBaton + 1 /\ pendingTasks' = pendingTasks \cup {lastBaton + 1}
    /\ posting' = [posting EXCEPT ![e] =
                      [step |-> "post", baton |-> lastBaton + 1, target |-> clock + delay]]
    /\ UNCHANGED <<clock, taskOrder, taskQueue, mainLoop, emptyEvent, ran>>

\* PostTask of the loop: the order, and the first reading of the time.
BeginPostTask(e) ==
    /\ posting[e].step = "post" /\ taskOrder' = taskOrder + 1
    /\ posting' = [posting EXCEPT ![e] =
                      [step |-> "convert", baton |-> @.baton, target |-> @.target,
                       order |-> taskOrder + 1, now |-> clock]]
    /\ UNCHANGED <<clock, pendingTasks, lastBaton, taskQueue, mainLoop, emptyEvent, ran>>

\* TimePointFromFlutterTime: target less the second reading, added to the first.
TimePointFromFlutterTime(p) == p.now + (p.target - clock)

\* The task is pushed.
PushTask(e) ==
    /\ posting[e].step = "convert"
    /\ taskQueue' = taskQueue \cup {[baton |-> posting[e].baton, order |-> posting[e].order,
                             fire |-> TimePointFromFlutterTime(posting[e])]}
    /\ posting' = [posting EXCEPT ![e] = [step |-> "wake"]]
    /\ UNCHANGED <<clock, pendingTasks, lastBaton, taskOrder, mainLoop, emptyEvent, ran>>

\* glfwPostEmptyEvent.
PostEmptyEvent(e) ==
    /\ posting[e].step = "wake" /\ emptyEvent' = TRUE
    /\ posting' = [posting EXCEPT ![e] = Idle]
    /\ UNCHANGED <<clock, pendingTasks, lastBaton, taskOrder, taskQueue, mainLoop, ran>>

Due(now) == {t \in taskQueue : t.fire <= now}

\* The tasks due are taken out under the lock.
CollectExpired ==
    /\ mainLoop.step = "collect"
    /\ mainLoop' = [step |-> "fire", now |-> clock, expired |-> SetToSortSeq(Due(clock), Before)]
    /\ taskQueue' = taskQueue \ Due(clock)
    /\ UNCHANGED <<clock, pendingTasks, lastBaton, posting, taskOrder, emptyEvent, ran>>

\* RunTask of one of them: EmbedderTaskRunner finds, erases and runs the task.
FireTask ==
    /\ mainLoop.step = "fire" /\ mainLoop.expired # <<>>
    /\ LET t == Head(mainLoop.expired) IN
       /\ pendingTasks' = pendingTasks \ {t.baton}
       /\ ran' = IF t.baton \in pendingTasks THEN Append(ran, t.baton) ELSE ran
    /\ mainLoop' = [mainLoop EXCEPT !.expired = Tail(@)]
    /\ UNCHANGED <<clock, lastBaton, posting, taskOrder, taskQueue, emptyEvent>>

\* How long to wait: until the fire time of the top, counted from the time that
\* was read before the tasks ran; Forever if the queue is empty.
Forever == 2 * MaxClock + 1
ComputeWait ==
    /\ mainLoop.step = "fire" /\ mainLoop.expired = <<>>
    /\ mainLoop' = [step |-> "sleep", now |-> mainLoop.now,
                duration |-> IF taskQueue = {} THEN Forever ELSE Top(taskQueue).fire - mainLoop.now]
    /\ UNCHANGED <<clock, pendingTasks, lastBaton, posting, taskOrder, taskQueue, emptyEvent, ran>>

\* Mutant: an event posted before the wait begins is forgotten.
BeginWaitForgets ==
    /\ mainLoop.step = "sleep" /\ emptyEvent' = FALSE
    /\ mainLoop' = [step |-> "wait", began |-> clock, now |-> mainLoop.now, deadline |-> clock + mainLoop.duration]
    /\ UNCHANGED <<clock, pendingTasks, lastBaton, posting, taskOrder, taskQueue, ran>>

\* glfwWaitEventsTimeout.
BeginWait ==
    /\ mainLoop.step = "sleep"
    /\ mainLoop' = [step |-> "wait", began |-> clock, now |-> mainLoop.now, deadline |-> clock + mainLoop.duration]
    /\ UNCHANGED <<clock, pendingTasks, lastBaton, posting, taskOrder, taskQueue, emptyEvent, ran>>

\* It returns: at the deadline, for the empty event or for any other one.
EndWait ==
    /\ mainLoop.step = "wait" /\ emptyEvent' = FALSE
    /\ mainLoop' = [step |-> "collect"]
    /\ UNCHANGED <<clock, pendingTasks, lastBaton, posting, taskOrder, taskQueue, ran>>

PosterStep(e) ==
    \/ \E delay \in Delays : PostTaskForTime(e, delay)
    \/ BeginPostTask(e) \/ PushTask(e) \/ PostEmptyEvent(e)

EventLoopNext ==
    \/ ClockTick \/ \E e \in EngineThreads : PosterStep(e)
    \/ CollectExpired \/ FireTask \/ ComputeWait \/ BeginWait \/ EndWait

EventLoopSpec == EventLoopInit /\ [][EventLoopNext]_eventLoopVars

-----------------------------------------------------------------------------
\* No task runs twice, and a task that has not run is still on its way: with a
\* thread that posts it, in the queue or among the expired ones.
EachBatonOnce ==
    /\ \A i, j \in DOMAIN ran : ran[i] = ran[j] => i = j
    /\ \A b \in pendingTasks :
          \/ \E e \in EngineThreads : posting[e].step \in {"post", "convert"} /\ posting[e].baton = b
          \/ \E t \in taskQueue : t.baton = b
          \/ mainLoop.step = "fire" /\ \E i \in DOMAIN mainLoop.expired : mainLoop.expired[i].baton = b

\* The wait never outlasts the time of a task by more than the tasks before it
\* took, whenever the task was posted: an event that is there, or about to be
\* posted, ends the wait.
WaitsNoLongerThanItsTasks ==
    mainLoop.step = "wait" /\ ~emptyEvent /\ (\A e \in EngineThreads : posting[e].step # "wake")
        => \A t \in taskQueue : mainLoop.deadline <= t.fire + (mainLoop.began - mainLoop.now)

\* GLFWEventLoop and the embedder's task runner: every task is run once, and the
\* loop does not sleep past one.
EventLoopSafe == EventLoopTypeOK /\ EachBatonOnce /\ WaitsNoLongerThanItsTasks
=============================================================================
