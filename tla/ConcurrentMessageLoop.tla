----------------------- MODULE ConcurrentMessageLoop -----------------------
(***************************************************************************)
(* fml/concurrent_message_loop.cc: a queue of tasks served by a fixed      *)
(* number of worker threads.  ConcurrentTaskRunner::PostTask first turns   *)
(* its weak pointer into a strong one, so the loop may be destroyed on any *)
(* thread that posts, and is, when that thread gives back the last strong  *)
(* reference.  Each section under tasks_mutex_ is one step; the            *)
(* notifications of the condition variable after it are steps of their     *)
(* own.  A task run by a worker may post further tasks.                    *)
(***************************************************************************)
EXTENDS Integers, Sequences, FiniteSets

CONSTANTS WorkerCount,  \* worker_count_
          Clients,      \* the other threads that post tasks
          VM,           \* the thread that owns the loop: DartVM
          Tasks,        \* the tasks that are posted, each once
          NoTask

ASSUME WorkerCountAssumption == WorkerCount \in Nat \ {0}
ASSUME ThreadsAssumption ==
    /\ Clients \cap (1..WorkerCount) = {} /\ VM \notin Clients \cup (1..WorkerCount)
    /\ NoTask \notin Tasks

VARIABLES tasks,      \* tasks_
          shutdown,   \* shutdown_
          worker,     \* where each worker thread is in WorkerMain
          workerTask, \* the task a worker has taken
          call,       \* the call of PostTask each thread is in
          callTask,   \* the task it posts
          strong,     \* the threads with a strong reference to the loop
          destroyer,  \* the thread in ~ConcurrentMessageLoop
          joining,    \* the worker it joins
          finished    \* how often each task was run

poolVars == <<tasks, shutdown, worker, workerTask, call, callTask, strong,
              destroyer, joining, finished>>

Workers == 1..WorkerCount
Posters == Workers \cup Clients
NoThread == 0

PoolTypeOK ==
    /\ tasks \in Seq(Tasks) /\ shutdown \in BOOLEAN
    /\ worker \in [Workers -> {"ready", "asleep", "running", "exited"}]
    /\ workerTask \in [Workers -> Tasks \cup {NoTask}]
    /\ call \in [Posters -> {"none", "post", "notify", "release", "inline"}]
    /\ callTask \in [Posters -> Tasks \cup {NoTask}]
    /\ strong \subseteq Posters \cup {VM}
    /\ destroyer \in Posters \cup {VM, NoThread}
    /\ joining \in 1..(WorkerCount + 1)
    /\ finished \in [Tasks -> Nat]

PoolInit ==
    /\ tasks = <<>> /\ shutdown = FALSE
    /\ worker = [w \in Workers |-> "ready"]
    /\ workerTask = [w \in Workers |-> NoTask]
    /\ call = [p \in Posters |-> "none"]
    /\ callTask = [p \in Posters |-> NoTask]
    /\ strong = {VM} /\ destroyer = NoThread /\ joining = 1
    /\ finished = [t \in Tasks |-> 0]

\* join() of a thread on itself throws, and ends the program.
Aborted == shutdown /\ joining \in Workers /\ destroyer = joining
Destroyed == joining > WorkerCount

Queued == {tasks[i] : i \in DOMAIN tasks}
Posted == Queued \cup {workerTask[w] : w \in Workers} \cup {callTask[p] : p \in Posters}
              \cup {t \in Tasks : finished[t] > 0}

\* The thread executes code: a worker does so only inside a task.
Executes(p) == p \in Clients \/ (p \in Workers /\ worker[p] = "running")

\* ConcurrentTaskRunner::PostTask: the weak pointer is locked, or the loop is
\* gone and the task is run by the caller.
RunnerPostTask(p, t) ==
    /\ Executes(p) /\ call[p] = "none" /\ destroyer # p /\ t \notin Posted
    /\ callTask' = [callTask EXCEPT ![p] = t]
    /\ IF strong = {}
       THEN /\ call' = [call EXCEPT ![p] = "inline"]
            /\ UNCHANGED strong
       ELSE /\ call' = [call EXCEPT ![p] = "post"]
            /\ strong' = strong \cup {p}
    /\ UNCHANGED <<tasks, shutdown, worker, workerTask, destroyer, joining, finished>>

\* As PostTask would be if it notified nobody.
PostTaskUnnotified(p) ==
    /\ call[p] = "post"
    /\ IF shutdown
       THEN call' = [call EXCEPT ![p] = "inline"] /\ UNCHANGED <<callTask, tasks>>
       ELSE /\ call' = [call EXCEPT ![p] = "release"]
            /\ callTask' = [callTask EXCEPT ![p] = NoTask]
            /\ tasks' = Append(tasks, callTask[p])
    /\ UNCHANGED <<shutdown, worker, workerTask, strong, destroyer, joining, finished>>

\* ConcurrentMessageLoop::PostTask under the mutex: after the shutdown the
\* caller runs the task itself, before it the task is queued.
PostTask(p) ==
    /\ call[p] = "post"
    /\ IF shutdown
       THEN /\ call' = [call EXCEPT ![p] = "inline"]
            /\ UNCHANGED <<callTask, tasks>>
       ELSE /\ call' = [call EXCEPT ![p] = "notify"]
            /\ callTask' = [callTask EXCEPT ![p] = NoTask]
            /\ tasks' = Append(tasks, callTask[p])
    /\ UNCHANGED <<shutdown, worker, workerTask, strong, destroyer, joining, finished>>

\* The caller runs the task.
RunInline(p) ==
    /\ call[p] = "inline"
    /\ finished' = [finished EXCEPT ![callTask[p]] = @ + 1]
    /\ callTask' = [callTask EXCEPT ![p] = NoTask]
    /\ call' = [call EXCEPT ![p] = IF p \in strong THEN "release" ELSE "none"]
    /\ UNCHANGED <<tasks, shutdown, worker, workerTask, strong, destroyer, joining>>

\* notify_one, after the mutex was released: a waiting worker, if there is one.
NotifyOne(p) ==
    /\ call[p] = "notify"
    /\ call' = [call EXCEPT ![p] = "release"]
    /\ \/ /\ \A w \in Workers : worker[w] # "asleep"
          /\ UNCHANGED worker
       \/ \E w \in Workers :
            /\ worker[w] = "asleep"
            /\ worker' = [worker EXCEPT ![w] = "ready"]
    /\ UNCHANGED <<tasks, shutdown, workerTask, callTask, strong, destroyer, joining, finished>>

\* The strong reference goes at the end of the call; the last one destroys the
\* loop, on this thread.
Release(p) ==
    /\ IF p = VM THEN VM \in strong ELSE call[p] = "release"
    /\ call' = IF p = VM THEN call ELSE [call EXCEPT ![p] = "none"]
    /\ strong' = strong \ {p}
    /\ destroyer' = IF strong = {p} THEN p ELSE destroyer
    /\ UNCHANGED <<tasks, shutdown, worker, workerTask, callTask, joining, finished>>

\* As Terminate would be with notify_one.
TerminateNotifiesOne ==
    /\ ~shutdown
    /\ VM \in strong \/ destroyer # NoThread
    /\ shutdown' = TRUE
    /\ \/ UNCHANGED worker
       \/ \E w \in Workers : worker[w] = "asleep" /\ worker' = [worker EXCEPT ![w] = "ready"]
    /\ UNCHANGED <<tasks, workerTask, call, callTask, strong, destroyer, joining, finished>>

\* Terminate, called by the owner or at the start of the destructor.
Terminate ==
    /\ ~shutdown
    /\ VM \in strong \/ destroyer # NoThread
    /\ shutdown' = TRUE
    /\ worker' = [w \in Workers |-> IF worker[w] = "asleep" THEN "ready" ELSE worker[w]]
    /\ UNCHANGED <<tasks, workerTask, call, callTask, strong, destroyer, joining, finished>>

\* The destructor joins the workers one after the other.
JoinWorker ==
    /\ destroyer # NoThread /\ shutdown /\ ~Aborted /\ ~Destroyed
    /\ worker[joining] = "exited"
    /\ joining' = joining + 1
    /\ UNCHANGED <<tasks, shutdown, worker, workerTask, call, callTask, strong,
                   destroyer, finished>>

\* WorkerMain under the mutex, until it is released: by the wait, by leaving
\* the loop, or with a task.
WorkerMain(w) ==
    /\ worker[w] = "ready"
    /\ \/ /\ tasks = <<>>
          /\ worker' = [worker EXCEPT ![w] = IF shutdown THEN "exited" ELSE "asleep"]
          /\ UNCHANGED <<tasks, workerTask>>
       \/ /\ tasks # <<>>
          /\ worker' = [worker EXCEPT ![w] = "running"]
          /\ workerTask' = [workerTask EXCEPT ![w] = Head(tasks)]
          /\ tasks' = Tail(tasks)
    /\ UNCHANGED <<shutdown, call, callTask, strong, destroyer, joining, finished>>

\* The wait of the condition variable may return for no reason.
SpuriousWakeup(w) ==
    /\ worker[w] = "asleep"
    /\ worker' = [worker EXCEPT ![w] = "ready"]
    /\ UNCHANGED <<tasks, shutdown, workerTask, call, callTask, strong, destroyer, joining,
                   finished>>

\* The task returns; a destructor it is inside of returns first.
FinishTask(w) ==
    /\ worker[w] = "running" /\ call[w] = "none" /\ destroyer # w
    /\ worker' = [worker EXCEPT ![w] = "ready"]
    /\ finished' = [finished EXCEPT ![workerTask[w]] = @ + 1]
    /\ workerTask' = [workerTask EXCEPT ![w] = NoTask]
    /\ UNCHANGED <<tasks, shutdown, call, callTask, strong, destroyer, joining>>

PosterStep(p) == PostTask(p) \/ RunInline(p) \/ NotifyOne(p) \/ Release(p)
WorkerStep(w) == WorkerMain(w) \/ FinishTask(w)
DestroyerStep == (destroyer # NoThread /\ Terminate) \/ JoinWorker

PoolNext ==
    /\ ~Aborted
    /\ \/ \E p \in Posters, t \in Tasks : RunnerPostTask(p, t)
       \/ \E p \in Posters : PosterStep(p)
       \/ Release(VM)
       \/ Terminate
       \/ JoinWorker
       \/ \E w \in Workers : WorkerStep(w) \/ SpuriousWakeup(w)

\* The operating system runs every thread that can run; nothing makes a client
\* post, the owner give up its reference or a wait return for no reason.
PoolFairness ==
    /\ \A w \in Workers : WF_poolVars(~Aborted /\ WorkerStep(w))
    /\ \A p \in Posters : WF_poolVars(~Aborted /\ PosterStep(p))
    /\ WF_poolVars(~Aborted /\ DestroyerStep)

PoolSpec == PoolInit /\ [][PoolNext]_poolVars /\ PoolFairness

-----------------------------------------------------------------------------
Places(t) ==
    Cardinality({i \in DOMAIN tasks : tasks[i] = t})
    + Cardinality({w \in Workers : workerTask[w] = t})
    + Cardinality({p \in Posters : callTask[p] = t})
    + finished[t]

\* A task handed to PostTask is in one place only: with its poster, in the
\* queue, with one worker, or run, once, whatever terminates meanwhile.
NoTaskTwice == \A t \in Tasks : Places(t) <= 1

\* No worker sleeps in the wait while there are more tasks queued than workers
\* and notifications on their way to them: each task has its wake-up.
NoWorkerSleepsThroughTask ==
    (\E w \in Workers : worker[w] = "asleep") =>
        Len(tasks) <= Cardinality({w \in Workers : worker[w] = "ready"})
                      + Cardinality({p \in Posters : call[p] = "notify"})

\* When the destructor has joined the workers no task is left in the queue, and
\* nobody is about to use the loop: it is freed next.
DestroyedWhenUnused ==
    Destroyed => /\ tasks = <<>> /\ \A w \in Workers : worker[w] = "exited"
                 /\ \A p \in Posters : call[p] \notin {"post", "notify", "release"}

\* Every task handed to PostTask is run in the end, by a worker or by its poster,
\* whenever the loop is terminated or destroyed, unless a worker is made to join
\* itself.
TasksFinish ==
    (\E t \in Tasks \cap Posted : finished[t] = 0)
        ~> (Aborted \/ \A t \in Tasks \cap Posted : finished[t] > 0)

\* The destructor returns: every worker leaves its wait and is joined.
DestructorReturns == (strong = {}) ~> (Destroyed \/ Aborted)

\* PostTask, WorkerMain and the destructor neither lose, double nor oversleep a
\* task, and the loop is not freed while it is in use.
PoolSafe == PoolTypeOK /\ NoTaskTwice /\ NoWorkerSleepsThroughTask /\ DestroyedWhenUnused

\* Termination and destruction let every task and every thread come to its end.
PoolLive == TasksFinish /\ DestructorReturns
=============================================================================
