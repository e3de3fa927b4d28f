---------------------------- MODULE MessageLoops ----------------------------
(***************************************************************************)
(* The end of a thread with a message loop: fml/thread.cc,                 *)
(* fml/message_loop_impl.cc, fml/platform/linux/message_loop_linux.cc and  *)
(* the parts of fml/message_loop_task_queues.cc they use.  The queue of    *)
(* the GPU thread's loop may be merged into the platform thread's.         *)
(* Threads post tasks to the GPU loop while the GPU thread is joined, by   *)
(* the platform thread or by a thread that has no loop.                    *)
(*                                                                         *)
(* The tasks registered are one sequence, in the order of order_; the      *)
(* tasks of one queue are its subsequence.  A delayed task does not become *)
(* due before the end.                                                     *)
(***************************************************************************)
EXTENDS Integers, Sequences, SequencesExt, FiniteSets

CONSTANTS DueTasks, DelayedTasks, \* the tasks that are posted, each once
          LoopPosters,            \* the threads that post them
          MaxLoopMerges           \* bound on the merges

VARIABLES entries,       \* the tasks registered and not yet taken
          terminated,    \* terminated_ of each loop
          loopRunning,   \* running_
          timer,         \* the loop's timer has fired or is due
          loopStep,      \* where the loop's thread is in DoRun
          batch,         \* invocations in FlushTasks
          gpuSubsumed,   \* the GPU queue is subsumed by the platform queue
          loopMerges,
          posting,       \* the task each poster is about to register
          fate,          \* what became of each task
          join,          \* Thread::Join of the GPU thread
          joiner,        \* the thread that calls it
          mergedAtJoin,  \* the queues were merged when it was called
          early          \* the tasks registered before its closure

loopVars == <<entries, terminated, loopRunning, timer, loopStep, batch, gpuSubsumed,
              loopMerges, posting, fate, join, joiner, mergedAtJoin, early>>

Loops == {"platform", "gpu"}
LoopTasks == DueTasks \cup DelayedTasks
Quit == "quit"   \* the closure Join posts
Nothing == "nothing"

LoopsTypeOK ==
    /\ entries \in Seq([queue : Loops, task : LoopTasks \cup {Quit}])
    /\ terminated \in [Loops -> BOOLEAN] /\ loopRunning \in [Loops -> BOOLEAN]
    /\ timer \in [Loops -> BOOLEAN]
    /\ loopStep \in [Loops -> {"wait", "flush", "last", "dispose", "exited"}]
    /\ batch \in [Loops -> Seq(LoopTasks \cup {Quit})]
    /\ gpuSubsumed \in BOOLEAN /\ loopMerges \in 0..MaxLoopMerges
    /\ posting \in [LoopPosters -> LoopTasks \cup {Nothing}]
    /\ fate \in [LoopTasks -> {"none", "pending", "ran", "disposed", "refused"}]
    /\ join \in {"none", "post", "join", "done"}
    /\ joiner \in {"platform", "other"} /\ mergedAtJoin \in BOOLEAN /\ early \subseteq LoopTasks

LoopsInitOf(j) ==
    /\ entries = <<>> /\ joiner = j
    /\ terminated = [l \in Loops |-> FALSE] /\ loopRunning = [l \in Loops |-> TRUE]
    /\ timer = [l \in Loops |-> FALSE]
    /\ loopStep = [l \in Loops |-> "wait"]
    /\ batch = [l \in Loops |-> <<>>]
    /\ gpuSubsumed = FALSE /\ loopMerges = 0
    /\ posting = [p \in LoopPosters |-> Nothing]
    /\ fate = [t \in LoopTasks |-> "none"]
    /\ join = "none" /\ mergedAtJoin = FALSE /\ early = {}

LoopsInit == \E j \in {"platform", "other"} : LoopsInitOf(j)

\* As it would be if Unmerge left the GPU queue with its owner, too.
ServedAfterUnmerge(l) ==
    IF l = "gpu" THEN (IF gpuSubsumed THEN {} ELSE {"gpu"})
    ELSE (IF loopMerges > 0 THEN Loops ELSE {"platform"})

\* The queues a loop serves: its own and the one it has subsumed.
Served(l) ==
    IF l = "gpu" THEN (IF gpuSubsumed THEN {} ELSE {"gpu"})
    ELSE (IF gpuSubsumed THEN Loops ELSE {"platform"})

IsDue(e) == e.task \notin DelayedTasks
TaskOf(e) == e.task
DueOf(queues) ==
    LET taken(e) == e.queue \in queues /\ IsDue(e) IN
    [i \in DOMAIN SelectSeq(entries, taken) |-> TaskOf(SelectSeq(entries, taken)[i])]

\* GetTasksToRunNow(kAll): the due tasks of the queues served move to the
\* invocations and the timer is set for the rest, which are not due.
GetTasksToRunNow(l) ==
    LET kept(e) == ~(e.queue \in Served(l) /\ IsDue(e)) IN
    /\ batch' = [batch EXCEPT ![l] = DueOf(Served(l))]
    /\ entries' = SelectSeq(entries, kept)
    /\ timer' = [timer EXCEPT ![l] = FALSE]

\* The platform thread is inside Join.
Blocked(l) == l = "platform" /\ joiner = "platform" /\ join \in {"post", "join"}

\* MessageLoopLinux::Run and OnEventFired: the timer wakes the loop.
OnEventFired(l) ==
    /\ loopStep[l] = "wait" /\ loopRunning[l] /\ timer[l] /\ ~Blocked(l)
    /\ GetTasksToRunNow(l)
    /\ loopStep' = [loopStep EXCEPT ![l] = "flush"]
    /\ UNCHANGED <<terminated, loopRunning, gpuSubsumed, loopMerges, posting, fate, join, joiner,
                   mergedAtJoin, early>>

\* As it would be if Terminate did not end Run.
RunNextTaskKeepsRunning(l) ==
    /\ loopStep[l] \in {"flush", "last"} /\ batch[l] # <<>>
    /\ LET t == Head(batch[l]) IN
       /\ batch' = [batch EXCEPT ![l] = Tail(@)]
       /\ IF t = Quit
          THEN /\ terminated' = [terminated EXCEPT ![l] = TRUE]
               /\ timer' = [timer EXCEPT ![l] = TRUE]
               /\ UNCHANGED <<loopRunning, fate>>
          ELSE /\ fate' = [fate EXCEPT ![t] = "ran"]
               /\ UNCHANGED <<terminated, loopRunning, timer>>
    /\ UNCHANGED <<entries, loopStep, gpuSubsumed, loopMerges, posting, join, joiner, mergedAtJoin, early>>

\* FlushTasks runs the next invocation.  The closure of Join is
\* MessageLoop::GetCurrent().Terminate(): it ends the loop it runs on.
RunNextTask(l) ==
    /\ loopStep[l] \in {"flush", "last"} /\ batch[l] # <<>>
    /\ LET t == Head(batch[l]) IN
       /\ batch' = [batch EXCEPT ![l] = Tail(@)]
       /\ IF t = Quit
          THEN /\ terminated' = [terminated EXCEPT ![l] = TRUE]
               /\ loopRunning' = [loopRunning EXCEPT ![l] = FALSE]
               /\ timer' = [timer EXCEPT ![l] = TRUE]
               /\ UNCHANGED fate
          ELSE /\ fate' = [fate EXCEPT ![t] = "ran"]
               /\ UNCHANGED <<terminated, loopRunning, timer>>
    /\ UNCHANGED <<entries, loopStep, gpuSubsumed, loopMerges, posting, join, joiner, mergedAtJoin, early>>

\* The flush is over: Run goes on, or returns, and DoRun flushes once more,
\* terminated_ being set.
EndFlush(l) ==
    /\ loopStep[l] \in {"flush", "last"} /\ batch[l] = <<>>
    /\ \/ /\ loopStep[l] = "flush" /\ loopRunning[l]
          /\ loopStep' = [loopStep EXCEPT ![l] = "wait"]
          /\ UNCHANGED <<entries, batch, timer, terminated>>
       \/ /\ loopStep[l] = "flush" /\ ~loopRunning[l]
          /\ loopStep' = [loopStep EXCEPT ![l] = "last"]
          /\ terminated' = [terminated EXCEPT ![l] = TRUE]
          /\ GetTasksToRunNow(l)
       \/ /\ loopStep[l] = "last"
          /\ loopStep' = [loopStep EXCEPT ![l] = "dispose"]
          /\ UNCHANGED <<entries, batch, timer, terminated>>
    /\ UNCHANGED <<loopRunning, gpuSubsumed, loopMerges, posting, fate, join, joiner, mergedAtJoin, early>>

\* DisposeTasks: what is left in the queues served is destroyed, on this
\* thread, which then ends.
DisposeTasks(l) ==
    /\ loopStep[l] = "dispose"
    /\ LET kept(e) == e.queue \notin Served(l) IN entries' = SelectSeq(entries, kept)
    /\ fate' = [t \in LoopTasks |->
                  IF \E i \in DOMAIN entries : entries[i].queue \in Served(l) /\ entries[i].task = t
                  THEN "disposed" ELSE fate[t]]
    /\ loopStep' = [loopStep EXCEPT ![l] = "exited"]
    /\ UNCHANGED <<terminated, loopRunning, timer, batch, gpuSubsumed, loopMerges, posting, join,
                   joiner, mergedAtJoin, early>>

\* MessageLoopImpl::PostTask to the GPU loop looks at terminated_: the task is
\* destroyed by the caller, or is about to be registered.
PostToLoop(p, t) ==
    /\ posting[p] = Nothing /\ fate[t] = "none"
    /\ IF terminated["gpu"]
       THEN fate' = [fate EXCEPT ![t] = "refused"] /\ UNCHANGED posting
       ELSE posting' = [posting EXCEPT ![p] = t] /\ fate' = [fate EXCEPT ![t] = "pending"]
    /\ UNCHANGED <<entries, terminated, loopRunning, timer, loopStep, batch, gpuSubsumed,
                   loopMerges, join, joiner, mergedAtJoin, early>>

\* RegisterTask on the GPU queue: the loop that serves it is woken for the
\* queue's first task.
Register(t) ==
    LET woken == IF gpuSubsumed THEN "platform" ELSE "gpu"
        e == [queue |-> "gpu", task |-> t] IN
    /\ entries' = Append(entries, e)
    /\ timer' = [timer EXCEPT ![woken] = DueOf({"gpu"}) # <<>> \/ IsDue(e)]

RegisterTask(p) ==
    /\ posting[p] # Nothing
    /\ Register(posting[p])
    /\ posting' = [posting EXCEPT ![p] = Nothing]
    /\ UNCHANGED <<terminated, loopRunning, loopStep, batch, gpuSubsumed, loopMerges, fate, join,
                   joiner, mergedAtJoin, early>>

\* The loop is woken for the first task of these queues, if they have one.
Rearm(l, queues) ==
    IF \E i \in DOMAIN entries : entries[i].queue \in queues
    THEN DueOf(queues) # <<>> ELSE timer[l]

\* The rasterizer merges the GPU queue into the platform queue, or unmerges
\* them, while there is a rasterizer.
MergeQueues ==
    /\ join = "none" /\ ~gpuSubsumed /\ loopMerges < MaxLoopMerges
    /\ gpuSubsumed' = TRUE /\ loopMerges' = loopMerges + 1
    /\ timer' = [timer EXCEPT !["platform"] = Rearm("platform", Loops)]
    /\ UNCHANGED <<entries, terminated, loopRunning, loopStep, batch, posting, fate, join, joiner,
                   mergedAtJoin, early>>

UnmergeQueues ==
    /\ join = "none" /\ gpuSubsumed
    /\ gpuSubsumed' = FALSE
    /\ timer' = [l \in Loops |-> Rearm(l, {l})]
    /\ UNCHANGED <<entries, terminated, loopRunning, loopStep, batch, loopMerges, posting, fate,
                   join, joiner, mergedAtJoin, early>>

\* Thread::Join: the joining thread posts the closure that terminates the loop ...
BeginJoin ==
    /\ join = "none" /\ (joiner = "platform" => loopStep["platform"] = "wait")
    /\ mergedAtJoin' = gpuSubsumed
    /\ join' = IF terminated["gpu"] THEN "join" ELSE "post"
    /\ UNCHANGED <<entries, terminated, loopRunning, timer, loopStep, batch, gpuSubsumed,
                   loopMerges, posting, fate, joiner, early>>

PostQuit ==
    /\ join = "post" /\ Register(Quit)
    /\ join' = "join"
    /\ early' = {t \in LoopTasks : fate[t] = "pending" /\ \A p \in LoopPosters : posting[p] # t}
    /\ UNCHANGED <<terminated, loopRunning, loopStep, batch, gpuSubsumed, loopMerges, posting, fate,
                   joiner, mergedAtJoin>>

\* ... and waits for the end of the thread.
Joined ==
    /\ join = "join" /\ loopStep["gpu"] = "exited"
    /\ join' = "done"
    /\ UNCHANGED <<entries, terminated, loopRunning, timer, loopStep, batch, gpuSubsumed,
                   loopMerges, posting, fate, joiner, mergedAtJoin, early>>

LoopStep(l) == OnEventFired(l) \/ RunNextTask(l) \/ EndFlush(l) \/ DisposeTasks(l)
JoinStep == PostQuit \/ Joined

LoopsNext ==
    \/ \E l \in Loops : LoopStep(l)
    \/ \E p \in LoopPosters : RegisterTask(p) \/ \E t \in LoopTasks : PostToLoop(p, t)
    \/ MergeQueues \/ UnmergeQueues \/ BeginJoin \/ JoinStep

\* Every thread goes on: a loop with work, the joining thread and a thread that is
\* about to register a task.
LoopsFairness ==
    /\ \A l \in Loops : WF_loopVars(LoopStep(l))
    /\ WF_loopVars(JoinStep)
    /\ \A p \in LoopPosters : WF_loopVars(RegisterTask(p))

LoopsSpec == LoopsInit /\ [][LoopsNext]_loopVars /\ LoopsFairness

-----------------------------------------------------------------------------
\* Of the tasks registered before the closure of Join, none is lost when Join
\* returns, whatever is posted meanwhile: the due ones have run, or are about to
\* on the platform thread, which took them while the queues were merged; the
\* delayed ones were destroyed on the loop's thread.
JoinKeepsEarlierTasks ==
    join = "done" /\ ~mergedAtJoin =>
        \A t \in early :
            \/ fate[t] = IF t \in DueTasks THEN "ran" ELSE "disposed"
            \/ t \in ToSet(batch["platform"])

\* The closure of Join ends the loop of the thread that is joined and no other,
\* if the queues were not merged when it was posted.
OnlyJoinedLoopEnds ==
    /\ terminated["platform"] => mergedAtJoin
    /\ terminated["gpu"] => join # "none"

\* Join returns if the queues are not merged.
JoinReturns == (join = "post" /\ ~mergedAtJoin) ~> (join = "done")

\* Thread::Join ends its own loop only, after the tasks posted before it.
LoopsSafe == LoopsTypeOK /\ JoinKeepsEarlierTasks /\ OnlyJoinedLoopEnds
=============================================================================
