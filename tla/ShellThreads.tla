---------------------------- MODULE ShellThreads ----------------------------
(***************************************************************************)
(* shell/common/shell.cc: the calls in which one thread of a shell hands   *)
(* work from task runner to task runner and waits on a latch until it is   *)
(* done: PlatformView::NotifyCreated with Shell::OnPlatformViewCreated,    *)
(* Shell::OnPlatformViewDestroyed, Shell::OnPreEngineRestart, ~Shell and   *)
(* the service protocol's calls into a shell.  RunNowOrPostTask runs a     *)
(* task in place when its runner's tasks run on the calling thread.        *)
(***************************************************************************)
EXTENDS Integers, Sequences, FiniteSets

CONSTANTS Threads,      \* the threads with a message loop
          Configs,      \* the thread of each task runner: the embedder's choices
          service,      \* a thread of the Dart VM's service
          None,         \* no task, no call
          MaxSurfaces,  \* bound on surfaces created and destroyed
          MaxServices,  \* bound on service protocol calls
          MaxRestarts,  \* bound on hot restarts
          MaxMerges     \* bound on merges of the GPU and platform threads

Runners == {"platform", "ui", "gpu", "io"}

ASSUME ConfigsAssumption == Configs # {} /\ Configs \subseteq [Runners -> Threads]
ASSUME ServiceAssumption == service \notin Threads
ASSUME CallBoundsAssumption == /\ MaxSurfaces \in Nat /\ MaxServices \in Nat
                               /\ MaxRestarts \in Nat /\ MaxMerges \in Nat

VARIABLES thread,    \* the thread of each task runner
          merged,    \* the GPU task queue is merged into the platform's
          queue,     \* the tasks posted to each thread's loop
          running,   \* the task each thread is running
          wait,      \* the call on whose latch each thread waits
          latch,     \* the latch of each call
          phase,     \* how far each call has got
          reading,   \* the service holds handlers_mutex_ shared
          handlers,  \* the shell is among the service protocol's handlers
          view,      \* the platform view has told the shell of a surface
          engine,    \* Engine::have_surface_
          raster,    \* Rasterizer::surface_ is set
          counts     \* history: calls made

callVars == <<queue, running, wait, latch, phase>>
shellVars == <<thread, merged, callVars, reading, handlers, view, engine, raster, counts>>

Calls == {"Created", "Destroyed", "Shutdown", "Service", "Restart"}
Task == [call : Calls, at : Runners]
AllThreads == Threads \cup {service}
Phase == {"out", "surface", "handshake", "inline", "handlers", "ui", "gpu", "io",
          "platform", "handler", "gone"}

ShellInit ==
    /\ thread \in Configs
    /\ merged = FALSE
    /\ queue = [t \in Threads |-> <<>>]
    /\ running = [t \in AllThreads |-> None] /\ wait = [t \in AllThreads |-> None]
    /\ latch = [c \in Calls |-> FALSE] /\ phase = [c \in Calls |-> "out"]
    /\ reading = FALSE /\ handlers = TRUE
    /\ view = FALSE /\ engine = FALSE /\ raster = FALSE
    /\ counts = [surfaces |-> 0, services |-> 0, restarts |-> 0, merges |-> 0]

-----------------------------------------------------------------------------
(* Task runners.                                                            *)

\* TaskRunner::RunsTasksOnCurrentThread, on thread t.
RunsTasksOnCurrentThread(t, r) ==
    \/ t = thread[r]
    \/ merged /\ {t, thread[r]} = {thread["platform"], thread["gpu"]}

\* Mutant: the task is always posted.
AlwaysPostTask(t, r, call, w) ==
    /\ wait' = [wait EXCEPT ![t] = w]
    /\ running' = [running EXCEPT ![t] = None]
    /\ queue' = [queue EXCEPT ![thread[r]] = Append(@, [call |-> call, at |-> r])]

\* RunNowOrPostTask(r, <<call, r>>) on thread t, which then waits for w.
RunNowOrPostTask(t, r, call, w) ==
    /\ wait' = [wait EXCEPT ![t] = w]
    /\ IF RunsTasksOnCurrentThread(t, r)
       THEN /\ running' = [running EXCEPT ![t] = [call |-> call, at |-> r]]
            /\ UNCHANGED queue
       ELSE /\ running' = [running EXCEPT ![t] = None]
            /\ queue' = [queue EXCEPT ![thread[r]] = Append(@, [call |-> call, at |-> r])]

Free(t) == running[t] = None /\ wait[t] = None
Runs(t, call, r) == running[t] = [call |-> call, at |-> r]

\* The thread that takes the tasks posted to the loop of thread h.
Server(h) == IF merged /\ h = thread["gpu"] THEN thread["platform"] ELSE h

\* Loop t takes its next task.
TakeTask(t, h) ==
    /\ Free(t) /\ Server(h) = t /\ queue[h] # <<>>
    /\ running' = [running EXCEPT ![t] = Head(queue[h])]
    /\ queue' = [queue EXCEPT ![h] = Tail(@)]
    /\ UNCHANGED <<thread, merged, wait, latch, phase, reading, handlers, view, engine, raster, counts>>

\* The running task of thread t signals the latch and ends.
SignalLatch(t, call) ==
    /\ latch' = [latch EXCEPT ![call] = TRUE]
    /\ running' = [running EXCEPT ![t] = None]
    /\ UNCHANGED <<queue, wait, phase>>

\* Thread t has run what it runs in place, and its latch is signalled.
Awakes(t, call, p) == running[t] = None /\ wait[t] = call /\ latch[call] /\ phase[call] = p

Reset(call) == latch' = [latch EXCEPT ![call] = FALSE]
Enter(call, p) == phase' = [phase EXCEPT ![call] = p]
Return(t, call) ==
    /\ Enter(call, "out") /\ wait' = [wait EXCEPT ![t] = None]
    /\ UNCHANGED <<queue, running>>

Count(c) == counts' = [counts EXCEPT ![c] = @ + 1]

\* The calls compare the runners themselves.
ShouldPostGpuTask == thread["gpu"] # thread["platform"]

\* A merge by Draw on the GPU thread, and its end on the platform thread.
MergeThreads ==
    /\ ~merged /\ ShouldPostGpuTask /\ raster /\ counts.merges < MaxMerges
    /\ Free(thread["gpu"])
    /\ merged' = TRUE /\ Count("merges")
    /\ UNCHANGED <<thread, callVars, reading, handlers, view, engine, raster>>
UnmergeThreads ==
    /\ merged /\ Free(thread["platform"])
    /\ merged' = FALSE
    /\ UNCHANGED <<thread, callVars, reading, handlers, view, engine, raster, counts>>

-----------------------------------------------------------------------------
(* PlatformView::NotifyCreated and Shell::OnPlatformViewCreated, called on  *)
(* the platform thread.                                                     *)

NotifyCreated ==
    LET t == thread["platform"]
    IN  /\ Free(t) /\ ~view /\ phase["Shutdown"] = "out"
        /\ counts.surfaces < MaxSurfaces /\ Count("surfaces")
        /\ Enter("Created", "surface")
        /\ RunNowOrPostTask(t, "gpu", "Created", "Created")
        /\ UNCHANGED <<thread, merged, latch, reading, handlers, view, engine, raster>>

\* CreateRenderingSurface.
CreateRenderingSurface(t) ==
    /\ Runs(t, "Created", "gpu") /\ phase["Created"] = "surface"
    /\ SignalLatch(t, "Created")
    /\ UNCHANGED <<thread, merged, reading, handlers, view, engine, raster, counts>>

OnPlatformViewCreated(t) ==
    /\ Awakes(t, "Created", "surface")
    /\ Reset("Created") /\ Enter("Created", "handshake")
    /\ RunNowOrPostTask(t, "io", "Created", "Created")
    /\ UNCHANGED <<thread, merged, reading, handlers, view, engine, raster, counts>>

\* io_task
CreatedIO(t) ==
    /\ Runs(t, "Created", "io")
    /\ RunNowOrPostTask(t, "ui", "Created", wait[t])
    /\ UNCHANGED <<thread, merged, latch, phase, reading, handlers, view, engine, raster, counts>>

\* ui_task
CreatedUI(t) ==
    /\ Runs(t, "Created", "ui")
    /\ engine' = TRUE
    /\ IF ShouldPostGpuTask
       THEN RunNowOrPostTask(t, "gpu", "Created", wait[t]) /\ UNCHANGED <<latch, phase>>
       ELSE SignalLatch(t, "Created")
    /\ UNCHANGED <<thread, merged, reading, handlers, view, raster, counts>>

\* gpu_task, on the GPU thread or in place after the latch.
CreatedGPU(t) ==
    /\ Runs(t, "Created", "gpu") /\ phase["Created"] \in {"handshake", "inline"}
    /\ raster' = TRUE
    /\ running' = [running EXCEPT ![t] = None]
    /\ IF phase["Created"] = "handshake"
       THEN latch' = [latch EXCEPT !["Created"] = TRUE] /\ UNCHANGED <<phase, view>>
       ELSE Enter("Created", "out") /\ view' = TRUE /\ UNCHANGED latch
    /\ UNCHANGED <<thread, merged, queue, wait, reading, handlers, engine, counts>>

CreatedReturns(t) ==
    /\ Awakes(t, "Created", "handshake")
    /\ Reset("Created")
    /\ IF ShouldPostGpuTask
       THEN Return(t, "Created") /\ view' = TRUE
       ELSE /\ Enter("Created", "inline") /\ UNCHANGED <<queue, view>>
            /\ running' = [running EXCEPT ![t] = [call |-> "Created", at |-> "gpu"]]
            /\ wait' = [wait EXCEPT ![t] = None]
    /\ UNCHANGED <<thread, merged, reading, handlers, engine, raster, counts>>

-----------------------------------------------------------------------------
(* Shell::OnPlatformViewDestroyed, called on the platform thread.           *)

OnPlatformViewDestroyed ==
    LET t == thread["platform"]
    IN  /\ Free(t) /\ view /\ phase["Shutdown"] = "out"
        /\ counts.surfaces < MaxSurfaces /\ Count("surfaces")
        /\ Enter("Destroyed", "handshake")
        /\ RunNowOrPostTask(t, "ui", "Destroyed", "Destroyed")
        /\ UNCHANGED <<thread, merged, latch, reading, handlers, view, engine, raster>>

\* ui_task
DestroyedUI(t) ==
    /\ Runs(t, "Destroyed", "ui")
    /\ engine' = FALSE
    /\ IF ShouldPostGpuTask
       THEN RunNowOrPostTask(t, "gpu", "Destroyed", wait[t]) /\ UNCHANGED <<latch, phase>>
       ELSE SignalLatch(t, "Destroyed")
    /\ UNCHANGED <<thread, merged, reading, handlers, view, raster, counts>>

\* gpu_task
DestroyedGPU(t) ==
    /\ Runs(t, "Destroyed", "gpu")
    /\ raster' = FALSE
    /\ RunNowOrPostTask(t, "io", "Destroyed", wait[t])
    /\ UNCHANGED <<thread, merged, latch, phase, reading, handlers, view, engine, counts>>

\* io_task
DestroyedIO(t) ==
    /\ Runs(t, "Destroyed", "io")
    /\ SignalLatch(t, "Destroyed")
    /\ UNCHANGED <<thread, merged, reading, handlers, view, engine, raster, counts>>

DestroyedReturns(t) ==
    /\ \/ Awakes(t, "Destroyed", "handshake") \/ Awakes(t, "Destroyed", "inline")
    /\ Reset("Destroyed")
    /\ IF ShouldPostGpuTask \/ phase["Destroyed"] = "inline"
       THEN Return(t, "Destroyed") /\ view' = FALSE
       ELSE /\ Enter("Destroyed", "inline") /\ UNCHANGED <<queue, wait, view>>
            /\ running' = [running EXCEPT ![t] = [call |-> "Destroyed", at |-> "gpu"]]
    /\ UNCHANGED <<thread, merged, reading, handlers, engine, raster, counts>>

-----------------------------------------------------------------------------
(* ServiceProtocol::HandleMessage, on a thread of the service: the handler  *)
(* runs on the GPU or the UI thread while handlers_mutex_ is held shared.   *)

HandleMessage(r) ==
    /\ Free(service) /\ r \in {"gpu", "ui"}
    /\ handlers /\ counts.services < MaxServices /\ Count("services")
    /\ reading' = TRUE
    /\ Enter("Service", "handler")
    /\ RunNowOrPostTask(service, r, "Service", "Service")
    /\ UNCHANGED <<thread, merged, latch, handlers, view, engine, raster>>

\* A handler that only answers.
ServiceHandler(t) ==
    /\ Runs(t, "Service", "gpu") \/ Runs(t, "Service", "ui")
    /\ SignalLatch(t, "Service")
    /\ UNCHANGED <<thread, merged, reading, handlers, view, engine, raster, counts>>

HandleMessageReturns ==
    /\ Awakes(service, "Service", "handler")
    /\ Reset("Service") /\ Return(service, "Service")
    /\ reading' = FALSE
    /\ UNCHANGED <<thread, merged, handlers, view, engine, raster, counts>>

\* OnServiceProtocolRunInView restarts the engine: Shell::OnPreEngineRestart
\* waits for the platform thread.
OnPreEngineRestart(t) ==
    /\ Runs(t, "Service", "ui") /\ wait[t] = None
    /\ counts.restarts < MaxRestarts /\ Count("restarts")
    /\ Enter("Restart", "handshake")
    /\ RunNowOrPostTask(t, "platform", "Restart", "Restart")
    /\ UNCHANGED <<thread, merged, latch, reading, handlers, view, engine, raster>>

RestartPlatform(t) ==
    /\ Runs(t, "Restart", "platform")
    /\ SignalLatch(t, "Restart")
    /\ UNCHANGED <<thread, merged, reading, handlers, view, engine, raster, counts>>

\* The restart is done, and so is the handler.
RestartReturns(t) ==
    /\ Awakes(t, "Restart", "handshake")
    /\ latch' = [latch EXCEPT !["Restart"] = FALSE, !["Service"] = TRUE]
    /\ Return(t, "Restart")
    /\ UNCHANGED <<thread, merged, reading, handlers, view, engine, raster, counts>>

-----------------------------------------------------------------------------
(* ~Shell, on the platform thread: the engine, the rasterizer, the IO       *)
(* manager and the platform view are destroyed one after the other, each on *)
(* its own thread.                                                          *)

Shutdown ==
    /\ Free(thread["platform"]) /\ phase["Shutdown"] = "out"
    /\ Enter("Shutdown", "handlers")
    /\ wait' = [wait EXCEPT ![thread["platform"]] = "Shutdown"]
    /\ UNCHANGED <<thread, merged, queue, running, latch, reading, handlers, view, engine, raster, counts>>


\* RemoveHandler gets handlers_mutex_ exclusively; the engine is next.
RemoveHandler ==
    LET t == thread["platform"]
    IN  /\ phase["Shutdown"] = "handlers" /\ ~reading
        /\ handlers' = FALSE
        /\ Enter("Shutdown", "ui")
        /\ RunNowOrPostTask(t, "ui", "Shutdown", "Shutdown")
        /\ UNCHANGED <<thread, merged, latch, reading, view, engine, raster, counts>>

\* engine.reset(), rasterizer.reset(), io_manager.reset(), platform_view.reset()
ShutdownTask(t, r) ==
    /\ Runs(t, "Shutdown", r)
    /\ engine' = (IF r = "ui" THEN FALSE ELSE engine)
    /\ raster' = (IF r = "gpu" THEN FALSE ELSE raster)
    /\ view' = (IF r = "platform" THEN FALSE ELSE view)
    /\ SignalLatch(t, "Shutdown")
    /\ UNCHANGED <<thread, merged, reading, handlers, counts>>

ShutdownNext == [ui |-> "gpu", gpu |-> "io", io |-> "platform"]

ShutdownGoesOn(t) ==
    /\ \E p \in DOMAIN ShutdownNext :
         /\ Awakes(t, "Shutdown", p)
         /\ Enter("Shutdown", ShutdownNext[p])
         /\ RunNowOrPostTask(t, ShutdownNext[p], "Shutdown", "Shutdown")
    /\ Reset("Shutdown")
    /\ UNCHANGED <<thread, merged, reading, handlers, view, engine, raster, counts>>

ShutdownReturns(t) ==
    /\ Awakes(t, "Shutdown", "platform")
    /\ Reset("Shutdown") /\ Enter("Shutdown", "gone")
    /\ wait' = [wait EXCEPT ![t] = None]
    /\ UNCHANGED <<thread, merged, queue, running, reading, handlers, view, engine, raster, counts>>

-----------------------------------------------------------------------------
RunTask(t) ==
    \/ CreateRenderingSurface(t) \/ CreatedIO(t) \/ CreatedUI(t) \/ CreatedGPU(t)
    \/ DestroyedUI(t) \/ DestroyedGPU(t) \/ DestroyedIO(t)
    \/ ServiceHandler(t) \/ OnPreEngineRestart(t) \/ RestartPlatform(t)
    \/ \E r \in Runners : ShutdownTask(t, r)
Awake(t) ==
    \/ OnPlatformViewCreated(t) \/ CreatedReturns(t) \/ DestroyedReturns(t)
    \/ RestartReturns(t) \/ ShutdownGoesOn(t) \/ ShutdownReturns(t)
ThreadStep(t) == RunTask(t) \/ Awake(t) \/ \E h \in Threads : TakeTask(t, h)

CallStep == NotifyCreated \/ OnPlatformViewDestroyed \/ Shutdown
            \/ \E r \in Runners : HandleMessage(r)

ShellNext ==
    \/ CallStep \/ MergeThreads \/ UnmergeThreads
    \/ HandleMessageReturns \/ RemoveHandler
    \/ \E t \in Threads : ThreadStep(t)

\* Every thread runs, and a lock that stays free is taken.
ShellFairness ==
    /\ \A t \in Threads : WF_shellVars(ThreadStep(t))
    /\ WF_shellVars(HandleMessageReturns) /\ WF_shellVars(RemoveHandler)

ShellSpec == ShellInit /\ [][ShellNext]_shellVars
ShellFairSpec == ShellSpec /\ ShellFairness

-----------------------------------------------------------------------------
(* Properties.                                                              *)

ShellTypeOK ==
    /\ thread \in Configs /\ merged \in BOOLEAN
    /\ queue \in [Threads -> Seq(Task)]
    /\ running \in [AllThreads -> Task \cup {None}] /\ running[service] = None
    /\ wait \in [AllThreads -> Calls \cup {None}]
    /\ latch \in [Calls -> BOOLEAN] /\ phase \in [Calls -> Phase]
    /\ {reading, handlers, view, engine, raster} \subseteq BOOLEAN

\* "This is a synchronous operation because certain platforms depend on
\* setup/suspension of all activities that may be interacting with the GPU":
\* between the calls the engine and the rasterizer know of a surface exactly
\* when the platform view has one.
SurfaceSynchronous ==
    /\ phase["Created"] = "out" /\ phase["Destroyed"] = "out" /\ phase["Shutdown"] = "out"
    => engine = view /\ raster = view

\* ~Shell: no subsystem is destroyed while the service can still call into the
\* shell, and none outlives the destructor.
ShutdownInOrder ==
    /\ phase["Shutdown"] \in {"ui", "gpu", "io", "platform", "gone"} => ~handlers /\ ~reading
    /\ phase["Shutdown"] \in {"gpu", "io", "platform", "gone"} => ~engine
    /\ phase["Shutdown"] \in {"io", "platform", "gone"} => ~raster
    /\ phase["Shutdown"] = "gone" => ~view /\ \A t \in Threads : queue[t] = <<>>

\* Some thread has something to do.
Live ==
    \/ \E t \in AllThreads : running[t] # None
    \/ \E t \in AllThreads : wait[t] # None /\ latch[wait[t]]
    \/ \E h \in Threads : queue[h] # <<>> /\ Free(Server(h))
    \/ phase["Shutdown"] = "handlers" /\ ~reading

\* "To avoid the described deadlock, if the gpu and the platform threads are the
\* same, should_post_gpu_task will be false": the threads never all wait for
\* tasks that only a waiting thread would run.
NobodyWaitsForever == (\E t \in AllThreads : wait[t] # None) => Live

\* The same without merges and service calls, in whatever way the embedder puts the
\* task runners on threads.
SurfaceCallsNeverDeadlock == counts.merges = 0 /\ counts.services = 0 => NobodyWaitsForever

\* OnPreEngineRestart: "This is blocking as any embedded platform views has to be
\* flushed before we re-run the Dart code": once the UI thread waits, the
\* platform thread flushes the platform views.
RestartFlushes == phase["Restart"] = "handshake" ~> latch["Restart"]

\* Every task runner has a thread of its own, and keeps it; the engine is not
\* restarted.
Ordinary ==
    /\ \A r, s \in Runners : thread[r] = thread[s] => r = s
    /\ counts.merges = 0 /\ counts.restarts = 0

\* Every surface notification, service call and destruction of a shell, each of
\* which makes its thread wait on a latch, returns in an ordinary shell.
EveryCallReturns ==
    (\E c \in Calls : phase[c] \notin {"out", "gone"})
        ~> (~Ordinary \/ \A c \in Calls : phase[c] \in {"out", "gone"})

=============================================================================
