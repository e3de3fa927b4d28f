---------------------------- MODULE ShellCreation ----------------------------
(***************************************************************************)
(* shell/common/shell.cc: Shell::Create and CreateShellOnPlatformThread,   *)
(* which build a shell's subsystems on the threads that own them and join  *)
(* them with promises that live on the stack of the platform thread, and   *)
(* ~Shell, which takes them apart again: after a creation that gave up as  *)
(* after one that succeeded.  What a shell does in between is in           *)
(* ShellThreads.                                                           *)
(***************************************************************************)
EXTENDS Sequences

CONSTANTS CreationThreads,  \* the threads with a message loop
          CreationConfigs   \* the thread of each task runner: the embedder's choices

Owners == {"platform", "ui", "gpu", "io"}

ASSUME CreationConfigsAssumption ==
    CreationConfigs # {} /\ CreationConfigs \subseteq [Owners -> CreationThreads]

VARIABLES home,      \* the thread of each task runner
          creation,  \* how far the platform thread has got
          inbox,     \* the tasks posted to each thread
          promised,  \* the subsystems whose promises have been kept
          locals,    \* CreateShellOnPlatformThread's promises exist
          factory,   \* where weak_factory_gpu_ is
          ended,     \* the latch of the current step of ~Shell
          failed,    \* history: the platform view or its vsync waiter was not made
          dangling   \* history: a task has kept a promise that was gone

creationVars == <<home, creation, inbox, promised, locals, factory, ended, failed,
                  dangling>>

Subsystems == {"rasterizer", "io manager", "engine"}
BuildTask == Subsystems \cup {"factory"}
EndTask == {"end engine", "end rasterizer", "end io manager", "end view"}

\* "none": not yet made; "held": in the shell; "moved": in the task of ~Shell;
\* "nothing moved": that task was made before the factory was; "misplaced":
\* the factory was made after that and ends with the shell, on the platform
\* thread; "ended": it was deleted on the GPU thread.
FactoryPlace == {"none", "held", "moved", "nothing moved", "misplaced", "ended"}

Stage == {"out", "posted", "construct", "rasterizer", "view", "io manager", "engine",
          "setup", "up", "end engine", "end rasterizer", "end io manager", "end view",
          "gone"}

CreationInitOf(config) ==
    /\ home = config
    /\ creation = "out"
    /\ inbox = [t \in CreationThreads |-> <<>>]
    /\ promised = {} /\ locals = FALSE /\ factory = "none"
    /\ ended = "none"
    /\ failed = FALSE /\ dangling = FALSE

CreationInit == \E config \in CreationConfigs : CreationInitOf(config)

-----------------------------------------------------------------------------
(* The tasks.                                                               *)

\* What a task of the creation or of ~Shell does on its thread.  The engine's
\* waits for the futures of the IO manager and of the rasterizer.
RunShellTask(task) ==
    /\ task = "engine" => {"rasterizer", "io manager"} \subseteq promised
    /\ promised' = promised \cup ({task} \cap Subsystems)
    /\ dangling' = (dangling \/ (task \in Subsystems /\ ~locals))
    /\ factory' = IF task = "factory"
                  THEN IF factory = "nothing moved" THEN "misplaced" ELSE "held"
                  ELSE IF task = "end rasterizer" /\ factory = "moved" THEN "ended"
                       ELSE factory
    /\ ended' = IF task \in EndTask THEN "signalled" ELSE ended

\* TaskRunner::RunNowOrPostTask, on the platform thread.
RunOnOwner(owner, task) ==
    IF home[owner] = home["platform"]
    THEN RunShellTask(task) /\ UNCHANGED inbox
    ELSE /\ inbox' = [inbox EXCEPT ![home[owner]] = Append(@, task)]
         /\ UNCHANGED <<promised, dangling, factory, ended>>

\* The platform thread is inside Shell::Create or ~Shell.
PlatformBusy == creation \notin {"out", "posted", "up", "gone"}

\* A thread runs the first task posted to it.
RunPostedTask(t) ==
    /\ inbox[t] # <<>>
    /\ t = home["platform"] => ~PlatformBusy
    /\ inbox' = [inbox EXCEPT ![t] = Tail(@)]
    /\ IF Head(inbox[t]) = "create"
       THEN creation' = "construct" /\ UNCHANGED <<promised, dangling, factory, ended>>
       ELSE RunShellTask(Head(inbox[t])) /\ UNCHANGED creation
    /\ UNCHANGED <<home, locals, failed>>

-----------------------------------------------------------------------------
(* Shell::Create.                                                           *)

\* Shell::Create, from the platform thread or from a thread of the embedder's.
CreateShell ==
    /\ creation = "out"
    /\ \/ creation' = "construct" /\ UNCHANGED inbox
       \/ /\ creation' = "posted"
          /\ inbox' = [inbox EXCEPT ![home["platform"]] = Append(@, "create")]
    /\ UNCHANGED <<home, promised, locals, factory, ended, failed, dangling>>

\* The constructor: weak_factory_gpu_ is made on the GPU thread, and not waited
\* for; then the promises.
ConstructShell ==
    /\ creation = "construct"
    /\ creation' = "rasterizer" /\ locals' = TRUE
    /\ RunOnOwner("gpu", "factory")
    /\ UNCHANGED <<home, failed>>

CreateRasterizer ==
    /\ creation = "rasterizer"
    /\ creation' = "view"
    /\ RunOnOwner("gpu", "rasterizer")
    /\ UNCHANGED <<home, locals, failed>>

\* on_create_platform_view and CreateVSyncWaiter: when there is no view or no
\* waiter the function returns, which ends its promises and then the shell.
CreatePlatformView ==
    /\ creation = "view"
    /\ \/ creation' = "io manager" /\ UNCHANGED <<locals, failed>>
       \/ creation' = "end engine" /\ locals' = FALSE /\ failed' = TRUE
    /\ UNCHANGED <<home, inbox, promised, factory, ended, dangling>>

CreateIOManager ==
    /\ creation = "io manager"
    /\ creation' = "engine"
    /\ RunOnOwner("io", "io manager")
    /\ UNCHANGED <<home, locals, failed>>

CreateEngine ==
    /\ creation = "engine"
    /\ creation' = "setup"
    /\ RunOnOwner("ui", "engine")
    /\ UNCHANGED <<home, locals, failed>>

\* Shell::Setup, with the values of the three futures; Create returns the shell.
SetupShell ==
    /\ creation = "setup"
    /\ promised = Subsystems
    /\ creation' = "up" /\ locals' = FALSE
    /\ UNCHANGED <<home, inbox, promised, factory, ended, failed, dangling>>

-----------------------------------------------------------------------------
(* ~Shell.                                                                  *)

\* The embedder lets go of the shell it was given.
DestroyShell ==
    /\ creation = "up"
    /\ creation' = "end engine"
    /\ UNCHANGED <<home, inbox, promised, locals, factory, ended, failed, dangling>>

OwnerOf(task) ==
    CASE task = "end engine" -> "ui"
      [] task = "end rasterizer" -> "gpu"
      [] task = "end io manager" -> "io"
      [] task = "end view" -> "platform"

\* A subsystem ends on its own thread.  The GPU thread's task takes
\* weak_factory_gpu_ along, if it has been made by then.
EndSubsystem ==
    /\ creation \in EndTask /\ ended = "none"
    /\ LET owner == OwnerOf(creation)
           taken == IF creation # "end rasterizer" THEN factory
                    ELSE IF factory = "held" THEN "moved" ELSE "nothing moved"
       IN  IF home[owner] = home["platform"]
           THEN /\ factory' = IF taken = "moved" THEN "ended" ELSE taken
                /\ ended' = "signalled"
                /\ UNCHANGED inbox
           ELSE /\ factory' = taken
                /\ ended' = "posted"
                /\ inbox' = [inbox EXCEPT ![home[owner]] = Append(@, creation)]
    /\ UNCHANGED <<home, creation, promised, locals, failed, dangling>>

Following == [e \in EndTask |->
    CASE e = "end engine" -> "end rasterizer"
      [] e = "end rasterizer" -> "end io manager"
      [] e = "end io manager" -> "end view"
      [] e = "end view" -> "gone"]

\* Mutant: ~Shell does not wait on its latches.
SubsystemEndsUnawaited ==
    /\ creation \in EndTask /\ ended # "none"
    /\ creation' = Following[creation]
    /\ ended' = "none"
    /\ UNCHANGED <<home, inbox, promised, locals, factory, failed, dangling>>

\* The wait on the latch returns; after the last the shell is gone.
SubsystemEnds ==
    /\ creation \in EndTask /\ ended = "signalled"
    /\ creation' = Following[creation]
    /\ ended' = "none"
    /\ UNCHANGED <<home, inbox, promised, locals, factory, failed, dangling>>

CreationStep ==
    \/ ConstructShell \/ CreateRasterizer \/ CreatePlatformView \/ CreateIOManager
    \/ CreateEngine \/ SetupShell \/ EndSubsystem \/ SubsystemEnds

CreationNext ==
    \/ CreateShell \/ DestroyShell \/ CreationStep
    \/ \E t \in CreationThreads : RunPostedTask(t)

CreationSpec == CreationInit /\ [][CreationNext]_creationVars

\* Threads run the tasks posted to them and finish the calls they are in; an
\* embedder need neither create a shell nor let go of it.
CreationFairness ==
    /\ WF_creationVars(CreationStep)
    /\ \A t \in CreationThreads : WF_creationVars(RunPostedTask(t))

CreationFairSpec == CreationSpec /\ CreationFairness

-----------------------------------------------------------------------------
(* Properties.                                                              *)

\* The variables keep the values the code gives them.
CreationTypeOK ==
    /\ home \in [Owners -> CreationThreads]
    /\ creation \in Stage
    /\ inbox \in [CreationThreads -> Seq(BuildTask \cup EndTask \cup {"create"})]
    /\ promised \subseteq Subsystems
    /\ factory \in FactoryPlace
    /\ ended \in {"none", "posted", "signalled"}
    /\ locals \in BOOLEAN /\ failed \in BOOLEAN /\ dangling \in BOOLEAN

\* When Shell::Create has returned, with a shell or without, no task of the
\* creation is left on any thread: each of them refers to the shell and to its
\* caller's stack, and only the rasterizer's and the engine's are waited for
\* by name.
NothingLeftBehind ==
    creation \in {"up", "gone"} =>
        \A t \in CreationThreads : \A k \in DOMAIN inbox[t] : inbox[t][k] \notin BuildTask

\* The shell that Create returns has its weak_factory_gpu_, which the
\* constructor did not wait for: the rasterizer's promise comes after it on the
\* GPU thread.
ReturnedShellIsWhole == creation = "up" => factory = "held" /\ promised = Subsystems

\* No task keeps a promise that is gone, and weak_factory_gpu_ is deleted on the
\* GPU thread, unless the creation gave up with the GPU thread's tasks still to
\* run (the early returns of CreateShellOnPlatformThread wait for nothing).
OnlyGivingUpOutruns ==
    dangling \/ factory = "misplaced" => failed /\ home["gpu"] # home["platform"]

\* Shell::Create returns and ~Shell ends on every arrangement of the runners on
\* threads: no thread waits for a promise that only it could keep.
CreationReturns ==
    /\ (creation = "posted") ~> (creation \in {"up", "gone"})
    /\ PlatformBusy ~> ~PlatformBusy

\* Shell creation joins its threads: it leaves nothing behind, returns a whole
\* shell, and always returns.
ShellCreated ==
    /\ [](/\ CreationTypeOK /\ NothingLeftBehind
          /\ ReturnedShellIsWhole /\ OnlyGivingUpOutruns)
    /\ CreationReturns
=============================================================================
