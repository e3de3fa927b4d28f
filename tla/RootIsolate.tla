---------------------------- MODULE RootIsolate ----------------------------
(***************************************************************************)
(* The root isolate of an engine: Engine::Run and Restart                  *)
(* (shell/common/engine.cc), the RuntimeController that owns the isolate   *)
(* and replays the window's state to its successor                         *)
(* (runtime/runtime_controller.cc), the isolate's phases and the loading   *)
(* of its kernel pieces (runtime/dart_isolate.cc,                          *)
(* shell/common/isolate_configuration.cc), and the child isolates the VM   *)
(* prepares on its own threads with the group's ChildIsolatePreparer.      *)
(* What the Dart VM answers is a choice.                                   *)
(***************************************************************************)
EXTENDS Naturals, Sequences

CONSTANTS KernelLists,    \* the lists of kernel pieces of the configurations
          WindowStates,   \* viewport, locales, settings... as one value
          DefaultWindow,  \* WindowData{}
          Children,       \* isolates the Dart code spawns
          MaxRuns         \* bound on the calls of Run and Restart

ASSUME WindowAssumption == DefaultWindow \in WindowStates
ASSUME MaxRunsAssumption == MaxRuns \in Nat

Snapshot == <<"snapshot">>    \* an AppSnapshotIsolateConfiguration
NoPreparer == <<"none">>
Controllers == 1..(MaxRuns + 1)

VARIABLES aot,         \* DartVM::IsRunningPrecompiledCode
          current,     \* the RuntimeController in use, 0 after ~Engine
          isolate,     \* the root isolate of each controller
          windowData,  \* window_data_ of the current controller
          child,       \* the spawned isolates
          rewritten,   \* a preparer was assigned while it was executed
          runs

isolateVars == <<aot, current, isolate, windowData, child, rewritten, runs>>

\* The piece lists that any sequence of calls can have brought together.
IsolateTypeOK ==
    /\ aot \in BOOLEAN /\ current \in Controllers \cup {0}
    /\ DOMAIN isolate = Controllers
    /\ \A g \in Controllers :
          /\ isolate[g].phase \in {"none", "LibrariesSetup", "Ready", "Running", "Collected"}
          /\ isolate[g].loadFailed \in BOOLEAN
          /\ isolate[g].window \in WindowStates
    /\ windowData \in WindowStates
    /\ \A c \in Children : /\ child[c].state \in {"none", "preparing", "running", "failed"}
                           /\ child[c].group \in Controllers \cup {0}
    /\ rewritten \in BOOLEAN /\ runs \in 0..MaxRuns

NoIsolate == [phase |-> "none", buffers |-> <<>>, loaded |-> <<>>, loadFailed |-> FALSE,
              preparer |-> NoPreparer, mains |-> 0, created |-> 0, ended |-> 0,
              callback |-> FALSE, window |-> DefaultWindow]

\* RuntimeController's constructor: CreateRootIsolate initialises the isolate
\* and loads its libraries, and FlushRuntimeStateToIsolate gives it the window
\* data of the controller.
NewIsolate(data) == [NoIsolate EXCEPT !.phase = "LibrariesSetup", !.window = data]

NoChild == [state |-> "none", group |-> 0, code |-> <<>>]

IsolateInit ==
    /\ aot \in BOOLEAN
    /\ current = 1
    /\ isolate = [g \in Controllers |-> IF g = 1 THEN NewIsolate(DefaultWindow) ELSE NoIsolate]
    /\ windowData = DefaultWindow
    /\ child = [c \in Children |-> NoChild]
    /\ rewritten = FALSE /\ runs = 0

\* Mutant: the preparer is made with the first piece.
LoadedSoFarOfFirst(s, pieces, n, failing) ==
    LET pushed == s.buffers \o SubSeq(pieces, 1, IF failing THEN n + 1 ELSE n) IN
    [s EXCEPT !.buffers = pushed,
              !.loaded = @ \o SubSeq(pieces, 1, n),
              !.loadFailed = @ \/ failing,
              !.preparer = IF @ = NoPreparer /\ n > 0 THEN SubSeq(pushed, 1, 1) ELSE @]

\* The first n pieces have been loaded; the next one, if failing, was retained
\* and then refused by Dart_LoadLibraryFromKernel.
LoadedSoFar(s, pieces, n, failing) ==
    [s EXCEPT !.buffers = @ \o SubSeq(pieces, 1, IF failing THEN n + 1 ELSE n),
              !.loaded = @ \o SubSeq(pieces, 1, n),
              !.loadFailed = @ \/ failing]

\* PrepareForRunningFromKernel for every piece: one of them is not a kernel or
\* cannot be loaded, or the end of the last call fails, or the isolate is ready
\* and the group's preparer, if there is none yet, takes the pieces retained.
PrepareFromKernels(s, pieces) ==
    LET all == LoadedSoFar(s, pieces, Len(pieces), FALSE)
        retained == IF all.preparer = NoPreparer THEN all.buffers ELSE all.preparer
        ready == [all EXCEPT !.phase = "Ready", !.preparer = retained]
    IN  IF pieces = <<>> THEN {s}
        ELSE {ready, all} \cup {LoadedSoFar(s, pieces, n, failing) :
                                   n \in 0..(Len(pieces) - 1), failing \in BOOLEAN}

\* PrepareForRunningFromPrecompiledCode.
PrepareFromPrecompiledCode(s) == {s, [s EXCEPT !.phase = "Ready", !.preparer = Snapshot]}

\* IsolateConfiguration::PrepareIsolate of either kind.  A list of no pieces
\* succeeds and leaves the phase.
PrepareIsolate(s, configuration) ==
    IF configuration = Snapshot THEN PrepareFromPrecompiledCode(s)
    ELSE IF aot THEN {s}
    ELSE PrepareFromKernels(s, configuration)

\* DartIsolate::Run and RunFromLibrary, and the callbacks Engine::Run makes and
\* registers: the entry point is not found, or main throws, or it runs.
RunMain(s) ==
    IF s.phase # "Ready" THEN {s}
    ELSE {s,
          [s EXCEPT !.mains = @ + 1],
          [s EXCEPT !.mains = @ + 1, !.phase = "Running", !.created = @ + 1, !.callback = TRUE]}

\* PrepareAndLaunchIsolate: an isolate that has gone, runs, or was prepared by
\* an earlier call is refused.
PrepareAndLaunchIsolate(s, configuration) ==
    IF s.phase # "LibrariesSetup" THEN {s}
    ELSE UNION {RunMain(p) : p \in PrepareIsolate(s, configuration)}

\* Dart_ShutdownIsolate: OnShutdownCallback fires the callbacks, then the VM
\* deletes the isolate's data.
ShutdownIsolate(s) ==
    [s EXCEPT !.phase = IF @ = "none" THEN @ ELSE "Collected",
              !.ended = IF s.phase # "Collected" /\ s.callback THEN @ + 1 ELSE @,
              !.callback = FALSE]

\* Engine::Run with a valid configuration.
Run(configuration) ==
    /\ current # 0 /\ runs < MaxRuns
    /\ \E s \in PrepareAndLaunchIsolate(isolate[current], configuration) :
          isolate' = [isolate EXCEPT ![current] = s]
    /\ runs' = runs + 1
    /\ UNCHANGED <<aot, current, windowData, child, rewritten>>

\* Mutant: the clone starts from the default window data.
RestartForgetsWindow(configuration) ==
    /\ current # 0 /\ runs < MaxRuns
    /\ \E s \in PrepareAndLaunchIsolate(NewIsolate(DefaultWindow), configuration) :
          isolate' = [isolate EXCEPT ![current] = ShutdownIsolate(@), ![current + 1] = s]
    /\ current' = current + 1 /\ runs' = runs + 1
    /\ UNCHANGED <<aot, windowData, child, rewritten>>

\* Engine::Restart: the clone, with its root isolate and the same window data,
\* is made first; then the old controller's destructor shuts its isolate down;
\* then the new one runs.
Restart(configuration) ==
    /\ current # 0 /\ runs < MaxRuns
    /\ \E s \in PrepareAndLaunchIsolate(NewIsolate(windowData), configuration) :
          isolate' = [isolate EXCEPT ![current] = ShutdownIsolate(@), ![current + 1] = s]
    /\ current' = current + 1 /\ runs' = runs + 1
    /\ UNCHANGED <<aot, windowData, child, rewritten>>

\* One of the setters of the window data, told to the window of an isolate that
\* is still there.
SetWindowData(data) ==
    /\ current # 0 /\ data # windowData
    /\ windowData' = data
    /\ isolate' = IF isolate[current].phase = "Collected" THEN isolate
                  ELSE [isolate EXCEPT ![current].window = data]
    /\ UNCHANGED <<aot, current, child, rewritten, runs>>

\* The Dart code ends its own isolate.
IsolateExits ==
    /\ current # 0 /\ isolate[current].phase = "Running"
    /\ isolate' = [isolate EXCEPT ![current] = ShutdownIsolate(@)]
    /\ UNCHANGED <<aot, current, windowData, child, rewritten, runs>>

\* ~Engine.
DestroyIsolate ==
    /\ current # 0
    /\ isolate' = [isolate EXCEPT ![current] = ShutdownIsolate(@)]
    /\ current' = 0
    /\ UNCHANGED <<aot, windowData, child, rewritten, runs>>

\* Isolate.spawn: the VM calls DartIsolateInitializeCallback on a thread of its
\* own, which executes the preparer of the group.
SpawnChild(c) ==
    /\ child[c] = NoChild /\ current # 0 /\ isolate[current].phase = "Running"
    /\ child' = [child EXCEPT ![c].state = "preparing", ![c].group = current]
    /\ UNCHANGED <<aot, current, isolate, windowData, rewritten, runs>>

\* The preparer loads what it captured into the child.  The one for precompiled
\* code is PrepareForRunningFromPrecompiledCode, which sets the group's preparer
\* from inside; the one for kernels leaves the preparer that is there.
PrepareChild(c) ==
    /\ child[c].state = "preparing"
    /\ \/ /\ child' = [child EXCEPT ![c].state = "failed"] /\ UNCHANGED rewritten
       \/ /\ child' = [child EXCEPT ![c].state = "running",
                                    ![c].code = isolate[child[c].group].preparer]
          /\ rewritten' = (rewritten \/ isolate[child[c].group].preparer = Snapshot)
    /\ UNCHANGED <<aot, current, isolate, windowData, runs>>

Configurations == KernelLists \cup {Snapshot}

IsolateNext ==
    \/ \E configuration \in Configurations : Run(configuration) \/ Restart(configuration)
    \/ \E data \in WindowStates : SetWindowData(data)
    \/ IsolateExits \/ DestroyIsolate
    \/ \E c \in Children : SpawnChild(c) \/ PrepareChild(c)

IsolateSpec == IsolateInit /\ [][IsolateNext]_isolateVars

-----------------------------------------------------------------------------
\* The isolate in use has been told the latest window data, whether it was set
\* before it was made, while it ran, or while its predecessor was gone.
WindowUpToDate ==
    current # 0 /\ isolate[current].phase # "Collected" => isolate[current].window = windowData

\* The entry point of an isolate is invoked at most once, however often Run is
\* called after it failed: the isolate stays ready and is refused.
MainAtMostOnce == \A g \in Controllers : isolate[g].mains <= 1

\* The root shutdown callback fires once for each isolate the create callback
\* announced, when it goes, and for no other.
CallbacksPaired == \A g \in Controllers :
    isolate[g].ended = IF isolate[g].phase = "Collected" THEN isolate[g].created ELSE 0

\* A child isolate runs the pieces the root isolate has loaded, all of them and
\* in their order, unless the load of a piece failed, which stays in the buffers
\* that a later, successful call hands to the preparer.
ChildrenRunTheRootsCode == \A c \in Children :
    LET root == isolate[child[c].group] IN
    child[c].state = "running" /\ child[c].code # Snapshot => root.loadFailed \/ child[c].code = root.loaded

\* The preparer for kernels is not assigned while it is executed, which "leads to
\* crashes" (dart_isolate.cc).  The one for precompiled code is: only isolates that
\* run the snapshot find it assigned so.
KernelPreparerNotRewritten ==
    rewritten => \E c \in Children : child[c].state = "running" /\ child[c].code = Snapshot

\* The root isolate over runs and restarts: told the window's state, run once, and
\* announced and taken leave of in pairs.
IsolateSafe == WindowUpToDate /\ MainAtMostOnce /\ CallbacksPaired

\* Isolates spawned by the root isolate run its code, prepared by a preparer that
\* does not change under them.
ChildrenSafe == IsolateTypeOK /\ ChildrenRunTheRootsCode /\ KernelPreparerNotRewritten
=============================================================================
