------------------------------ MODULE Animator ------------------------------
(***************************************************************************)
(* shell/common/animator.cc, with the part of shell/common/engine.cc that  *)
(* drives it, on the UI thread.  A request for a frame takes               *)
(* pending_frame_semaphore_, posts a task that registers a callback for    *)
(* the next vsync, and gives the semaphore back when that callback begins  *)
(* the frame.  Of the Pipeline there are its free slots and its frames.    *)
(***************************************************************************)
EXTENDS VsyncWaiter

CONSTANT Depth  \* depth of the layer tree pipeline

ASSUME PipelineDepthAssumption == Depth \in Nat \ {0}

VARIABLES semaphore,       \* pending_frame_semaphore_
          paused,          \* paused_
          dimension,       \* dimension_change_pending_
          regenerate,      \* regenerate_layer_tree_
          frameScheduled,  \* frame_scheduled_
          idleTask,        \* an idle task with id notify_idle_task_id_ is posted
          awaits,          \* AwaitVSync tasks posted to the UI thread
          continuation,    \* producer_continuation_ is valid
          slots, queued,   \* free slots and frames of layer_tree_pipeline_
          haveSurface,     \* Engine::have_surface_
          activityRunning  \* Engine::activity_running_

requestVars == <<semaphore, regenerate, frameScheduled, awaits>>
pipelineVars == <<continuation, slots, queued>>
engineVars == <<haveSurface, activityRunning>>
animatorVars == <<requestVars, paused, dimension, idleTask, pipelineVars, engineVars>>

AnimatorTypeOK ==
    /\ semaphore \in Nat /\ awaits \in Nat
    /\ paused \in BOOLEAN /\ dimension \in BOOLEAN /\ regenerate \in BOOLEAN
    /\ frameScheduled \in BOOLEAN /\ idleTask \in BOOLEAN /\ continuation \in BOOLEAN
    /\ slots \in 0..Depth /\ queued \in 0..Depth
    /\ haveSurface \in BOOLEAN /\ activityRunning \in BOOLEAN

AnimatorInit ==
    /\ semaphore = 1 /\ paused = FALSE /\ dimension = FALSE /\ regenerate = FALSE
    /\ frameScheduled = FALSE /\ idleTask = FALSE /\ awaits = 0
    /\ continuation = FALSE /\ slots = Depth /\ queued = 0
    /\ haveSurface = FALSE /\ activityRunning = TRUE

-----------------------------------------------------------------------------
(* Animator.                                                                *)

\* RequestFrame(r) with paused_ = p, dimension_change_pending_ = d,
\* pending_frame_semaphore_ = s and frame_scheduled_ = f.
RequestFrameWith(r, p, d, s, f) ==
    /\ regenerate' = (r \/ regenerate)
    /\ IF (p /\ ~d) \/ s = 0
       THEN semaphore' = s /\ frameScheduled' = f /\ UNCHANGED awaits
       ELSE semaphore' = s - 1 /\ awaits' = awaits + 1 /\ frameScheduled' = TRUE

\* RequestFrame, by a UI task, with or without the last layer tree, or by the
\* framework while it builds a frame.
RequestFrame(r) ==
    /\ ui \in {"idle", "frame"} /\ ~arming
    /\ RequestFrameWith(r, paused, dimension, semaphore, frameScheduled)
    /\ UNCHANGED <<waiterVars, paused, dimension, idleTask, pipelineVars, engineVars>>

\* The posted task: Animator::AwaitVSync.
AwaitVSyncTask ==
    /\ UIFree /\ awaits > 0
    /\ awaits' = awaits - 1
    /\ AsyncWaitForVsync
    /\ UNCHANGED <<semaphore, regenerate, frameScheduled, paused, dimension, idleTask,
                   pipelineVars, engineVars>>

\* The vsync callback when the last layer tree can be reused.
DrawLastLayerTree ==
    /\ TakePosted("frame") /\ ~regenerate
    /\ semaphore' = semaphore + 1
    /\ UNCHANGED <<callback, secondary, arming, armed, firing, ui>>
    /\ UNCHANGED <<regenerate, frameScheduled, awaits, paused, dimension, idleTask,
                   pipelineVars, engineVars>>

\* BeginFrame with a continuation, old or new: the framework builds a frame.
BeginFrame ==
    /\ TakePosted("frame") /\ regenerate
    /\ continuation \/ slots > 0
    /\ continuation' = TRUE /\ slots' = (IF continuation THEN slots ELSE slots - 1)
    /\ frameScheduled' = FALSE /\ regenerate' = FALSE /\ semaphore' = semaphore + 1
    /\ idleTask' = FALSE
    /\ ui' = "frame"
    /\ UNCHANGED <<callback, secondary, arming, armed, firing>>
    /\ UNCHANGED <<awaits, paused, dimension, queued, engineVars>>

\* Mutant: the frame is given up when the pipeline is full.
BeginFrameGivesUp ==
    /\ TakePosted("frame") /\ regenerate
    /\ ~continuation /\ slots = 0
    /\ semaphore' = semaphore + 1 /\ frameScheduled' = FALSE
    /\ regenerate' = FALSE /\ idleTask' = FALSE
    /\ UNCHANGED <<callback, secondary, arming, armed, firing, ui>>
    /\ UNCHANGED <<awaits, paused, dimension, pipelineVars, engineVars>>

\* BeginFrame while the pipeline is full: the frame is requested again.
BeginFrameFull ==
    /\ TakePosted("frame") /\ regenerate
    /\ ~continuation /\ slots = 0
    /\ RequestFrameWith(TRUE, paused, dimension, semaphore + 1, FALSE)
    /\ idleTask' = FALSE
    /\ UNCHANGED <<callback, secondary, arming, armed, firing, ui>>
    /\ UNCHANGED <<paused, dimension, pipelineVars, engineVars>>

\* The rest of BeginFrame: with no frame scheduled the idle task is posted.
BeginFrameEnd ==
    /\ ui = "frame"
    /\ ui' = "idle"
    /\ idleTask' = ~frameScheduled
    /\ UNCHANGED <<callback, secondary, arming, armed, firing, posted>>
    /\ UNCHANGED <<requestVars, paused, dimension, pipelineVars, engineVars>>

\* The idle task runs.
IdleTask ==
    /\ UIFree /\ idleTask
    /\ idleTask' = FALSE
    /\ UNCHANGED <<waiterVars, requestVars, paused, dimension, pipelineVars, engineVars>>

\* Render, in a frame or out of one, with a layer tree of another size than the
\* last (resized) or not.
Render(resized) ==
    /\ ui \in {"idle", "frame"} /\ ~arming
    /\ dimension' = (dimension /\ ~resized)
    /\ continuation' = FALSE /\ queued' = (IF continuation THEN queued + 1 ELSE queued)
    /\ UNCHANGED <<waiterVars, requestVars, paused, idleTask, slots, engineVars>>

\* The rasterizer consumes a layer tree.
Consume ==
    /\ queued > 0
    /\ queued' = queued - 1 /\ slots' = slots + 1
    /\ UNCHANGED <<waiterVars, requestVars, paused, dimension, idleTask, continuation, engineVars>>

-----------------------------------------------------------------------------
(* Engine.                                                                  *)

\* OnOutputSurfaceCreated: StartAnimatorIfPossible, then ScheduleFrame.
OnOutputSurfaceCreated ==
    /\ UIFree
    /\ haveSurface' = TRUE
    /\ paused' = (paused /\ ~activityRunning)
    /\ RequestFrameWith(TRUE, paused /\ ~activityRunning, dimension, semaphore, frameScheduled)
    /\ UNCHANGED <<waiterVars, dimension, idleTask, pipelineVars, activityRunning>>

OnOutputSurfaceDestroyed ==
    /\ UIFree
    /\ haveSurface' = FALSE /\ paused' = TRUE
    /\ UNCHANGED <<waiterVars, requestVars, dimension, idleTask, pipelineVars, activityRunning>>

SetViewportMetrics(changed) ==
    /\ UIFree
    /\ dimension' = (dimension \/ changed)
    /\ IF haveSurface
       THEN RequestFrameWith(TRUE, paused, dimension \/ changed, semaphore, frameScheduled)
       ELSE UNCHANGED requestVars
    /\ UNCHANGED <<waiterVars, paused, idleTask, pipelineVars, engineVars>>

\* HandleLifecyclePlatformMessage: paused or detached.
LifecyclePaused ==
    /\ UIFree
    /\ activityRunning' = FALSE /\ paused' = TRUE
    /\ UNCHANGED <<waiterVars, requestVars, dimension, idleTask, pipelineVars, haveSurface>>

\* HandleLifecyclePlatformMessage: resumed, or inactive.
LifecycleRunning(resumed) ==
    /\ UIFree
    /\ activityRunning' = TRUE
    /\ paused' = (paused /\ ~haveSurface)
    /\ IF haveSurface /\ (resumed \/ paused)
       THEN RequestFrameWith(TRUE, FALSE, dimension, semaphore, frameScheduled)
       ELSE UNCHANGED requestVars
    /\ UNCHANGED <<waiterVars, dimension, idleTask, pipelineVars, haveSurface>>

FrameStep ==
    AwaitVSyncTask \/ DrawLastLayerTree \/ BeginFrame \/ BeginFrameFull \/ BeginFrameEnd
EngineStep ==
    \/ OnOutputSurfaceCreated \/ OnOutputSurfaceDestroyed \/ LifecyclePaused
    \/ \E b \in BOOLEAN : SetViewportMetrics(b) \/ LifecycleRunning(b)
AnimatorStep ==
    \/ FrameStep \/ EngineStep \/ IdleTask \/ Consume
    \/ \E b \in BOOLEAN : RequestFrame(b) \/ Render(b)
=============================================================================
