----------------------------- MODULE Rasterizer -----------------------------
(***************************************************************************)
(* shell/common/rasterizer.cc on the two threads that can run it: Draw     *)
(* consumes the layer trees of the Pipeline that the Animator fills from   *)
(* the UI thread, on the GPU thread or, while the GpuThreadMerger has the  *)
(* task queues merged, on the platform thread.  A frame that mutates       *)
(* platform views merges the threads and is resubmitted to the front of    *)
(* the pipeline for the platform thread to draw.                           *)
(*                                                                         *)
(* The task queues are those of TaskQueues, cut down to the GPU queue: the *)
(* loop that serves it takes all its tasks at once and then runs them.     *)
(***************************************************************************)
EXTENDS GpuThreadMerger, Sequences, FiniteSets

CONSTANTS Depth, MaxFrames, MaxFronts,  \* of the Pipeline
          MaxRedraws,                   \* bound on DrawLastLayerTree requests
          MaxSurfaces                   \* bound on surfaces destroyed and created

ASSUME RasterBoundsAssumption == MaxRedraws \in Nat /\ MaxSurfaces \in Nat

VARIABLES empty, available, inflight, queue, producer, consumer, held, status,
          frames, popped, fronts, dropped

VARIABLES gpuTasks,  \* the tasks of the GPU queue
          taken,     \* the tasks each loop took from it and has not finished
          draw,      \* where each thread is in Draw or DrawLastLayerTree
          more,      \* items_count > 0, for the consumption of each thread
          result,    \* the raster status DoDraw returns on each thread
          uiPost,    \* the UI thread has still to post Draw for a frame
          surface,   \* surface_ is set
          last,      \* last_layer_tree_ is set
          waiting,   \* the platform thread waits for a surface task
          redraws,   \* history: DrawLastLayerTree tasks posted
          surfaces   \* history: surface tasks posted

P == INSTANCE Pipeline WITH Consumers <- Threads

pipelineVars == <<empty, available, inflight, queue, producer, consumer, held,
                  status, frames, popped, fronts, dropped>>
drawVars == <<draw, more, result>>
surfaceVars == <<surface, last, waiting, surfaces>>
rasterVars == <<pipelineVars, mergerVars, gpuTasks, taken, drawVars, uiPost,
          surfaceVars, redraws>>

DrawTasks == {"Draw", "DrawLastLayerTree", "Setup", "Teardown"}
DrawState == {"idle", "entered", "consume", "merge", "lease", "leased", "finish", "redraw"}

RasterInit ==
    /\ P!Init /\ MergerInit
    /\ gpuTasks = <<>> /\ taken = [t \in Threads |-> <<>>]
    /\ draw = [t \in Threads |-> "idle"]
    /\ more = [t \in Threads |-> FALSE] /\ result = [t \in Threads |-> "kFailed"]
    /\ uiPost = FALSE /\ surface = TRUE /\ last = FALSE /\ waiting = FALSE
    /\ redraws = 0 /\ surfaces = 0

-----------------------------------------------------------------------------
(* The UI thread.                                                           *)

\* Animator::BeginFrame takes a continuation, Animator::Render completes it.
UIProduce ==
    /\ ~uiPost
    /\ P!ProduceTryWait \/ P!ProduceCount \/ P!Complete
    /\ UNCHANGED <<mergerVars, gpuTasks, taken, drawVars, uiPost, surfaceVars, redraws>>

\* Render goes on to Shell::OnAnimatorDraw ...
UICommit ==
    /\ ~uiPost
    /\ P!CommitSignal
    /\ uiPost' = TRUE
    /\ UNCHANGED <<mergerVars, gpuTasks, taken, drawVars, surfaceVars, redraws>>

\* ... which posts Draw on the GPU task runner.
OnAnimatorDraw ==
    /\ uiPost
    /\ uiPost' = FALSE
    /\ gpuTasks' = Append(gpuTasks, "Draw")
    /\ UNCHANGED <<pipelineVars, mergerVars, taken, drawVars, surfaceVars, redraws>>

\* Shell::OnAnimatorDrawLastLayerTree.
OnAnimatorDrawLastLayerTree ==
    /\ ~uiPost /\ producer \in {"idle", "holding"} /\ redraws < MaxRedraws
    /\ redraws' = redraws + 1
    /\ gpuTasks' = Append(gpuTasks, "DrawLastLayerTree")
    /\ UNCHANGED <<pipelineVars, mergerVars, taken, drawVars, uiPost, surfaceVars>>

-----------------------------------------------------------------------------
(* The platform thread destroys or creates the surface, and waits until the *)
(* task it had posted to the GPU task runner is done.                       *)

NotifySurface ==
    /\ draw[platform] = "idle" /\ ~waiting /\ surfaces < MaxSurfaces
    /\ waiting' = TRUE /\ surfaces' = surfaces + 1
    /\ gpuTasks' = Append(gpuTasks, IF surface THEN "Teardown" ELSE "Setup")
    /\ UNCHANGED <<pipelineVars, mergerVars, taken, drawVars, uiPost, surface, last, redraws>>

-----------------------------------------------------------------------------
(* The loops.  A thread runs the tasks of its batch one after the other.    *)

Free(t) == draw[t] = "idle" /\ ~(t = platform /\ waiting)
Running(t, task) == Free(t) /\ taken[t] # <<>> /\ Head(taken[t]) = task
Finish(t) == taken' = [taken EXCEPT ![t] = Tail(@)]

\* The loop that serves the GPU queue takes its tasks.
TakeTasks(t) ==
    /\ t = IF merged THEN platform ELSE gpu
    /\ Free(t) /\ taken[t] = <<>> /\ gpuTasks # <<>>
    /\ taken' = [taken EXCEPT ![t] = gpuTasks]
    /\ gpuTasks' = <<>>
    /\ UNCHANGED <<pipelineVars, mergerVars, drawVars, uiPost, surfaceVars, redraws>>

\* Rasterizer::Setup, which builds a new merger, and Rasterizer::Teardown.
SetupOrTeardown(t) ==
    /\ Running(t, "Setup") \/ Running(t, "Teardown")
    /\ surface' = (Head(taken[t]) = "Setup")
    /\ isMerged' = IF surface' THEN merged ELSE isMerged
    /\ lease' = IF surface' THEN kLeaseNotSet ELSE lease
    /\ last' = IF surface' THEN last ELSE FALSE
    /\ waiting' = FALSE
    /\ Finish(t)
    /\ UNCHANGED <<pipelineVars, merged, step, gpuTasks, drawVars, uiPost, surfaces, redraws>>

-----------------------------------------------------------------------------
(* Rasterizer::Draw, on thread t.                                           *)

\* Draw yields on the thread that does not rasterize.
DrawYield(t) ==
    /\ Running(t, "Draw") /\ ~IsOnRasterizingThread(t)
    /\ Finish(t)
    /\ UNCHANGED <<pipelineVars, mergerVars, gpuTasks, drawVars, uiPost, surfaceVars, redraws>>

\* Draw goes on on the thread that does ...
DrawEnter(t) ==
    /\ Running(t, "Draw") /\ IsOnRasterizingThread(t)
    /\ draw' = [draw EXCEPT ![t] = "entered"]
    /\ UNCHANGED <<pipelineVars, mergerVars, gpuTasks, taken, more, result, uiPost, surfaceVars, redraws>>

\* ... where Consume finds nothing available, and Draw ends ...
DrawNoneAvailable(t) ==
    /\ draw[t] = "entered" /\ available = 0
    /\ Finish(t)
    /\ draw' = [draw EXCEPT ![t] = "idle"]
    /\ UNCHANGED <<pipelineVars, mergerVars, gpuTasks, more, result, uiPost, surfaceVars, redraws>>

\* ... or takes what is available ...
DrawConsume(t) ==
    /\ draw[t] = "entered"
    /\ P!ConsumeTryWait(t)
    /\ draw' = [draw EXCEPT ![t] = "consume"]
    /\ UNCHANGED <<mergerVars, gpuTasks, taken, more, result, uiPost, surfaceVars, redraws>>

\* ... pops it and hands it to DoDraw.
DrawPop(t) ==
    /\ P!ConsumePop(t)
    /\ more' = [more EXCEPT ![t] = queue' # <<>>]
    /\ UNCHANGED <<mergerVars, gpuTasks, taken, draw, result, uiPost, surfaceVars, redraws>>

\* DoDraw without a surface: kFailed.
DoDrawNoSurface(t) ==
    /\ draw[t] = "consume" /\ consumer[t] = "consuming" /\ ~surface
    /\ draw' = [draw EXCEPT ![t] = "finish"]
    /\ UNCHANGED <<pipelineVars, mergerVars, gpuTasks, taken, more, result, uiPost, surfaceVars, redraws>>

\* DrawToSurface draws the frame, which is the last layer tree now, or gets no
\* frame from the surface.  When the frame mutates platform views and the threads
\* are merged PostPrerollAction extends the lease.
DoDraw(t) ==
    /\ draw[t] = "consume" /\ consumer[t] = "consuming" /\ surface
    /\ draw' = [draw EXCEPT ![t] = "lease"]
    /\ \/ /\ result' = [result EXCEPT ![t] = "kSuccess"] /\ last' = TRUE
          /\ UNCHANGED mergerVars \/ (isMerged /\ ExtendLeaseTo)
       \/ UNCHANGED <<result, last, mergerVars>>
    /\ UNCHANGED <<pipelineVars, gpuTasks, taken, more, uiPost, surface, waiting, surfaces, redraws>>

\* The frame mutates platform views and the threads are not merged:
\* PostPrerollAction merges them, and DoDraw will resubmit the frame.
DoDrawMerge(t) ==
    /\ draw[t] = "consume" /\ consumer[t] = "consuming" /\ surface
    /\ fronts < MaxFronts
    /\ MergeQueues(t)
    /\ draw' = [draw EXCEPT ![t] = "merge"]
    /\ result' = [result EXCEPT ![t] = "kResubmit"]
    /\ UNCHANGED <<pipelineVars, gpuTasks, taken, more, uiPost, surfaceVars, redraws>>

\* The rest of MergeWithLease.
DoDrawMerged(t) ==
    /\ draw[t] = "merge"
    /\ StoreMerged(t) \/ StoreLease(t)
    /\ draw' = [draw EXCEPT ![t] = IF step'[t] = "out" THEN "finish" ELSE "merge"]
    /\ UNCHANGED <<pipelineVars, gpuTasks, taken, more, result, uiPost, surfaceVars, redraws>>

\* DecrementLease after a frame was drawn.
DoDrawLease(t) ==
    /\ draw[t] = "lease"
    /\ \/ NoLease /\ UNCHANGED mergerVars /\ draw' = [draw EXCEPT ![t] = "finish"]
       \/ DecrementLease(t) /\ draw' = [draw EXCEPT ![t] = "leased"]
    /\ UNCHANGED <<pipelineVars, gpuTasks, taken, more, result, uiPost, surfaceVars, redraws>>


\* The rest of DecrementLease: after it unmerged, DoDraw asks for another Draw
\* (kEnqueuePipeline).
DoDrawLeased(t) ==
    /\ draw[t] = "leased"
    /\ RemainsMerged(t) \/ UnmergeQueues(t) \/ StoreUnmerged(t)
    /\ draw' = [draw EXCEPT ![t] = IF step'[t] = "out" THEN "finish" ELSE "leased"]
    /\ result' = [result EXCEPT ![t] = IF step[t] = "unmerged" THEN "kEnqueuePipeline" ELSE @]
    /\ UNCHANGED <<pipelineVars, gpuTasks, taken, more, uiPost, surfaceVars, redraws>>

\* The rest of Consume and, for a frame to resubmit, ProduceToFront().Complete.
DrawFinishConsume(t) ==
    /\ draw[t] = "finish"
    /\ \/ P!ConsumeSignal(t, IF result[t] = "kResubmit" THEN "kResubmit" ELSE "kSuccess")
       \/ P!ConsumeReturn(t) \/ P!CommitFront(t) \/ P!CommitFrontSignal(t)
    /\ UNCHANGED <<mergerVars, gpuTasks, taken, drawVars, uiPost, surfaceVars, redraws>>

\* Draw ends, and posts another when more is available.
DrawEnd(t) ==
    /\ draw[t] = "finish" /\ consumer[t] = "idle"
    /\ gpuTasks' = IF more[t] \/ result[t] \in {"kResubmit", "kEnqueuePipeline"}
                   THEN Append(gpuTasks, "Draw") ELSE gpuTasks
    /\ Finish(t)
    /\ draw' = [draw EXCEPT ![t] = "idle"]
    /\ more' = [more EXCEPT ![t] = FALSE]
    /\ result' = [result EXCEPT ![t] = "kFailed"]
    /\ UNCHANGED <<pipelineVars, mergerVars, uiPost, surfaceVars, redraws>>

\* Consume of an empty queue is undefined.
DrawPopEmpty(t) ==
    /\ P!ConsumePopEmpty(t)
    /\ UNCHANGED <<mergerVars, gpuTasks, taken, drawVars, uiPost, surfaceVars, redraws>>

-----------------------------------------------------------------------------
(* Rasterizer::DrawLastLayerTree, on thread t: it does not ask whether it   *)
(* is on the rasterizing thread, and ignores the raster status.             *)

\* It draws, or there is nothing to draw.
DrawLastLayerTree(t) ==
    /\ Running(t, "DrawLastLayerTree")
    /\ UNCHANGED mergerVars \/ (surface /\ last /\ isMerged /\ ExtendLeaseTo)
    /\ Finish(t)
    /\ UNCHANGED <<pipelineVars, gpuTasks, drawVars, uiPost, surfaceVars, redraws>>

\* It mutates platform views, and merges the threads.
DrawLastMerge(t) ==
    /\ Running(t, "DrawLastLayerTree") /\ surface /\ last
    /\ MergeQueues(t)
    /\ draw' = [draw EXCEPT ![t] = "redraw"]
    /\ UNCHANGED <<pipelineVars, gpuTasks, taken, more, result, uiPost, surfaceVars, redraws>>

\* The rest of MergeWithLease.
DrawLastMerged(t) ==
    /\ draw[t] = "redraw"
    /\ StoreMerged(t) \/ StoreLease(t)
    /\ IF step'[t] = "out"
       THEN draw' = [draw EXCEPT ![t] = "idle"] /\ Finish(t)
       ELSE UNCHANGED <<draw, taken>>
    /\ UNCHANGED <<pipelineVars, gpuTasks, more, result, uiPost, surfaceVars, redraws>>

-----------------------------------------------------------------------------
UIStep == UIProduce \/ UICommit \/ OnAnimatorDraw \/ OnAnimatorDrawLastLayerTree

ThreadStep(t) ==
    \/ TakeTasks(t) \/ SetupOrTeardown(t)
    \/ DrawYield(t) \/ DrawEnter(t) \/ DrawNoneAvailable(t) \/ DrawConsume(t) \/ DrawPop(t)
    \/ DrawPopEmpty(t)
    \/ DoDrawNoSurface(t) \/ DoDraw(t) \/ DoDrawMerge(t) \/ DoDrawMerged(t)
    \/ DoDrawLease(t) \/ DoDrawLeased(t) \/ DrawFinishConsume(t) \/ DrawEnd(t)
    \/ DrawLastLayerTree(t) \/ DrawLastMerge(t) \/ DrawLastMerged(t)

RasterNext == UIStep \/ NotifySurface \/ \E t \in Threads : ThreadStep(t)
RasterSpec == RasterInit /\ [][RasterNext]_rasterVars

-----------------------------------------------------------------------------
(* Properties.                                                              *)

RasterTypeOK ==
    /\ P!TypeOK /\ MergerTypeOK
    /\ gpuTasks \in Seq(DrawTasks)
    /\ taken \in [Threads -> Seq(DrawTasks)]
    /\ draw \in [Threads -> DrawState]
    /\ more \in [Threads -> BOOLEAN]
    /\ result \in [Threads -> {"kFailed", "kSuccess", "kResubmit", "kEnqueuePipeline"}]
    /\ uiPost \in BOOLEAN /\ surface \in BOOLEAN /\ last \in BOOLEAN /\ waiting \in BOOLEAN

\* Nothing is running, or posted, that could still draw a frame.
Quiet ==
    /\ gpuTasks = <<>> /\ ~uiPost /\ ~waiting
    /\ \A t \in Threads : draw[t] = "idle" /\ taken[t] = <<>>
    /\ producer \notin {"signal", "finalSignal"}

\* "we yield and let this frame be serviced on the right thread" (Draw): no
\* frame is left in the pipeline when the Draw tasks have run, however the
\* merging and unmerging of the threads interleaves with the Draw tasks that
\* each of them took (the scenario argued in DoDraw's comment).
NoFrameLeftBehind == Quiet /\ P!NeverPopsEmpty => queue = <<>>

\* The same where the threads are merged by frames alone, and not by a redraw of
\* the last layer tree: the resubmission and the Draw that DoDraw enqueues after
\* it unmerged (kEnqueuePipeline) leave no frame behind.
DrawLeavesNoFrame == redraws = 0 => NoFrameLeftBehind

\* FML_CHECK(success) << "Unable to un-merge the GPU and platform threads.":
\* DecrementLease never unmerges task queues that are not merged.
NeverAborts == \A t \in Threads : step[t] # "aborted"

\* "The threads are going to remain merged until 2 invocations of
\* |DecreaseLease|": outside the merger's calls is_merged_ says whether the task
\* queues are merged, and merged queues have a lease that frames will use up.
MergedHasLease ==
    (\A t \in Threads : step[t] = "out") => merged = isMerged /\ (merged => lease > 0)

\* The pipeline has "a single consumer" (pipeline.h) except for the moment of a
\* switch: when both threads are inside Consume, one of them has merged or
\* unmerged the queues in the frame it is finishing.
OneConsumerUnlessSwitching ==
    (\A t \in Threads : consumer[t] # "idle") =>
        \E t \in Threads : result[t] \in {"kResubmit", "kEnqueuePipeline"} \/ step[t] # "out"

=============================================================================
