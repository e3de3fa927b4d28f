---------------------------- MODULE ShellFrames ----------------------------
(***************************************************************************)
(* What the Shell tells others about frames (shell/common/shell.cc): a     *)
(* thread in WaitForFirstFrame waits for the first Draw on a surface, and  *)
(* the timings of frames are collected on the GPU thread and reported to   *)
(* the UI thread in batches.  The GPU thread loads and stores              *)
(* waiting_for_first_frame_ and notifies the condition variable without    *)
(* the mutex the waiting thread holds, so each is a step of its own.       *)
(***************************************************************************)
EXTENDS Integers, Sequences, SequencesExt

CONSTANTS BatchSize,       \* the 100 frames at which timings are reported
          MaxTimedFrames,  \* bound on the frames drawn
          MaxViews         \* bound on the surfaces created

ASSUME BatchSizeAssumption == BatchSize \in Nat \ {0}

VARIABLES waitingForFirst,  \* waiting_for_first_frame_
          gpuStep,          \* the GPU thread: between tasks, or after Draw
          waiter,           \* the thread in WaitForFirstFrame
          notifyMissed,     \* a notification came after its check and before its sleep
          status,           \* what its last call returned
          drawn,            \* a Draw was run since the surface was created
          views,            \* the surfaces created
          frame,            \* the frames drawn
          needsTimings,     \* needs_report_timings_
          recorded,         \* the frames whose timings were recorded
          unreported,       \* unreported_timings_
          reportedFirst,    \* first_frame_rasterized_
          reportScheduled,  \* frame_timings_report_scheduled_
          batches,          \* the reports posted to the UI thread
          reported          \* the frames the engine was told of

reportVars == <<waitingForFirst, gpuStep, waiter, notifyMissed, status, drawn, views, frame, needsTimings,
                recorded, unreported, reportedFirst, reportScheduled, batches, reported>>

waitVars == <<waitingForFirst, gpuStep, waiter, notifyMissed, status, drawn, views>>
timingVars == <<needsTimings, recorded, unreported, reportedFirst, reportScheduled, batches,
                reported>>

ReportTypeOK ==
    /\ waitingForFirst \in BOOLEAN /\ gpuStep \in {"idle", "load", "store", "notify"}
    /\ waiter \in {"out", "check", "drowsy", "asleep"}
    /\ status \in {"none", "ok", "deadline"} /\ notifyMissed \in BOOLEAN /\ drawn \in BOOLEAN
    /\ views \in 0..MaxViews /\ frame \in 0..MaxTimedFrames
    /\ needsTimings \in BOOLEAN /\ recorded \in Seq(Nat) /\ unreported \in Seq(Nat)
    /\ reportedFirst \in BOOLEAN /\ reportScheduled \in BOOLEAN
    /\ batches \in Seq(Seq(Nat)) /\ reported \in Seq(Nat)

ReportInit ==
    /\ waitingForFirst = TRUE /\ gpuStep = "idle" /\ waiter = "out" /\ notifyMissed = FALSE /\ status = "none"
    /\ drawn = FALSE /\ views = 0 /\ frame = 0
    /\ needsTimings = FALSE /\ recorded = <<>> /\ unreported = <<>>
    /\ reportedFirst = FALSE /\ reportScheduled = FALSE /\ batches = <<>> /\ reported = <<>>

\* OnPlatformViewCreated, its task on the GPU thread.
SurfaceCreated ==
    /\ gpuStep = "idle" /\ views < MaxViews
    /\ views' = views + 1 /\ drawn' = FALSE
    /\ waitingForFirst' = TRUE
    /\ UNCHANGED <<gpuStep, waiter, notifyMissed, status, frame, timingVars>>

\* ReportTimings: what was collected goes to the UI thread.
ReportTimings(timings) ==
    /\ batches' = Append(batches, timings)
    /\ unreported' = <<>>

\* OnFrameRasterized with needs_report_timings_ set: the first frame, and the
\* last of a full batch, are reported at once, the others by a delayed task.
OnFrameRasterized ==
    LET timings == Append(unreported, frame') IN
    /\ recorded' = Append(recorded, frame')
    /\ IF ~reportedFirst \/ Len(timings) >= BatchSize
       THEN /\ ReportTimings(timings)
            /\ reportedFirst' = TRUE /\ UNCHANGED reportScheduled
       ELSE /\ unreported' = timings /\ reportScheduled' = TRUE
            /\ UNCHANGED <<reportedFirst, batches>>

\* The task of OnAnimatorDraw on the GPU thread: Draw presents a frame, or it
\* does not; then the flag is loaded ...
Draw ==
    /\ gpuStep = "idle" /\ frame < MaxTimedFrames
    /\ gpuStep' = "load" /\ drawn' = TRUE /\ frame' = frame + 1
    /\ \/ UNCHANGED <<recorded, unreported, reportedFirst, reportScheduled, batches>>
       \/ needsTimings /\ OnFrameRasterized
    /\ UNCHANGED <<waitingForFirst, waiter, notifyMissed, status, views, needsTimings, reported>>

\* notify_all, which the thread misses that has found the flag set and is not yet
\* asleep.
NotifyFirstFrame ==
    /\ waiter' = IF waiter = "asleep" THEN "check" ELSE waiter
    /\ notifyMissed' = (notifyMissed \/ waiter = "drowsy")


\* ... cleared, and the waiting threads notified.
AfterDraw ==
    /\ \/ /\ gpuStep = "load"
          /\ gpuStep' = IF waitingForFirst THEN "store" ELSE "idle"
          /\ UNCHANGED <<waitingForFirst, waiter, notifyMissed>>
       \/ /\ gpuStep = "store"
          /\ gpuStep' = "notify" /\ waitingForFirst' = FALSE
          /\ UNCHANGED <<waiter, notifyMissed>>
       \/ /\ gpuStep = "notify"
          /\ gpuStep' = "idle" /\ NotifyFirstFrame
          /\ UNCHANGED waitingForFirst
    /\ UNCHANGED <<status, drawn, views, frame, timingVars>>

\* WaitForFirstFrame: the predicate is evaluated, and if the flag is set the
\* thread goes to sleep, or has gone, when the notification comes.
BeginWaitForFirstFrame ==
    /\ waiter = "out" /\ waiter' = "check" /\ status' = "none" /\ notifyMissed' = FALSE
    /\ UNCHANGED <<waitingForFirst, gpuStep, drawn, views, frame, timingVars>>

CheckFirstFrame ==
    /\ waiter = "check"
    /\ IF waitingForFirst THEN waiter' = "drowsy" /\ UNCHANGED status
       ELSE waiter' = "out" /\ status' = "ok"
    /\ UNCHANGED <<waitingForFirst, gpuStep, notifyMissed, drawn, views, frame, timingVars>>

FallAsleep ==
    /\ waiter = "drowsy" /\ waiter' = "asleep"
    /\ UNCHANGED <<waitingForFirst, gpuStep, notifyMissed, status, drawn, views, frame, timingVars>>

\* The time is up: the predicate decides once more.
WaitTimesOut ==
    /\ waiter = "asleep" /\ waiter' = "out"
    /\ status' = IF waitingForFirst THEN "deadline" ELSE "ok"
    /\ UNCHANGED <<waitingForFirst, gpuStep, notifyMissed, drawn, views, frame, timingVars>>

\* The delayed task on the GPU thread.
ReportScheduledTimings ==
    /\ gpuStep = "idle" /\ reportScheduled
    /\ reportScheduled' = FALSE
    /\ IF unreported # <<>> THEN ReportTimings(unreported)
       ELSE UNCHANGED <<unreported, batches>>
    /\ UNCHANGED <<waitVars, frame, needsTimings, recorded, reportedFirst, reported>>

\* The UI thread: Dart asks for timings or no longer does, and gets a batch.
SetNeedsReportTimings(value) ==
    /\ needsTimings # value /\ needsTimings' = value
    /\ UNCHANGED <<waitVars, frame, recorded, unreported, reportedFirst, reportScheduled,
                   batches, reported>>

DeliverTimings ==
    /\ batches # <<>>
    /\ reported' = reported \o Head(batches) /\ batches' = Tail(batches)
    /\ UNCHANGED <<waitVars, frame, needsTimings, recorded, unreported, reportedFirst,
                   reportScheduled>>

WaiterStep == CheckFirstFrame \/ FallAsleep \/ WaitTimesOut

ReportNext ==
    \/ SurfaceCreated \/ Draw \/ AfterDraw
    \/ BeginWaitForFirstFrame \/ WaiterStep
    \/ ReportScheduledTimings \/ DeliverTimings
    \/ \E value \in BOOLEAN : SetNeedsReportTimings(value)

\* The GPU and UI threads run the tasks posted to them.
ReportFairness ==
    /\ WF_reportVars(AfterDraw) /\ WF_reportVars(DeliverTimings)
    /\ WF_reportVars(ReportScheduledTimings)

ReportSpec == ReportInit /\ [][ReportNext]_reportVars /\ ReportFairness

-----------------------------------------------------------------------------
\* A call of WaitForFirstFrame returns kOk only if a Draw was run on the surface
\* there is: none for an earlier surface is taken for it.
OkOnlyAfterDraw == [][status # "ok" /\ status' = "ok" => drawn]_reportVars

\* A thread in WaitForFirstFrame does not sleep once the flag is cleared, unless it
\* is about to be notified, or was between its check and its sleep when the GPU
\* thread, which does not take the mutex, notified: then it sleeps till its time
\* is up or the first frame of another surface.
FirstFrameWakes ==
    waiter = "asleep" /\ ~waitingForFirst => gpuStep = "notify" \/ notifyMissed

\* Timings that are not reported yet have a report scheduled: the comment in
\* OnFrameRasterized, the last few frames of an animation are reported too.
NoTimingLeftBehind == unreported # <<>> => reportScheduled

\* Every frame's timings are in one report, in the order of the frames, and no
\* report is larger than a batch.
TimingsInOrder ==
    /\ reported \o FlattenSeq(batches) \o unreported = recorded
    /\ \A i \in DOMAIN batches : Len(batches[i]) \in 1..BatchSize

\* The engine is told of every frame whose timings were recorded.
TimingsReported == (unreported # <<>>) ~> (unreported = <<>> /\ batches = <<>>)

=============================================================================
