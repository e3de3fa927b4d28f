------------------------- MODULE ShellFramesProofs -------------------------
(***************************************************************************)
(* What holds of WaitForFirstFrame and of the unreported timings for any   *)
(* number of surfaces and frames and any size of a batch.                  *)
(***************************************************************************)
EXTENDS ShellFrames, TLAPS

\* The flag is cleared by a Draw on the surface there is; after it is cleared a
\* thread that has found it set is notified, or has missed the notification.
FirstFrameInv ==
    /\ gpuStep \in {"idle", "load", "store", "notify"}
    /\ waiter \in {"out", "check", "drowsy", "asleep"}
    /\ ~waitingForFirst => drawn
    /\ gpuStep # "idle" => drawn
    /\ waiter \in {"drowsy", "asleep"} /\ ~waitingForFirst => gpuStep = "notify" \/ notifyMissed

LEMMA WaitInitHolds == ReportInit => FirstFrameInv
BY DEF ReportInit, FirstFrameInv

LEMMA WaitNextHolds == FirstFrameInv /\ [ReportNext]_reportVars => FirstFrameInv'
<1> SUFFICES ASSUME FirstFrameInv, [ReportNext]_reportVars PROVE FirstFrameInv'
    OBVIOUS
<1> USE DEF FirstFrameInv
<1>1. CASE UNCHANGED waitVars
    BY <1>1 DEF waitVars
<1>2. CASE SurfaceCreated
    BY <1>2 DEF SurfaceCreated
<1>3. CASE Draw
    BY <1>3 DEF Draw
<1>4. CASE AfterDraw
  <2>1. CASE gpuStep = "load"
    BY <1>4, <2>1 DEF AfterDraw
  <2>2. CASE gpuStep = "store"
    BY <1>4, <2>2 DEF AfterDraw
  <2>3. CASE gpuStep = "notify"
    <3>1. gpuStep' = "idle" /\ UNCHANGED <<waitingForFirst, drawn>>
      BY <1>4, <2>3 DEF AfterDraw
    <3>2. CASE waiter = "drowsy"
      <4>1. waiter' = waiter
        BY <1>4, <2>3, <3>2 DEF AfterDraw, NotifyFirstFrame
      <4>2. notifyMissed'
        BY <1>4, <2>3, <3>2, Zenon DEF AfterDraw, NotifyFirstFrame
      <4>. QED
        BY <3>1, <3>2, <4>1, <4>2
    <3>3. CASE waiter = "asleep"
      BY <1>4, <2>3, <3>1, <3>3 DEF AfterDraw, NotifyFirstFrame
    <3>4. CASE waiter \in {"out", "check"}
      BY <1>4, <2>3, <3>1, <3>4 DEF AfterDraw, NotifyFirstFrame
    <3>. QED
      BY <3>2, <3>3, <3>4
  <2>. QED
    BY <1>4, <2>1, <2>2, <2>3 DEF AfterDraw
<1>5. CASE BeginWaitForFirstFrame
    BY <1>5 DEF BeginWaitForFirstFrame
<1>6. CASE CheckFirstFrame
    BY <1>6 DEF CheckFirstFrame
<1>7. CASE FallAsleep
    BY <1>7 DEF FallAsleep
<1>8. CASE WaitTimesOut
    BY <1>8 DEF WaitTimesOut
<1>9. ReportScheduledTimings \/ DeliverTimings \/ (\E value \in BOOLEAN : SetNeedsReportTimings(value))
        => UNCHANGED waitVars
    BY DEF ReportScheduledTimings, DeliverTimings, SetNeedsReportTimings
<1>10. UNCHANGED reportVars => UNCHANGED waitVars
    BY DEF reportVars, waitVars
<1>. QED
    BY <1>1, <1>2, <1>3, <1>4, <1>5, <1>6, <1>7, <1>8, <1>9, <1>10 DEF ReportNext, WaiterStep

LEMMA WaitInvariant == ReportSpec => []FirstFrameInv
BY WaitInitHolds, WaitNextHolds, PTL DEF ReportSpec

\* Shell::WaitForFirstFrame sleeps on only if its notification fell between its
\* check and its sleep.
THEOREM WaitersAreWoken == ReportSpec => []FirstFrameWakes
<1>1. FirstFrameInv => FirstFrameWakes
    BY DEF FirstFrameInv, FirstFrameWakes
<1>. QED
    BY <1>1, WaitInvariant, PTL

\* Shell::WaitForFirstFrame does not take the frame of an earlier surface for the
\* first one of this surface.
THEOREM NoOkWithoutDraw == ReportSpec => OkOnlyAfterDraw
<1>1. FirstFrameInv /\ [ReportNext]_reportVars => [status # "ok" /\ status' = "ok" => drawn]_reportVars
  <2> SUFFICES ASSUME FirstFrameInv, ReportNext, status # "ok", status' = "ok" PROVE drawn
    OBVIOUS
  <2>1. CASE CheckFirstFrame
    BY <2>1 DEF CheckFirstFrame, FirstFrameInv
  <2>2. CASE WaitTimesOut
    BY <2>2 DEF WaitTimesOut, FirstFrameInv
  <2>3. CASE UNCHANGED status
    BY <2>3
  <2>4. BeginWaitForFirstFrame => status' = "none"
    BY DEF BeginWaitForFirstFrame
  <2>5. SurfaceCreated \/ Draw \/ AfterDraw \/ FallAsleep \/ ReportScheduledTimings
           \/ DeliverTimings \/ (\E value \in BOOLEAN : SetNeedsReportTimings(value))
        => UNCHANGED status
    BY DEF SurfaceCreated, Draw, AfterDraw, FallAsleep, ReportScheduledTimings, DeliverTimings,
           SetNeedsReportTimings, waitVars
  <2>. QED
    BY <2>1, <2>2, <2>3, <2>4, <2>5 DEF ReportNext, WaiterStep
<1>. QED
    BY <1>1, WaitInvariant, PTL DEF ReportSpec, OkOnlyAfterDraw

-----------------------------------------------------------------------------
\* Shell::OnFrameRasterized and the delayed task leave no timing unreported that
\* has no report on its way, for every size of a batch.
THEOREM TimingsHaveReport == ReportSpec => []NoTimingLeftBehind
<1>1. ReportInit => NoTimingLeftBehind
    BY DEF ReportInit, NoTimingLeftBehind
<1>2. NoTimingLeftBehind /\ [ReportNext]_reportVars => NoTimingLeftBehind'
  <2> SUFFICES ASSUME NoTimingLeftBehind, [ReportNext]_reportVars PROVE NoTimingLeftBehind'
    OBVIOUS
  <2> USE DEF NoTimingLeftBehind
  <2>1. CASE UNCHANGED <<unreported, reportScheduled>>
    BY <2>1
  <2>2. CASE Draw
    <3>1. CASE needsTimings /\ OnFrameRasterized
      BY <3>1 DEF OnFrameRasterized, ReportTimings
    <3>. QED
      BY <2>1, <2>2, <3>1 DEF Draw
  <2>3. CASE ReportScheduledTimings
    BY <2>3 DEF ReportScheduledTimings, ReportTimings
  <2>4. SurfaceCreated \/ AfterDraw \/ BeginWaitForFirstFrame \/ WaiterStep \/ DeliverTimings
          \/ (\E value \in BOOLEAN : SetNeedsReportTimings(value)) \/ UNCHANGED reportVars
        => UNCHANGED <<unreported, reportScheduled>>
    BY DEF SurfaceCreated, AfterDraw, BeginWaitForFirstFrame, WaiterStep, CheckFirstFrame, FallAsleep,
           WaitTimesOut, DeliverTimings, SetNeedsReportTimings, reportVars, timingVars
  <2>. QED
    BY <2>1, <2>2, <2>3, <2>4 DEF ReportNext
<1>. QED
    BY <1>1, <1>2, PTL DEF ReportSpec
=============================================================================
