-------------------------- MODULE FrameScheduling --------------------------
(***************************************************************************)
(* The UI thread's use of vsync: the Animator and the                      *)
(* SmoothPointerDataDispatcher share one VsyncWaiter, through which both   *)
(* of its callbacks pass.                                                  *)
(***************************************************************************)
EXTENDS Animator, PointerDataDispatcher

vars == <<waiterVars, animatorVars, pointerVars>>

Init == WaiterInit /\ AnimatorInit /\ PointerInit

Next ==
    \/ WaiterStep /\ UNCHANGED <<animatorVars, pointerVars>>
    \/ AnimatorStep /\ UNCHANGED pointerVars
    \/ PointerStep /\ UNCHANGED animatorVars

\* The UI thread runs what was posted to it, the display has vsyncs, and the
\* GPU thread consumes frames.
Fairness ==
    /\ WF_vars(WaiterStep /\ UNCHANGED <<animatorVars, pointerVars>>)
    /\ WF_vars(FrameStep /\ UNCHANGED pointerVars)
    /\ WF_vars((HoldPacket \/ SecondaryCallback) /\ UNCHANGED animatorVars)
    /\ WF_vars(Consume /\ UNCHANGED pointerVars)

Spec == Init /\ [][Next]_vars
FairSpec == Spec /\ Fairness

-----------------------------------------------------------------------------
(* Properties.                                                              *)

TypeOK == WaiterTypeOK /\ AnimatorTypeOK /\ PointerTypeOK

B(p) == IF p THEN 1 ELSE 0
FramePosted == \E i \in DOMAIN posted : posted[i] = "frame"
AtMostOnePosted ==
    \A i, j \in DOMAIN posted : posted[i] = "frame" /\ posted[j] = "frame" => i = j

\* "Multiple calls to Animator::RequestFrame will still result in a single
\* request to the VsyncWaiter": pending_frame_semaphore_ is taken exactly while
\* one request is under way, as a posted AwaitVSync, a registered callback or a
\* posted one, whatever the vsync thread and the UI thread do in between.
FrameRequestAccount ==
    /\ semaphore + awaits + B(callback) + B("frame" \in firing) + B(FramePosted) = 1
    /\ AtMostOnePosted

\* AwaitVSync is outstanding exactly once while a callback is registered, of
\* either kind, and never otherwise: no callback waits for a vsync nobody asked
\* for, and FireCallback never meets the MismatchedFrameCallback case.
VsyncArmed == armed + B(arming) = B(callback \/ secondary)

\* A frame that was asked for with a new layer tree is under way unless the
\* animator is paused: RequestFrame, Start and a full pipeline lose none.
RegenerateRequested == regenerate /\ ~paused => semaphore = 0

\* Engine::StartAnimatorIfPossible: the animator runs whenever there is a
\* surface and the activity runs, in whatever order the two came back.
RunsWhenPossible == haveSurface /\ activityRunning => ~paused

\* "and no frame is currently scheduled, then assume that we are idle": when the
\* idle task notifies the engine, no request for a frame is under way.
IdleMeansNoRequest == idleTask /\ ~frameScheduled /\ ui = "idle" => semaphore = 1

\* SmoothPointerDataDispatcher delivers every packet once, in the order of
\* arrival, and holds back at most the last.
PacketsInOrder ==
    /\ \A i \in DOMAIN delivered : delivered[i] = i
    /\ Len(delivered) + B(pending # 0 \/ ui = "dispatch") = received
    /\ pending # 0 => pending = Len(delivered) + 1 /\ ui # "dispatch"

\* is_pointer_data_in_progress_ is never left without a secondary callback
\* that will clear it: registered, taken by the vsync thread or posted.
PacketsScheduled ==
    inProgress => \/ secondary \/ "secondary" \in firing
                  \/ \E i \in DOMAIN posted : posted[i] = "secondary"

\* "Try again at the next frame interval": a frame asked for with a new layer
\* tree is begun, also when the pipeline was full, unless the animator pauses.
FramesBegin == regenerate /\ ~paused ~> ui = "frame" \/ paused

\* A held back packet is delivered.
PacketsDelivered == \A p \in 1..MaxPackets : pending = p ~> pending # p

\* The Animator and the VsyncWaiter lose and double no request for a frame, while
\* surfaces, lifecycle messages and the idle task come in between.
RequestsSafe ==
    /\ FrameRequestAccount /\ VsyncArmed /\ RegenerateRequested
    /\ RunsWhenPossible /\ IdleMeansNoRequest

\* No packet overtakes another, gets lost or is held back with no callback to
\* release it, though packets and frames share the VsyncWaiter.
PacketsSafe == PacketsInOrder /\ PacketsScheduled
=============================================================================
