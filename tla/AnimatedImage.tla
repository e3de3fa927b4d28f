--------------------------- MODULE AnimatedImage ---------------------------
(***************************************************************************)
(* An animated image (lib/ui/painting/multi_frame_codec.cc).  Every call   *)
(* of getNextFrame posts a task to the IO thread that decodes the next     *)
(* frame, onto a kept earlier frame if it needs one, and posts the answer  *)
(* to the UI thread.  The tasks use the IO manager without asking whether  *)
(* it is there, which the order of ~Shell (shell/common/shell.cc) answers. *)
(* The Dart code keeps the codec while a call is unanswered.               *)
(***************************************************************************)
EXTENDS Integers, Sequences, FiniteSets

CONSTANTS FrameCount,   \* frameCount_
          MaxCalls,     \* bound on the calls of getNextFrame
          MaxFailures   \* bound on the frames that cannot be decoded

ASSUME FrameCountAssumption == FrameCount \in Nat \ {0}

Frames == 0..(FrameCount - 1)
NoFrame == -1

VARIABLES kept,              \* the frames whose disposal method is kKeep
          required,          \* fRequiredFrame of each frame, as the codec reports it
          next,              \* nextFrameIndex_
          lastKept,          \* lastRequiredFrameIndex_
          failures,
          calls,             \* calls of getNextFrame so far
          ioQueue,           \* the tasks of the IO thread
          uiQueue,           \* answers on their way to the UI thread
          animationAnswers,  \* what the calls were answered with
          shell,             \* up, the engine gone, or the IO manager's end posted
          ioManagerUp,       \* the IO manager exists
          missed             \* a task ran without the IO manager

animationVars == <<kept, required, next, lastKept, failures, calls, ioQueue, uiQueue,
                   animationAnswers, shell, ioManagerUp, missed>>

\* The kept frame a frame is drawn over is the last one before it.
Below(f) == {k \in kept : k < f}
LastBelow(f) == CHOOSE k \in Below(f) : \A o \in Below(f) : o <= k

Answer == [frame : Frames, over : Frames \cup {NoFrame}, shown : BOOLEAN]

AnimationTypeOK ==
    /\ kept \subseteq Frames /\ required \in [Frames -> Frames \cup {NoFrame}]
    /\ next \in Frames /\ lastKept \in Frames \cup {NoFrame}
    /\ failures \in 0..MaxFailures /\ calls \in 0..MaxCalls
    /\ ioQueue \in Seq({"decode", "reset"}) /\ uiQueue \in Seq(Answer) /\ animationAnswers \in Seq(Answer)
    /\ shell \in {"up", "engineGone", "ending"}
    /\ ioManagerUp \in BOOLEAN /\ missed \in BOOLEAN

\* A frame stands alone, as the first one does, or needs the kept frame below.
AnimationInitOf(keep, alone) ==
    /\ kept = keep
    /\ required = [f \in Frames |-> IF f \in alone \/ Below(f) = {} THEN NoFrame ELSE LastBelow(f)]
    /\ next = 0 /\ lastKept = NoFrame /\ failures = 0
    /\ calls = 0 /\ ioQueue = <<>> /\ uiQueue = <<>> /\ animationAnswers = <<>>
    /\ shell = "up" /\ ioManagerUp = TRUE /\ missed = FALSE

AnimationInit == \E keep, alone \in SUBSET Frames : AnimationInitOf(keep, alone)

codecState == <<kept, required, next, lastKept, failures>>

\* MultiFrameCodec::getNextFrame, from Dart code on the UI thread.
RequestNextFrame ==
    /\ shell = "up" /\ calls < MaxCalls
    /\ calls' = calls + 1 /\ ioQueue' = Append(ioQueue, "decode")
    /\ UNCHANGED <<codecState, uiQueue, animationAnswers, shell, ioManagerUp, missed>>

\* GetNextFrameAndInvokeCallback: GetNextFrameImage fails if the required frame
\* is not there or the codec fails, draws over whichever kept frame there is,
\* and keeps the result if it is to be kept; the index advances either way and
\* the answer is posted.
DecodeFrame ==
    /\ ioQueue # <<>> /\ Head(ioQueue) = "decode"
    /\ ioQueue' = Tail(ioQueue) /\ missed' = (missed \/ ~ioManagerUp)
    /\ next' = (next + 1) % FrameCount
    /\ \/ /\ required[next] = NoFrame \/ lastKept # NoFrame
          /\ lastKept' = IF next \in kept THEN next ELSE lastKept
          /\ uiQueue' = Append(uiQueue, [frame |-> next, over |-> IF required[next] = NoFrame
                                          THEN NoFrame ELSE lastKept, shown |-> TRUE])
          /\ UNCHANGED failures
       \/ /\ \/ required[next] # NoFrame /\ lastKept = NoFrame /\ UNCHANGED failures
             \/ failures < MaxFailures /\ failures' = failures + 1
          /\ uiQueue' = Append(uiQueue, [frame |-> next, over |-> NoFrame, shown |-> FALSE])
          /\ UNCHANGED lastKept
    /\ UNCHANGED <<kept, required, calls, animationAnswers, shell, ioManagerUp>>

\* InvokeNextFrameCallback: without the isolate nobody is answered.
InvokeCallback ==
    /\ uiQueue # <<>> /\ uiQueue' = Tail(uiQueue)
    /\ animationAnswers' = IF shell = "up" THEN Append(animationAnswers, Head(uiQueue)) ELSE animationAnswers
    /\ UNCHANGED <<codecState, calls, ioQueue, shell, ioManagerUp, missed>>

\* ~Shell: the engine, with the isolate, goes on the UI thread...
DestroyUIEngine ==
    /\ shell = "up" /\ shell' = "engineGone"
    /\ UNCHANGED <<codecState, calls, ioQueue, uiQueue, animationAnswers, ioManagerUp, missed>>


\* ... and once the latch says so the end of the IO manager is posted.
PostIOManagerEnd ==
    /\ shell = "engineGone" /\ shell' = "ending"
    /\ ioQueue' = Append(ioQueue, "reset")
    /\ UNCHANGED <<codecState, calls, uiQueue, animationAnswers, ioManagerUp, missed>>

ResetIOManager ==
    /\ ioQueue # <<>> /\ Head(ioQueue) = "reset"
    /\ ioQueue' = Tail(ioQueue) /\ ioManagerUp' = FALSE
    /\ UNCHANGED <<codecState, calls, uiQueue, animationAnswers, shell, missed>>

IOThreadStep == DecodeFrame \/ ResetIOManager

AnimationNext ==
    \/ RequestNextFrame \/ IOThreadStep \/ InvokeCallback
    \/ DestroyUIEngine \/ PostIOManagerEnd

AnimationFairness == WF_animationVars(IOThreadStep) /\ WF_animationVars(InvokeCallback)

AnimationSpec == AnimationInit /\ [][AnimationNext]_animationVars /\ AnimationFairness

-----------------------------------------------------------------------------
\* The calls are answered with the frames in turn, round and round, one that
\* could not be decoded being answered with null in its turn.
FramesInTurn == \A k \in 1..Len(animationAnswers) : animationAnswers[k].frame = (k - 1) % FrameCount

\* A frame is drawn over the frame it requires, on every round, unless that
\* one could not be decoded on this round; the next round is right again.
DrawnOverRequired == \A k \in 1..Len(animationAnswers) :
    LET a == animationAnswers[k] IN
    a.shown /\ a.over # required[a.frame] =>
        \E j \in 1..(k - 1) : /\ animationAnswers[j].frame = required[a.frame] /\ ~animationAnswers[j].shown
                              /\ k - j < FrameCount

\* Every task that decodes finds the IO manager, though it does not ask: it was
\* posted before the engine went and so before the manager's end.
DecodeFindsIOManager == ~missed

\* While the engine lives every call is answered.
FramesAnswered ==
    (Len(animationAnswers) < calls) ~> (Len(animationAnswers) = calls \/ shell # "up")

=============================================================================
