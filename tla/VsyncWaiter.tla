---------------------------- MODULE VsyncWaiter ----------------------------
(***************************************************************************)
(* shell/common/vsync_waiter.cc: the UI thread registers a callback, and a *)
(* secondary callback, for the next vsync; the platform's vsync thread     *)
(* takes both and posts them to the UI thread.  AwaitVSync is called with  *)
(* callback_mutex_ released, and FireCallback posts what it took with the  *)
(* mutex released, so each is a step of its own.                           *)
(***************************************************************************)
EXTENDS Integers, Sequences

VARIABLES callback,   \* callback_ is set
          secondary,  \* secondary_callback_ is set
          arming,     \* the UI thread is about to call AwaitVSync
          armed,      \* calls of AwaitVSync that the platform has still to answer
          firing,     \* the callbacks FireCallback took and has still to post
          posted,     \* the callbacks posted to the UI thread
          ui          \* the UI thread: between two tasks, or inside one

waiterVars == <<callback, secondary, arming, armed, firing, posted, ui>>

Callbacks == {"frame", "secondary"}

WaiterTypeOK ==
    /\ callback \in BOOLEAN /\ secondary \in BOOLEAN /\ arming \in BOOLEAN
    /\ armed \in Nat /\ firing \subseteq Callbacks /\ posted \in Seq(Callbacks)
    /\ ui \in {"idle", "frame", "dispatch"}

WaiterInit ==
    /\ callback = FALSE /\ secondary = FALSE /\ arming = FALSE /\ armed = 0
    /\ firing = {} /\ posted = <<>> /\ ui = "idle"

\* The UI thread takes its next task.
UIFree == ui = "idle" /\ ~arming

\* AsyncWaitForVsync: the frame callback is registered; AwaitVSync is called
\* unless a callback is registered already.
AsyncWaitForVsync ==
    /\ callback' = TRUE
    /\ arming' = (~callback /\ ~secondary)
    /\ UNCHANGED <<secondary, armed, firing, posted, ui>>

\* ScheduleSecondaryCallback, the same for the secondary callback.
ScheduleSecondaryCallback ==
    /\ secondary' = TRUE
    /\ arming' = (~callback /\ ~secondary)
    /\ UNCHANGED <<callback, armed, firing>>

\* AwaitVSync of the platform's waiter: one vsync is asked for.
AwaitVSync ==
    /\ arming
    /\ arming' = FALSE /\ armed' = armed + 1
    /\ UNCHANGED <<callback, secondary, firing, posted, ui>>

\* Mutant: the frame callback is copied and not moved out.
FireCallbackCopies ==
    /\ armed > 0 /\ firing = {}
    /\ armed' = armed - 1
    /\ firing' = {c \in Callbacks : IF c = "frame" THEN callback ELSE secondary}
    /\ secondary' = FALSE
    /\ UNCHANGED <<callback, arming, posted, ui>>

\* FireCallback on the vsync thread: both callbacks are moved out ...
FireCallback ==
    /\ armed > 0 /\ firing = {}
    /\ armed' = armed - 1
    /\ firing' = {c \in Callbacks : IF c = "frame" THEN callback ELSE secondary}
    /\ callback' = FALSE /\ secondary' = FALSE
    /\ UNCHANGED <<arming, posted, ui>>

\* Mutant: the secondary callback is dropped when there is a frame callback.
PostCallbackElse ==
    /\ firing # {}
    /\ firing' = {}
    /\ posted' = Append(posted, IF "frame" \in firing THEN "frame" ELSE "secondary")
    /\ UNCHANGED <<callback, secondary, arming, armed, ui>>

\* ... and posted to the UI thread, the frame callback first.
PostCallback ==
    LET c == IF "frame" \in firing THEN "frame" ELSE "secondary"
    IN  /\ firing # {}
        /\ firing' = firing \ {c}
        /\ posted' = Append(posted, c)
        /\ UNCHANGED <<callback, secondary, arming, armed, ui>>

\* The UI thread takes the posted callback c.
TakePosted(c) ==
    /\ UIFree /\ posted # <<>> /\ Head(posted) = c
    /\ posted' = Tail(posted)

WaiterStep == AwaitVSync \/ FireCallback \/ PostCallback
=============================================================================
