----------------------- MODULE FrameSchedulingProofs -----------------------
(***************************************************************************)
(* FrameScheduling for any pipeline depth and any number of packets: one   *)
(* frame request at a time, one AwaitVSync per registered callback, and no *)
(* requested frame lost.                                                   *)
(***************************************************************************)
EXTENDS FrameScheduling, SequenceTheorems, TLAPS

\* The parts of the type invariant that the arguments below need.
WaiterTypes ==
    /\ callback \in BOOLEAN /\ secondary \in BOOLEAN /\ arming \in BOOLEAN
PostedType == posted \in Seq(Callbacks)
DimensionType == dimension \in BOOLEAN
RequestTypes ==
    /\ paused \in BOOLEAN /\ regenerate \in BOOLEAN /\ frameScheduled \in BOOLEAN
    /\ haveSurface \in BOOLEAN /\ activityRunning \in BOOLEAN

-----------------------------------------------------------------------------
(* Posted callbacks.                                                        *)

OneFrame(s) == \A i, j \in DOMAIN s : s[i] = "frame" /\ s[j] = "frame" => i = j
HasFrame(s) == \E i \in DOMAIN s : s[i] = "frame"

\* A frame callback is posted to a queue that has none.
LEMMA AppendFrame ==
    ASSUME NEW s \in Seq(Callbacks), ~HasFrame(s)
    PROVE  HasFrame(Append(s, "frame")) /\ OneFrame(Append(s, "frame"))
<1>1. "frame" \in Callbacks
  BY DEF Callbacks
<1>2. /\ Append(s, "frame") \in Seq(Callbacks)
      /\ Len(Append(s, "frame")) = Len(s) + 1
      /\ \A i \in 1..Len(s) : Append(s, "frame")[i] = s[i]
      /\ Append(s, "frame")[Len(s) + 1] = "frame"
  BY <1>1, AppendProperties
<1>3. /\ DOMAIN Append(s, "frame") = 1..(Len(s) + 1)
      /\ DOMAIN s = 1..Len(s) /\ Len(s) \in Nat
  BY <1>2
<1> QED
  BY <1>2, <1>3 DEF HasFrame, OneFrame

\* A secondary callback changes nothing about frame callbacks.
LEMMA AppendSecondary ==
    ASSUME NEW s \in Seq(Callbacks), OneFrame(s)
    PROVE  /\ HasFrame(Append(s, "secondary")) <=> HasFrame(s)
           /\ OneFrame(Append(s, "secondary"))
<1>1. "secondary" \in Callbacks
  BY DEF Callbacks
<1>2. /\ Append(s, "secondary") \in Seq(Callbacks)
      /\ Len(Append(s, "secondary")) = Len(s) + 1
      /\ \A i \in 1..Len(s) : Append(s, "secondary")[i] = s[i]
      /\ Append(s, "secondary")[Len(s) + 1] = "secondary"
  BY <1>1, AppendProperties
<1>3. /\ DOMAIN Append(s, "secondary") = 1..(Len(s) + 1)
      /\ DOMAIN s = 1..Len(s) /\ Len(s) \in Nat
  BY <1>2
<1> QED
  BY <1>2, <1>3 DEF HasFrame, OneFrame

\* The UI thread takes a callback: of the frame callbacks none is left, of the
\* others all.
LEMMA TakeFirst ==
    ASSUME NEW s \in Seq(Callbacks), s # <<>>, OneFrame(s)
    PROVE  /\ Tail(s) \in Seq(Callbacks) /\ OneFrame(Tail(s))
           /\ Head(s) = "frame" => HasFrame(s) /\ ~HasFrame(Tail(s))
           /\ Head(s) # "frame" => (HasFrame(Tail(s)) <=> HasFrame(s))
<1>1. /\ Tail(s) \in Seq(Callbacks) /\ Len(Tail(s)) = Len(s) - 1
      /\ Len(s) \in Nat \ {0}
      /\ \A i \in 1..Len(Tail(s)) : Tail(s)[i] = s[i + 1]
  BY HeadTailProperties, EmptySeq
<1>2. /\ DOMAIN Tail(s) = 1..(Len(s) - 1) /\ DOMAIN s = 1..Len(s)
      /\ Head(s) = s[1]
  BY <1>1
<1>3. OneFrame(Tail(s))
  BY <1>1, <1>2 DEF OneFrame
<1>4. Head(s) = "frame" => HasFrame(s) /\ ~HasFrame(Tail(s))
  BY <1>1, <1>2 DEF OneFrame, HasFrame
<1>5. Head(s) # "frame" => (HasFrame(Tail(s)) <=> HasFrame(s))
  <2>1. HasFrame(Tail(s)) => HasFrame(s)
    BY <1>1, <1>2 DEF HasFrame
  <2>2. ASSUME Head(s) # "frame", NEW i \in 1..Len(s), s[i] = "frame"
        PROVE  HasFrame(Tail(s))
    <3>1. i # 1 /\ i - 1 \in 1..(Len(s) - 1)
      BY <1>1, <1>2, <2>2
    <3>2. Tail(s)[i - 1] = s[i]
      BY <1>1, <3>1
    <3> QED
      BY <1>2, <2>2, <3>1, <3>2 DEF HasFrame
  <2> QED
    BY <1>2, <2>1, <2>2 DEF HasFrame
<1> QED
  BY <1>1, <1>3, <1>4, <1>5

-----------------------------------------------------------------------------
(* The inductive invariant.                                                 *)

\* FrameRequestAccount, as which of the five places the one request is in.
OneRequest ==
    /\ semaphore \in {0, 1} /\ awaits \in {0, 1}
    /\ semaphore = 1 => awaits = 0 /\ ~callback /\ "frame" \notin firing /\ ~HasFrame(posted)
    /\ awaits = 1 => ~callback /\ "frame" \notin firing /\ ~HasFrame(posted)
    /\ callback => "frame" \notin firing /\ ~HasFrame(posted)
    /\ "frame" \in firing => ~HasFrame(posted)
    /\ semaphore = 0 /\ awaits = 0 /\ ~callback /\ "frame" \notin firing => HasFrame(posted)
    /\ OneFrame(posted)

\* VsyncArmed, by cases.
OneAwait ==
    /\ callback \/ secondary => (arming /\ armed = 0) \/ (~arming /\ armed = 1)
    /\ ~callback /\ ~secondary => ~arming /\ armed = 0

\* frame_scheduled_ is set whenever a request is under way.
ScheduledWhileRequested == ~frameScheduled => semaphore = 1

Inv == /\ WaiterTypes /\ PostedType /\ RequestTypes /\ OneRequest /\ OneAwait
       /\ RegenerateRequested /\ RunsWhenPossible /\ ScheduledWhileRequested

LEMMA InitInv == Init => Inv
<1> SUFFICES ASSUME Init PROVE Inv
  OBVIOUS
<1> USE DEF Init, WaiterInit, AnimatorInit
<1>0. PostedType
  BY DEF PostedType
<1>1. WaiterTypes /\ RequestTypes
  BY DEF WaiterTypes, RequestTypes
<1>2. ~HasFrame(posted) /\ OneFrame(posted)
  BY DEF HasFrame, OneFrame
<1>3. OneRequest
  BY <1>2 DEF OneRequest
<1> QED
  BY <1>0, <1>1, <1>3 DEF Inv, OneAwait, RegenerateRequested, RunsWhenPossible,
                    ScheduledWhileRequested

LEMMA InvImplies ==
    Inv => FrameRequestAccount /\ VsyncArmed /\ RegenerateRequested
           /\ RunsWhenPossible /\ IdleMeansNoRequest
<1> SUFFICES ASSUME Inv
             PROVE  FrameRequestAccount /\ VsyncArmed /\ RegenerateRequested
                    /\ RunsWhenPossible /\ IdleMeansNoRequest
  OBVIOUS
<1>1. FramePosted = HasFrame(posted) /\ AtMostOnePosted = OneFrame(posted)
  BY DEF FramePosted, AtMostOnePosted, HasFrame, OneFrame
<1>2. semaphore + awaits + B(callback) + B("frame" \in firing) + B(FramePosted) = 1
  <2>1. CASE semaphore = 1
    BY <1>1, <2>1 DEF Inv, OneRequest, B
  <2>2. CASE semaphore = 0 /\ awaits = 1
    BY <1>1, <2>2 DEF Inv, OneRequest, B
  <2>3. CASE semaphore = 0 /\ awaits = 0 /\ callback
    BY <1>1, <2>3 DEF Inv, OneRequest, B
  <2>4. CASE semaphore = 0 /\ awaits = 0 /\ ~callback /\ "frame" \in firing
    BY <1>1, <2>4 DEF Inv, OneRequest, B
  <2>5. CASE semaphore = 0 /\ awaits = 0 /\ ~callback /\ "frame" \notin firing
    BY <1>1, <2>5 DEF Inv, OneRequest, B
  <2> QED
    BY <2>1, <2>2, <2>3, <2>4, <2>5 DEF Inv, OneRequest
<1>3. VsyncArmed
  <2>1. CASE callback \/ secondary
    BY <2>1 DEF Inv, OneAwait, VsyncArmed, B
  <2>2. CASE ~callback /\ ~secondary
    BY <2>2 DEF Inv, OneAwait, VsyncArmed, B
  <2> QED
    BY <2>1, <2>2
<1> QED
  BY <1>1, <1>2, <1>3 DEF Inv, OneRequest, FrameRequestAccount, ScheduledWhileRequested,
                          IdleMeansNoRequest

-----------------------------------------------------------------------------
(* The steps of the waiter.                                                 *)

\* What the waiter's steps and the dispatcher's leave alone.
LEMMA RequestUnchanged ==
    ASSUME Inv, UNCHANGED animatorVars
    PROVE  /\ RegenerateRequested' /\ RunsWhenPossible' /\ ScheduledWhileRequested'
           /\ RequestTypes' /\ semaphore' = semaphore /\ awaits' = awaits
  BY DEF Inv, RequestTypes, animatorVars, requestVars, engineVars, RegenerateRequested,
         RunsWhenPossible, ScheduledWhileRequested

LEMMA WaiterInv ==
    ASSUME Inv, WaiterStep, UNCHANGED animatorVars
    PROVE  Inv'
<1>0. WaiterTypes /\ PostedType /\ OneRequest /\ OneAwait
  BY DEF Inv
<1>1. CASE AwaitVSync
  <2>1. OneAwait'
    BY <1>0, <1>1 DEF AwaitVSync, OneAwait, WaiterTypes
  <2>2. WaiterTypes'
    BY <1>0, <1>1 DEF AwaitVSync, WaiterTypes
  <2>4. PostedType'
    BY <1>0, <1>1 DEF AwaitVSync, PostedType
  <2>3. OneRequest'
    BY <1>0, <1>1, RequestUnchanged DEF AwaitVSync, OneRequest
  <2> QED
    BY <2>1, <2>2, <2>3, <2>4, RequestUnchanged DEF Inv
<1>2. CASE FireCallback
  <2>1. "frame" \in firing' <=> callback
    BY <1>2 DEF FireCallback, Callbacks
  <2>2. OneAwait'
    BY <1>0, <1>2 DEF FireCallback, OneAwait, WaiterTypes
  <2>3. WaiterTypes'
    BY <1>0, <1>2 DEF FireCallback, WaiterTypes
  <2>5. PostedType'
    BY <1>0, <1>2 DEF FireCallback, PostedType
  <2>4. OneRequest'
    BY <1>0, <1>2, <2>1, RequestUnchanged DEF FireCallback, OneRequest
  <2> QED
    BY <2>2, <2>3, <2>4, <2>5, RequestUnchanged DEF Inv
<1>3. CASE PostCallback
  <2>1. OneAwait'
    BY <1>0, <1>3 DEF PostCallback, OneAwait
  <2>2. CASE "frame" \in firing
    <3>1. posted' = Append(posted, "frame") /\ "frame" \notin firing'
          /\ UNCHANGED <<callback, secondary, arming, armed>>
      BY <1>3, <2>2 DEF PostCallback
    <3>2. ~HasFrame(posted) /\ posted \in Seq(Callbacks)
      BY <1>0, <2>2 DEF OneRequest, PostedType
    <3>3. HasFrame(posted') /\ OneFrame(posted') /\ posted' \in Seq(Callbacks)
      BY <3>1, <3>2, AppendFrame, AppendProperties DEF Callbacks
    <3>4. WaiterTypes'
      BY <1>0, <3>1 DEF WaiterTypes
    <3>5. OneRequest'
      BY <1>0, <2>2, <3>1, <3>3, RequestUnchanged DEF OneRequest
    <3> QED
      BY <2>1, <3>3, <3>4, <3>5, RequestUnchanged DEF Inv, PostedType
  <2>3. CASE "frame" \notin firing
    <3>1. posted' = Append(posted, "secondary") /\ "frame" \notin firing'
          /\ UNCHANGED <<callback, secondary, arming, armed>>
      BY <1>3, <2>3 DEF PostCallback
    <3>2. OneFrame(posted) /\ posted \in Seq(Callbacks)
      BY <1>0 DEF OneRequest, PostedType
    <3>3. (HasFrame(posted') <=> HasFrame(posted)) /\ OneFrame(posted')
          /\ posted' \in Seq(Callbacks)
      BY <3>1, <3>2, AppendSecondary, AppendProperties DEF Callbacks
    <3>4. WaiterTypes'
      BY <1>0, <3>1 DEF WaiterTypes
    <3>5. OneRequest'
      BY <1>0, <2>3, <3>1, <3>3, RequestUnchanged DEF OneRequest
    <3> QED
      BY <2>1, <3>3, <3>4, <3>5, RequestUnchanged DEF Inv, PostedType
  <2> QED
    BY <2>2, <2>3
<1> QED
  BY <1>1, <1>2, <1>3 DEF WaiterStep

-----------------------------------------------------------------------------
(* The steps of the dispatcher.                                             *)

\* A registered secondary callback, and a posted one that is taken, leave the
\* frame request where it is.
LEMMA PointerInv ==
    ASSUME Inv, PointerStep, UNCHANGED animatorVars
    PROVE  Inv'
<1>0. WaiterTypes /\ PostedType /\ OneRequest /\ OneAwait
  BY DEF Inv
<1>1. /\ UNCHANGED <<callback, armed, firing>>
      /\ \/ UNCHANGED <<secondary, arming>>
         \/ secondary' = TRUE /\ arming' = (~callback /\ ~secondary) /\ ~arming
  BY DEF PointerStep, DispatchPacket, DispatchPacketInProgress, HoldPacket, UIFree,
         SecondaryCallback, DispatchPendingPacket, ScheduleSecondaryCallback, TakePosted
<1>2. OneAwait'
  <2>1. CASE UNCHANGED <<secondary, arming>>
    BY <1>0, <1>1, <2>1 DEF OneAwait
  <2>2. CASE secondary' = TRUE /\ arming' = (~callback /\ ~secondary) /\ ~arming
    <3>1. CASE callback \/ secondary
      <4>1. armed' = 1 /\ ~arming'
        BY <1>0, <1>1, <2>2, <3>1 DEF OneAwait
      <4> QED
        BY <2>2, <4>1 DEF OneAwait
    <3>2. CASE ~callback /\ ~secondary
      <4>1. armed' = 0 /\ arming'
        BY <1>0, <1>1, <2>2, <3>2 DEF OneAwait
      <4> QED
        BY <2>2, <4>1 DEF OneAwait
    <3> QED
      BY <3>1, <3>2
  <2> QED
    BY <1>1, <2>1, <2>2
<1>3. /\ posted' \in Seq(Callbacks) /\ OneFrame(posted')
      /\ HasFrame(posted') <=> HasFrame(posted)
  <2>1. CASE SecondaryCallback
    <3>1. posted # <<>> /\ Head(posted) = "secondary" /\ posted' = Tail(posted)
      BY <2>1 DEF SecondaryCallback, TakePosted
    <3> QED
      BY <1>0, <3>1, TakeFirst DEF PostedType, OneRequest
  <2>2. CASE ~SecondaryCallback
    <3>1. posted' = posted
      BY <2>2 DEF PointerStep, DispatchPacket, DispatchPacketInProgress, HoldPacket
    <3> QED
      BY <1>0, <3>1 DEF PostedType, OneRequest
  <2> QED
    BY <2>1, <2>2
<1>4. WaiterTypes'
  BY <1>0, <1>1 DEF WaiterTypes
<1>5. OneRequest'
  BY <1>0, <1>1, <1>3, RequestUnchanged DEF OneRequest
<1> QED
  BY <1>2, <1>3, <1>4, <1>5, RequestUnchanged DEF Inv, PostedType

-----------------------------------------------------------------------------
(* The steps of the animator and the engine.                                *)

\* RequestFrame takes the semaphore and posts AwaitVSync, or does neither; with
\* the animator running it leaves the semaphore taken, and frame_scheduled_ set
\* whenever the semaphore is taken.
LEMMA RequestEffect ==
    ASSUME NEW r \in BOOLEAN, NEW p \in BOOLEAN, NEW d \in BOOLEAN, NEW s \in {0, 1},
           NEW f \in BOOLEAN, ~f => s = 1, regenerate \in BOOLEAN,
           RequestFrameWith(r, p, d, s, f)
    PROVE  /\ \/ semaphore' = s /\ awaits' = awaits
              \/ s = 1 /\ semaphore' = 0 /\ awaits' = awaits + 1
           /\ ~p => semaphore' = 0
           /\ ~frameScheduled' => semaphore' = 1
           /\ regenerate' \in BOOLEAN /\ frameScheduled' \in BOOLEAN
<1>1. regenerate' \in BOOLEAN
  BY DEF RequestFrameWith
<1>2. CASE (p /\ ~d) \/ s = 0
  BY <1>1, <1>2 DEF RequestFrameWith
<1>3. CASE ~((p /\ ~d) \/ s = 0)
  <2>1. s = 1
    BY <1>3
  <2>2. semaphore' = s - 1 /\ awaits' = awaits + 1 /\ frameScheduled' = TRUE
    BY <1>3 DEF RequestFrameWith
  <2>3. semaphore' = 0
    BY <2>1, <2>2
  <2> QED
    BY <1>1, <2>1, <2>2, <2>3
<1> QED
  BY <1>2, <1>3

\* A step that moves the request from the semaphore to a posted AwaitVSync, or
\* leaves it, keeps the waiter's part of the invariant.
LEMMA RequestMoves ==
    ASSUME Inv, UNCHANGED waiterVars,
           \/ semaphore' = semaphore /\ awaits' = awaits
           \/ semaphore = 1 /\ semaphore' = 0 /\ awaits' = awaits + 1
    PROVE  WaiterTypes' /\ PostedType' /\ OneRequest' /\ OneAwait'
<1>1. WaiterTypes' /\ PostedType' /\ OneAwait'
  BY DEF Inv, waiterVars, WaiterTypes, PostedType, OneAwait
<1>2. CASE semaphore' = semaphore /\ awaits' = awaits
  BY <1>1, <1>2 DEF Inv, waiterVars, OneRequest
<1>3. CASE semaphore = 1 /\ semaphore' = 0 /\ awaits' = awaits + 1
  <2>1. awaits' = 1
    BY <1>3 DEF Inv, OneRequest
  <2> QED
    BY <1>1, <1>3, <2>1 DEF Inv, waiterVars, OneRequest
<1> QED
  BY <1>2, <1>3

\* The engine's operations and RequestFrame itself.
LEMMA EngineInv ==
    ASSUME Inv, DimensionType, EngineStep \/ \E b \in BOOLEAN : RequestFrame(b)
    PROVE  Inv'
<1>0. /\ RequestTypes /\ semaphore \in {0, 1} /\ dimension \in BOOLEAN
      /\ RegenerateRequested /\ RunsWhenPossible /\ ScheduledWhileRequested
      /\ ~frameScheduled => semaphore = 1
  BY DEF Inv, OneRequest, ScheduledWhileRequested, DimensionType
<1> USE DEF RequestTypes
<1>a. ASSUME UNCHANGED waiterVars,
             \/ semaphore' = semaphore /\ awaits' = awaits
             \/ semaphore = 1 /\ semaphore' = 0 /\ awaits' = awaits + 1,
             RequestTypes', RegenerateRequested', RunsWhenPossible', ScheduledWhileRequested'
      PROVE  Inv'
  BY <1>a, RequestMoves DEF Inv
<1>1. ASSUME NEW b \in BOOLEAN, RequestFrame(b) PROVE Inv'
  <2>1. RequestFrameWith(b, paused, dimension, semaphore, frameScheduled)
        /\ UNCHANGED <<waiterVars, paused, haveSurface, activityRunning>>
    BY <1>1 DEF RequestFrame, engineVars
  <2>2. /\ \/ semaphore' = semaphore /\ awaits' = awaits
           \/ semaphore = 1 /\ semaphore' = 0 /\ awaits' = awaits + 1
        /\ ~paused => semaphore' = 0
        /\ ~frameScheduled' => semaphore' = 1
        /\ regenerate' \in BOOLEAN /\ frameScheduled' \in BOOLEAN
    BY <1>0, <2>1, RequestEffect
  <2>3. RequestTypes' /\ RegenerateRequested' /\ RunsWhenPossible' /\ ScheduledWhileRequested'
    BY <1>0, <2>1, <2>2 DEF RegenerateRequested, RunsWhenPossible, ScheduledWhileRequested
  <2> QED
    BY <1>a, <2>1, <2>2, <2>3
<1>2. CASE OnOutputSurfaceCreated
  <2> DEFINE p == paused /\ ~activityRunning
  <2>0. p \in BOOLEAN
    BY <1>0
  <2>1. /\ RequestFrameWith(TRUE, p, dimension, semaphore, frameScheduled)
        /\ haveSurface' = TRUE /\ paused' = p /\ UNCHANGED <<waiterVars, activityRunning>>
    BY <1>2 DEF OnOutputSurfaceCreated
  <2> HIDE DEF p
  <2>2. /\ \/ semaphore' = semaphore /\ awaits' = awaits
           \/ semaphore = 1 /\ semaphore' = 0 /\ awaits' = awaits + 1
        /\ ~p => semaphore' = 0
        /\ ~frameScheduled' => semaphore' = 1
        /\ regenerate' \in BOOLEAN /\ frameScheduled' \in BOOLEAN
    BY <1>0, <2>0, <2>1, RequestEffect
  <2>3. RequestTypes' /\ RegenerateRequested' /\ ScheduledWhileRequested'
    BY <1>0, <2>0, <2>1, <2>2 DEF RegenerateRequested, ScheduledWhileRequested
  <2>4. RunsWhenPossible'
    BY <1>0, <2>1 DEF RunsWhenPossible, p
  <2> QED
    BY <1>a, <2>1, <2>2, <2>3, <2>4
<1>3. CASE OnOutputSurfaceDestroyed \/ LifecyclePaused
  <2>1. UNCHANGED <<waiterVars, requestVars>> /\ paused' = TRUE
        /\ haveSurface' \in BOOLEAN /\ activityRunning' \in BOOLEAN
        /\ ~(haveSurface' /\ activityRunning')
    BY <1>0, <1>3 DEF OnOutputSurfaceDestroyed, LifecyclePaused
  <2>2. RequestTypes' /\ RegenerateRequested' /\ RunsWhenPossible' /\ ScheduledWhileRequested'
    BY <1>0, <2>1 DEF requestVars, RegenerateRequested, RunsWhenPossible, ScheduledWhileRequested
  <2> QED
    BY <1>a, <2>1, <2>2 DEF requestVars
<1>4. ASSUME NEW b \in BOOLEAN, SetViewportMetrics(b) PROVE Inv'
  <2> DEFINE d == dimension \/ b
  <2>0. d \in BOOLEAN
    BY <1>0
  <2>1. /\ UNCHANGED <<waiterVars, paused, haveSurface, activityRunning>>
        /\ \/ RequestFrameWith(TRUE, paused, d, semaphore, frameScheduled)
           \/ UNCHANGED requestVars
    BY <1>4 DEF SetViewportMetrics, engineVars
  <2> HIDE DEF d
  <2>2. CASE RequestFrameWith(TRUE, paused, d, semaphore, frameScheduled)
    <3>1. /\ \/ semaphore' = semaphore /\ awaits' = awaits
             \/ semaphore = 1 /\ semaphore' = 0 /\ awaits' = awaits + 1
          /\ ~paused => semaphore' = 0
          /\ ~frameScheduled' => semaphore' = 1
          /\ regenerate' \in BOOLEAN /\ frameScheduled' \in BOOLEAN
      BY <1>0, <2>0, <2>2, RequestEffect
    <3>2. RequestTypes' /\ RegenerateRequested' /\ RunsWhenPossible' /\ ScheduledWhileRequested'
      BY <1>0, <2>1, <3>1 DEF RegenerateRequested, RunsWhenPossible, ScheduledWhileRequested
    <3> QED
      BY <1>a, <2>1, <3>1, <3>2
  <2>3. CASE UNCHANGED requestVars
    <3>1. RequestTypes' /\ RegenerateRequested' /\ RunsWhenPossible' /\ ScheduledWhileRequested'
      BY <1>0, <2>1, <2>3
         DEF requestVars, RegenerateRequested, RunsWhenPossible, ScheduledWhileRequested
    <3> QED
      BY <1>a, <2>1, <2>3, <3>1 DEF requestVars
  <2> QED
    BY <2>1, <2>2, <2>3
<1>5. ASSUME NEW b \in BOOLEAN, LifecycleRunning(b) PROVE Inv'
  <2>1. /\ UNCHANGED <<waiterVars, haveSurface>> /\ activityRunning' = TRUE
        /\ paused' = (paused /\ ~haveSurface)
    BY <1>5 DEF LifecycleRunning
  <2>2. CASE /\ haveSurface
             /\ RequestFrameWith(TRUE, FALSE, dimension, semaphore, frameScheduled)
    <3>1. /\ \/ semaphore' = semaphore /\ awaits' = awaits
             \/ semaphore = 1 /\ semaphore' = 0 /\ awaits' = awaits + 1
          /\ semaphore' = 0
          /\ ~frameScheduled' => semaphore' = 1
          /\ regenerate' \in BOOLEAN /\ frameScheduled' \in BOOLEAN
      BY <1>0, <2>2, RequestEffect
    <3>2. RequestTypes' /\ RegenerateRequested' /\ RunsWhenPossible' /\ ScheduledWhileRequested'
      BY <1>0, <2>1, <2>2, <3>1 DEF RegenerateRequested, RunsWhenPossible, ScheduledWhileRequested
    <3> QED
      BY <1>a, <2>1, <3>1, <3>2
  <2>3. CASE UNCHANGED requestVars /\ (haveSurface => ~paused)
    <3>1. RequestTypes' /\ RegenerateRequested' /\ RunsWhenPossible' /\ ScheduledWhileRequested'
      BY <1>0, <2>1, <2>3
         DEF requestVars, RegenerateRequested, RunsWhenPossible, ScheduledWhileRequested
    <3> QED
      BY <1>a, <2>1, <2>3, <3>1 DEF requestVars
  <2> QED
    BY <1>5, <2>2, <2>3 DEF LifecycleRunning
<1> QED
  BY <1>1, <1>2, <1>3, <1>4, <1>5 DEF EngineStep

\* The request's way from the posted AwaitVSync to the frame.
LEMMA FrameInv ==
    ASSUME Inv, DimensionType, FrameStep
    PROVE  Inv'
<1>0. /\ WaiterTypes /\ PostedType /\ RequestTypes /\ OneRequest /\ OneAwait
      /\ RegenerateRequested /\ RunsWhenPossible /\ ScheduledWhileRequested
      /\ dimension \in BOOLEAN
  BY DEF Inv, DimensionType
<1>1. CASE AwaitVSyncTask
  <2>1. /\ awaits = 1 /\ awaits' = 0 /\ semaphore = 0 /\ semaphore' = 0
        /\ callback' = TRUE /\ ~callback /\ arming' = ~secondary /\ ~arming
        /\ "frame" \notin firing /\ ~HasFrame(posted)
        /\ UNCHANGED <<secondary, armed, firing, posted>>
    <3>1. awaits > 0 /\ awaits' = awaits - 1 /\ semaphore' = semaphore
      BY <1>1 DEF AwaitVSyncTask
    <3>2. awaits = 1
      BY <1>0, <3>1 DEF OneRequest
    <3>3. ~callback /\ semaphore = 0 /\ "frame" \notin firing /\ ~HasFrame(posted)
      BY <1>0, <3>2 DEF OneRequest
    <3>4. callback' = TRUE /\ arming' = (~callback /\ ~secondary) /\ ~arming
          /\ UNCHANGED <<secondary, armed, firing, posted>>
      BY <1>1 DEF AwaitVSyncTask, AsyncWaitForVsync, UIFree
    <3> QED
      BY <1>0, <3>1, <3>2, <3>3, <3>4 DEF WaiterTypes
  <2>2. OneRequest'
    BY <1>0, <2>1 DEF OneRequest
  <2>3. OneAwait'
    <3>1. CASE secondary
      BY <1>0, <2>1, <3>1 DEF OneAwait
    <3>2. CASE ~secondary
      BY <1>0, <2>1, <3>2 DEF OneAwait
    <3> QED
      BY <3>1, <3>2
  <2>4. WaiterTypes' /\ PostedType'
    BY <1>0, <2>1 DEF WaiterTypes, PostedType
  <2>5. RequestTypes' /\ RegenerateRequested' /\ RunsWhenPossible' /\ ScheduledWhileRequested'
    BY <1>0, <1>1 DEF AwaitVSyncTask, engineVars, RequestTypes, RegenerateRequested,
                      RunsWhenPossible, ScheduledWhileRequested
  <2> QED
    BY <2>2, <2>3, <2>4, <2>5 DEF Inv
<1>2. CASE BeginFrameEnd
  <2>1. UNCHANGED <<callback, secondary, arming, armed, firing, posted, semaphore, awaits,
                    paused, regenerate, frameScheduled, haveSurface, activityRunning>>
    BY <1>2 DEF BeginFrameEnd, requestVars, engineVars
  <2>2. WaiterTypes' /\ PostedType' /\ RequestTypes' /\ OneAwait' /\ OneRequest'
    BY <1>0, <2>1 DEF WaiterTypes, PostedType, RequestTypes, OneAwait, OneRequest
  <2>3. RegenerateRequested' /\ RunsWhenPossible' /\ ScheduledWhileRequested'
    BY <1>0, <2>1 DEF RegenerateRequested, RunsWhenPossible, ScheduledWhileRequested
  <2> QED
    BY <2>2, <2>3 DEF Inv
<1>3. CASE DrawLastLayerTree \/ BeginFrame \/ BeginFrameFull
  <2>1. /\ posted # <<>> /\ Head(posted) = "frame" /\ posted' = Tail(posted)
        /\ UNCHANGED <<callback, secondary, arming, armed, firing, paused>>
        /\ UNCHANGED <<haveSurface, activityRunning>>
    BY <1>3 DEF DrawLastLayerTree, BeginFrame, BeginFrameFull, TakePosted, engineVars
  <2>2. HasFrame(posted) /\ ~HasFrame(posted') /\ OneFrame(posted') /\ PostedType'
    BY <1>0, <2>1, TakeFirst DEF PostedType, OneRequest
  <2>3. semaphore = 0 /\ awaits = 0 /\ ~callback /\ "frame" \notin firing
    BY <1>0, <2>2 DEF OneRequest
  <2>4. /\ \/ semaphore' = 1 /\ awaits' = 0
           \/ semaphore' = 0 /\ awaits' = 1
        /\ RequestTypes' /\ RegenerateRequested' /\ ScheduledWhileRequested'
    <3>1. CASE DrawLastLayerTree
      <4>1. /\ semaphore' = semaphore + 1 /\ ~regenerate
            /\ UNCHANGED <<regenerate, frameScheduled, awaits>>
        BY <3>1 DEF DrawLastLayerTree
      <4>2. semaphore' = 1
        BY <2>3, <4>1
      <4> QED
        BY <1>0, <2>1, <2>3, <4>1, <4>2
           DEF RequestTypes, RegenerateRequested, ScheduledWhileRequested
    <3>2. CASE BeginFrame
      <4>1. /\ semaphore' = semaphore + 1 /\ regenerate' = FALSE
            /\ frameScheduled' = FALSE /\ awaits' = awaits
        BY <3>2 DEF BeginFrame
      <4>2. semaphore' = 1
        BY <2>3, <4>1
      <4> QED
        BY <1>0, <2>1, <2>3, <4>1, <4>2
           DEF RequestTypes, RegenerateRequested, ScheduledWhileRequested
    <3>3. CASE BeginFrameFull
      <4>1. semaphore + 1 = 1
        BY <2>3
      <4>2. RequestFrameWith(TRUE, paused, dimension, 1, FALSE)
        BY <3>3, <4>1 DEF BeginFrameFull
      <4>3. /\ \/ semaphore' = 1 /\ awaits' = awaits
               \/ 1 = 1 /\ semaphore' = 0 /\ awaits' = awaits + 1
            /\ ~paused => semaphore' = 0
            /\ ~frameScheduled' => semaphore' = 1
            /\ regenerate' \in BOOLEAN /\ frameScheduled' \in BOOLEAN
        BY <1>0, <4>2, RequestEffect DEF RequestTypes
      <4>4. \/ semaphore' = 1 /\ awaits' = 0
            \/ semaphore' = 0 /\ awaits' = 1
        BY <2>3, <4>3
      <4> QED
        BY <1>0, <2>1, <4>3, <4>4
           DEF RequestTypes, RegenerateRequested, ScheduledWhileRequested
    <3> QED
      BY <1>3, <3>1, <3>2, <3>3
  <2>5. OneRequest'
    BY <2>1, <2>2, <2>3, <2>4 DEF OneRequest
  <2>6. WaiterTypes' /\ OneAwait' /\ RunsWhenPossible'
    BY <1>0, <2>1 DEF WaiterTypes, OneAwait, RunsWhenPossible
  <2> QED
    BY <2>2, <2>4, <2>5, <2>6 DEF Inv
<1> QED
  BY <1>1, <1>2, <1>3 DEF FrameStep

\* What is left moves no request.
LEMMA OtherInv ==
    ASSUME Inv,
           \/ IdleTask \/ Consume \/ \E b \in BOOLEAN : Render(b)
           \/ UNCHANGED vars
    PROVE  Inv'
<1>1. UNCHANGED <<callback, secondary, arming, armed, firing, posted, semaphore, awaits,
                  paused, regenerate, frameScheduled, haveSurface, activityRunning>>
  BY DEF IdleTask, Consume, Render, vars, waiterVars, animatorVars, requestVars, engineVars
<1>2. WaiterTypes' /\ PostedType' /\ RequestTypes' /\ OneAwait' /\ OneRequest'
  BY <1>1 DEF Inv, WaiterTypes, PostedType, RequestTypes, OneAwait, OneRequest
<1>3. RegenerateRequested' /\ RunsWhenPossible' /\ ScheduledWhileRequested'
  BY <1>1 DEF Inv, RegenerateRequested, RunsWhenPossible, ScheduledWhileRequested
<1> QED
  BY <1>2, <1>3 DEF Inv

-----------------------------------------------------------------------------
(* Every step.                                                              *)

LEMMA NextDimension == DimensionType /\ [Next]_vars => DimensionType'
<1> SUFFICES ASSUME DimensionType, [Next]_vars PROVE DimensionType'
  OBVIOUS
<1>1. \/ dimension' = dimension
      \/ \E b \in BOOLEAN : dimension' = (dimension /\ ~b) \/ dimension' = (dimension \/ b)
  BY DEF Next, AnimatorStep, FrameStep, EngineStep, RequestFrame, AwaitVSyncTask,
         DrawLastLayerTree, BeginFrame, BeginFrameFull, BeginFrameEnd, IdleTask, Render,
         Consume, OnOutputSurfaceCreated, OnOutputSurfaceDestroyed, SetViewportMetrics,
         LifecyclePaused, LifecycleRunning, animatorVars, vars
<1> QED
  BY <1>1 DEF DimensionType

LEMMA NextInv == DimensionType /\ Inv /\ [Next]_vars => Inv'
  BY WaiterInv, PointerInv, EngineInv, FrameInv, OtherInv DEF Next, AnimatorStep

LEMMA SpecInv == Spec => []Inv
<1>1. Init => DimensionType
  BY DEF Init, AnimatorInit, DimensionType
<1>2. Spec => []DimensionType
  BY <1>1, NextDimension, PTL DEF Spec
<1> QED
  BY <1>2, InitInv, NextInv, PTL DEF Spec

\* pending_frame_semaphore_, the posted AwaitVSync, callback_ and the posted frame
\* callback account for exactly one request, whatever the vsync thread, the UI
\* thread and the GPU thread do.
THEOREM OneFrameRequest == Spec => []FrameRequestAccount
  BY SpecInv, InvImplies, PTL

\* AwaitVSync is outstanding once while a callback is registered and never
\* otherwise, so every callback gets its vsync and no vsync finds no callback.
THEOREM OneVsyncPerCallback == Spec => []VsyncArmed
  BY SpecInv, InvImplies, PTL

\* A frame that was asked for with a new layer tree is under way unless the
\* animator is paused, and the animator is not paused when it could run.
THEOREM NoRequestLost == Spec => [](RegenerateRequested /\ RunsWhenPossible)
  BY SpecInv, InvImplies, PTL

\* The idle task notifies the engine only while no frame request is under way.
THEOREM IdleIsIdle == Spec => []IdleMeansNoRequest
  BY SpecInv, InvImplies, PTL

\* The Animator and the VsyncWaiter together lose and double no frame request.
THEOREM NoRequestLostOrDoubled == Spec => []RequestsSafe
  BY OneFrameRequest, OneVsyncPerCallback, NoRequestLost, IdleIsIdle, PTL DEF RequestsSafe
=============================================================================
