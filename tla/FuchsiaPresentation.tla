------------------------ MODULE FuchsiaPresentation ------------------------
(***************************************************************************)
(* Frames on Fuchsia: the vsync waiter lets the UI thread begin a frame    *)
(* when the session signal is high; the GPU thread paints the frame into   *)
(* surfaces of the VulkanSurfacePool and hands it to Scenic, one Present   *)
(* at a time; Scenic answers with the presentation callback and releases   *)
(* the surfaces of earlier frames.  Layers with a retained surface are not *)
(* painted again.  A surface in use is named by its layer, 0 for the root  *)
(* frame, whose surfaces are many.                                         *)
(***************************************************************************)
EXTENDS Naturals, Sequences, FiniteSets, SequencesExt

CONSTANTS Keys,            \* keys of layers with a retained surface
          TreeDepth,       \* frames the layer tree pipeline lets wait for the GPU thread
          kMaxSurfaces,    \* surfaces the pool keeps
          kMaxSurfaceAge,  \* presents after which an idle surface is dropped
          MaxPresented     \* bound on the frames begun

ASSUME PresentationAssumption == {TreeDepth, kMaxSurfaces, kMaxSurfaceAge, MaxPresented} \subseteq Nat

VARIABLES waiter,            \* the vsync waiter: "idle", "delayed" or "waiting"
          signal,            \* SessionPresentSignal on the vsync event
          trees,             \* layer trees in the pipeline
          begun,             \* frames begun
          painted,           \* frames handed to SessionConnection::Present
          presented,         \* of which Scenic has been sent
          shown,             \* of which Scenic has shown
          callbackPending,   \* presentation_callback_pending_
          sessionPending,    \* present_session_pending_
          retained,          \* retained_surfaces_: key -> surface
          unreleased,        \* retained surfaces Scenic holds: <<key, frame that painted it>>
          rootPending,       \* pending_surfaces_: frames whose root surface is unreleased
          availableSurfaces  \* available_surfaces_, the age of each

presentVars == <<waiter, signal, trees, begun, painted, presented, shown, callbackPending,
                 sessionPending, retained, unreleased, rootPending, availableSurfaces>>
sessionVars == <<signal, presented, callbackPending, sessionPending>>
vulkanVars == <<retained, unreleased, rootPending, availableSurfaces>>

\* is_pending, IsUsedInRetainedRendering and the frame that painted the surface.
RetainedSurface == [pending : BOOLEAN, used : BOOLEAN, frame : 1 .. MaxPresented]
NoSurface == [pending |-> FALSE, used |-> FALSE, frame |-> 0]

PresentationTypeOK ==
    /\ waiter \in {"idle", "delayed", "waiting"}
    /\ {signal, callbackPending, sessionPending} \subseteq BOOLEAN
    /\ trees \in 0 .. TreeDepth
    /\ {begun, painted, presented, shown} \subseteq 0 .. MaxPresented
    /\ retained \in [Keys -> RetainedSurface \cup {NoSurface}]
    /\ unreleased \subseteq Keys \X (1 .. MaxPresented)
    /\ rootPending \subseteq 1 .. MaxPresented
    /\ availableSurfaces \in Seq(0 .. kMaxSurfaceAge) /\ Len(availableSurfaces) =< kMaxSurfaces

\* The constructor of SessionConnection raises the signal and presents.
PresentationInit ==
    /\ waiter = "idle" /\ signal = TRUE
    /\ trees = 0 /\ begun = 0 /\ painted = 0 /\ presented = 0 /\ shown = 0
    /\ callbackPending = TRUE /\ sessionPending = FALSE
    /\ retained = [k \in Keys |-> NoSurface]
    /\ unreleased = {} /\ rootPending = {} /\ availableSurfaces = <<>>

----------------------------------------------------------------------------
(* The UI thread.                                                          *)

AwaitVSync ==
    /\ waiter = "idle" /\ begun < MaxPresented
    /\ waiter' = "delayed"
    /\ UNCHANGED <<sessionVars, trees, begun, painted, shown, vulkanVars>>

FireCallbackWhenSessionAvailable ==
    /\ waiter = "delayed"
    /\ waiter' = "waiting"
    /\ UNCHANGED <<sessionVars, trees, begun, painted, shown, vulkanVars>>

\* The wait handler fires the callback; the animator produces a layer tree when
\* the pipeline has room.
FireCallbackNow ==
    /\ waiter = "waiting" /\ signal
    /\ waiter' = "idle"
    /\ IF trees < TreeDepth THEN trees' = trees + 1 /\ begun' = begun + 1
                        ELSE UNCHANGED <<trees, begun>>
    /\ UNCHANGED <<sessionVars, painted, shown, vulkanVars>>

----------------------------------------------------------------------------
(* The surface pool.                                                       *)

\* GetCachedOrCreateSurface for n surfaces of a frame: an available one of a
\* fitting size is taken, else one is created.
Acquired(n) == {pool \in AllSubSeqs(availableSurfaces) : Len(pool) + n >= Len(availableSurfaces)}

\* RecycleSurface: the surface was acquired with age 0 and is kept if there is room.
Recycle(pool, n) ==
    LET room == IF Len(pool) + n =< kMaxSurfaces THEN n ELSE kMaxSurfaces - Len(pool)
    IN  pool \o [i \in 1 .. room |-> 0]

\* AgeAndCollectOldBuffers on the idle surfaces.
Aged(pool) == SelectSeq([i \in 1 .. Len(pool) |-> pool[i] + 1], LAMBDA age : age < kMaxSurfaceAge)

\* Mutant: surfaces whose writes are unfinished are collected too.
CollectibleAnyway(k, surface) == surface # NoSurface /\ ~surface.used

\* A retained surface is recycled when neither pending nor used by this frame.
Collectible(k, surface) == surface # NoSurface /\ ~surface.pending /\ ~surface.used

\* SubmitSurface of the surfaces painted for the frame, then
\* AgeAndCollectOldBuffers over the retained ones.
OnSurfacesPresented(frame, used, pool) ==
    LET new == {k \in used : retained[k] = NoSurface}
        submitted == [k \in Keys |->
            IF k \in new
            THEN [pending |-> TRUE, used |-> FALSE, frame |-> frame]
            ELSE [retained[k] EXCEPT !.used = k \in used]]
        old == {k \in Keys : Collectible(k, submitted[k])}
    IN  /\ retained' = [k \in Keys |-> IF k \in old THEN NoSurface
                                       ELSE [submitted[k] EXCEPT !.used = FALSE]]
        /\ unreleased' = unreleased \cup (new \X {frame})
        /\ rootPending' = rootPending \cup {frame}
        /\ availableSurfaces' = Recycle(Aged(pool), Cardinality(old))

----------------------------------------------------------------------------
(* The session, on the GPU thread.                                         *)

\* SessionConnection::PresentSession of everything painted up to frame.
PresentSession(frame) == callbackPending' = TRUE /\ presented' = frame

\* SessionConnection::Present, the throttle.
Present(frame) ==
    IF callbackPending
    THEN /\ sessionPending' = TRUE /\ signal' = FALSE
         /\ UNCHANGED <<callbackPending, presented>>
    ELSE PresentSession(frame) /\ UNCHANGED <<sessionPending, signal>>

\* ScopedFrame::Raster: UpdateScene takes retained nodes or acquires surfaces,
\* Present, ExecutePaintTasks and OnSurfacesPresented.
Raster(used) ==
    /\ trees > 0
    /\ trees' = trees - 1 /\ painted' = painted + 1
    /\ Present(painted + 1)
    /\ \E pool \in Acquired(1 + Cardinality({k \in used : retained[k] = NoSurface})) :
           OnSurfacesPresented(painted + 1, used, pool)
    /\ UNCHANGED <<waiter, begun, shown>>

\* Mutant: the frame that was held back is forgotten.
OnPresentedForgets ==
    /\ callbackPending
    /\ shown' = presented
    /\ callbackPending' = FALSE /\ sessionPending' = FALSE /\ signal' = TRUE
    /\ UNCHANGED <<waiter, trees, begun, painted, presented, vulkanVars>>

\* The presentation callback.
OnPresented ==
    /\ callbackPending
    /\ shown' = presented
    /\ IF sessionPending
       THEN sessionPending' = FALSE /\ PresentSession(painted)
       ELSE callbackPending' = FALSE /\ UNCHANGED <<sessionPending, presented>>
    /\ signal' = TRUE
    /\ UNCHANGED <<waiter, trees, begun, painted, vulkanVars>>

\* Scenic signals the release fence of a surface once a later frame is shown
\* (external); VulkanSurface::OnHandleReady resets the surface and calls
\* SignalRetainedReady or RecyclePendingSurface.
SignalRetainedReady(k, f) ==
    /\ f < shown
    /\ unreleased' = unreleased \ {<<k, f>>}
    /\ retained' = [retained EXCEPT ![k].pending = FALSE]
    /\ UNCHANGED <<waiter, sessionVars, trees, begun, painted, shown, rootPending, availableSurfaces>>

RecyclePendingSurface(f) ==
    /\ f \in rootPending /\ f < shown
    /\ rootPending' = rootPending \ {f}
    /\ availableSurfaces' = Recycle(availableSurfaces, 1)
    /\ UNCHANGED <<waiter, sessionVars, trees, begun, painted, shown, retained, unreleased>>

VsyncStep == FireCallbackWhenSessionAvailable \/ FireCallbackNow
RasterStep == \E used \in SUBSET Keys : Raster(used)

PresentationNext ==
    \/ AwaitVSync \/ VsyncStep \/ RasterStep \/ OnPresented
    \/ \E surface \in unreleased : SignalRetainedReady(surface[1], surface[2])
    \/ \E f \in rootPending : RecyclePendingSurface(f)

\* Both threads run what they are given and Scenic answers every Present.
PresentationFairness ==
    WF_presentVars(VsyncStep) /\ WF_presentVars(RasterStep) /\ WF_presentVars(OnPresented)

PresentationSpec == PresentationInit /\ [][PresentationNext]_presentVars /\ PresentationFairness

----------------------------------------------------------------------------
\* The throttle of SessionConnection::Present lets the frames painted and not
\* yet sent to Scenic grow no further than the frames the pipeline already held
\* when the signal fell.
PaintedAheadBounded == painted - presented =< TreeDepth + 1

\* A retained surface stays under its key until Scenic has released it (the
\* assertion of RecycleRetainedSurface), so that SignalRetainedReady finds it and
\* creates no empty entry.
ReleaseFindsSurface ==
    \A surface \in unreleased :
        retained[surface[1]].pending /\ retained[surface[1]].frame = surface[2]

\* The vsync waiter never waits for good: once the UI thread waits on the
\* session signal it gets to begin its frame.
WaiterFires == (waiter = "waiting") ~> (waiter = "idle")

\* Every painted frame reaches Scenic, in this Present or in the one the
\* presentation callback sends.
PaintedIsPresented == (presented < painted) ~> (presented = painted)

\* The Fuchsia runner's surfaces and session: frames in flight are bounded and a
\* surface the session still reads is not freed.
PresentationSafe == PresentationTypeOK /\ PaintedAheadBounded /\ ReleaseFindsSurface

\* Neither a frame request nor a painted frame is left waiting for the session.
PresentationLive == WaiterFires /\ PaintedIsPresented
=============================================================================
