-------------------------- MODULE ExternalTextures --------------------------
(***************************************************************************)
(* External textures on Android: FlutterRenderer creates and releases      *)
(* SurfaceTextures on the platform thread; Shell posts their registration, *)
(* their new frames and their removal to the GPU thread, which owns the    *)
(* TextureRegistry and one AndroidExternalTextureGL per texture.  The GL   *)
(* context comes and goes with the rendering surface, for which the        *)
(* platform thread waits.  The queue of the GPU thread is first in, first  *)
(* out; the UI thread turns requests for frames into draws.                *)
(***************************************************************************)
EXTENDS Naturals, Sequences, FiniteSets

CONSTANTS Textures,            \* texture ids
          MaxProduced,         \* bound on the frames a producer puts in a SurfaceTexture
          MaxTextureSurfaces,  \* bound on the rendering surfaces created
          MaxDraws             \* draws the pipeline lets wait in the GPU queue

ASSUME TexturesAssumption == MaxProduced \in Nat /\ MaxTextureSurfaces \in Nat /\ MaxDraws \in Nat \ {0}

VARIABLES entry,         \* SurfaceTextureRegistryEntry: "none", "live" or "released"
          produced,      \* frames the producer has put in the SurfaceTexture
          notified,      \* of which onFrameAvailable has run for
          attached,      \* the SurfaceTextures attached to the GL context
          mapping,       \* TextureRegistry::mapping_, the ids in it
          state,         \* AndroidExternalTextureGL::state_
          ready,         \* AndroidExternalTextureGL::new_frame_ready_
          taken,         \* frames up to the one updateTexImage took last
          gpuQueue,      \* tasks of the GPU thread
          context,       \* the rasterizer has a surface
          lastTree,      \* last_layer_tree_: "none", "live" or "frozen" textures
          rasterizer,    \* the rasterizer is alive
          animating,     \* the engine has an output surface (the animator runs)
          wanted,        \* frame the animator awaits: "none", "last" or "full"
          platformWait,  \* what the platform thread waits for, or "free", "gone"
          surfacesMade   \* rendering surfaces created so far

textureVars == <<entry, produced, notified, attached, mapping, state, ready, taken, gpuQueue,
                 context, lastTree, rasterizer, animating, wanted, platformWait, surfacesMade>>
javaVars == <<entry, produced, notified>>
glVars == <<attached, mapping, state, ready, taken>>
animatorVars == <<animating, wanted>>

GpuTasks == [do : {"register", "unregister", "mark"}, texture : Textures]
              \cup [do : {"setup", "teardown", "reset", "live", "frozen", "last"}]
Draws == {"live", "frozen", "last"}

TexturesTypeOK ==
    /\ entry \in [Textures -> {"none", "live", "released"}]
    /\ produced \in [Textures -> 0 .. MaxProduced]
    /\ notified \in [Textures -> 0 .. MaxProduced]
    /\ attached \subseteq Textures /\ mapping \subseteq Textures
    /\ state \in [Textures -> {"uninitialized", "attached", "detached"}]
    /\ ready \in [Textures -> BOOLEAN]
    /\ taken \in [Textures -> 0 .. MaxProduced]
    /\ gpuQueue \in Seq(GpuTasks)
    /\ lastTree \in {"none", "live", "frozen"}
    /\ {context, rasterizer, animating} \subseteq BOOLEAN
    /\ wanted \in {"none", "last", "full"}
    /\ platformWait \in {"free", "creating", "destroying", "resetting", "gone"}
    /\ surfacesMade \in 0 .. MaxTextureSurfaces

TexturesInit ==
    /\ entry = [t \in Textures |-> "none"]
    /\ produced = [t \in Textures |-> 0] /\ notified = produced /\ taken = produced
    /\ attached = {} /\ mapping = {}
    /\ state = [t \in Textures |-> "uninitialized"]
    /\ ready = [t \in Textures |-> FALSE]
    /\ gpuQueue = <<>>
    /\ context = FALSE /\ lastTree = "none" /\ rasterizer = TRUE
    /\ animating = FALSE /\ wanted = "none"
    /\ platformWait = "free" /\ surfacesMade = 0

----------------------------------------------------------------------------
(* The platform thread.                                                    *)

\* Animator::RequestFrame through Engine::ScheduleFrame: nothing while paused.
Requested(kind) == IF ~animating THEN wanted
                   ELSE IF wanted = "full" THEN "full" ELSE kind

createSurfaceTexture(t) ==
    /\ platformWait = "free" /\ entry[t] = "none"
    /\ entry' = [entry EXCEPT ![t] = "live"]
    /\ gpuQueue' = Append(gpuQueue, [do |-> "register", texture |-> t])
    /\ UNCHANGED <<produced, notified, glVars, context, lastTree, rasterizer, animatorVars,
                   platformWait, surfacesMade>>

\* The camera, player or view behind the texture (external).
ProduceFrame(t) ==
    /\ entry[t] = "live" /\ produced[t] < MaxProduced
    /\ produced' = [produced EXCEPT ![t] = @ + 1]
    /\ UNCHANGED <<entry, notified, glVars, gpuQueue, context, lastTree, rasterizer, animatorVars,
                   platformWait, surfacesMade>>


\* Shell::OnPlatformViewMarkTextureFrameAvailable: a task for the texture,
\* then a frame from the last layer tree.
MarkTextureFrameAvailable(t) ==
    /\ gpuQueue' = Append(gpuQueue, [do |-> "mark", texture |-> t])
    /\ wanted' = Requested("last")

onFrameAvailable(t) ==
    /\ platformWait = "free" /\ notified[t] < produced[t]
    /\ notified' = [notified EXCEPT ![t] = @ + 1]
    /\ IF entry[t] = "released" THEN UNCHANGED <<gpuQueue, wanted>>
                                ELSE MarkTextureFrameAvailable(t)
    /\ UNCHANGED <<entry, produced, glVars, context, lastTree, rasterizer, animating,
                   platformWait, surfacesMade>>

release(t) ==
    /\ platformWait = "free" /\ entry[t] = "live"
    /\ entry' = [entry EXCEPT ![t] = "released"]
    /\ gpuQueue' = Append(gpuQueue, [do |-> "unregister", texture |-> t])
    /\ UNCHANGED <<produced, notified, glVars, context, lastTree, rasterizer, animatorVars,
                   platformWait, surfacesMade>>

\* OnPlatformViewCreated, OnPlatformViewDestroyed and ~Shell block the platform
\* thread until the GPU thread has done its part.
PlatformViewCreated ==
    /\ platformWait = "free" /\ ~animating /\ surfacesMade < MaxTextureSurfaces
    /\ platformWait' = "creating" /\ surfacesMade' = surfacesMade + 1
    /\ UNCHANGED <<javaVars, glVars, gpuQueue, context, lastTree, rasterizer, animatorVars>>
PlatformViewDestroyed ==
    /\ platformWait = "free" /\ animating
    /\ platformWait' = "destroying"
    /\ UNCHANGED <<javaVars, glVars, gpuQueue, context, lastTree, rasterizer, animatorVars, surfacesMade>>
ShellDestroyed ==
    /\ platformWait = "free" /\ surfacesMade = MaxTextureSurfaces
    /\ platformWait' = "resetting"
    /\ UNCHANGED <<javaVars, glVars, gpuQueue, context, lastTree, rasterizer, animatorVars, surfacesMade>>

----------------------------------------------------------------------------
(* The UI thread.                                                          *)

Waiting(what) == platformWait = what /\ \A i \in 1 .. Len(gpuQueue) :
                     gpuQueue[i].do \notin {"setup", "teardown", "reset"}

OnOutputSurfaceCreated ==
    /\ Waiting("creating")
    /\ animating' = TRUE /\ wanted' = "full"
    /\ gpuQueue' = Append(gpuQueue, [do |-> "setup"])
    /\ UNCHANGED <<javaVars, glVars, context, lastTree, rasterizer, platformWait, surfacesMade>>

OnOutputSurfaceDestroyed ==
    /\ Waiting("destroying")
    /\ animating' = FALSE /\ wanted' = "none"
    /\ gpuQueue' = Append(gpuQueue, [do |-> "teardown"])
    /\ UNCHANGED <<javaVars, glVars, context, lastTree, rasterizer, platformWait, surfacesMade>>

EngineReset ==
    /\ Waiting("resetting")
    /\ animating' = FALSE /\ wanted' = "none"
    /\ gpuQueue' = Append(gpuQueue, [do |-> "reset"])
    /\ UNCHANGED <<javaVars, glVars, context, lastTree, rasterizer, platformWait, surfacesMade>>

DrawsQueued == {i \in 1 .. Len(gpuQueue) : gpuQueue[i].do \in Draws}

\* Animator::BeginFrame: the framework builds a layer tree with its textures
\* live or frozen, or the last layer tree is drawn again.
BeginFrame ==
    /\ wanted # "none" /\ Cardinality(DrawsQueued) < MaxDraws
    /\ wanted' = "none"
    /\ \E draw \in (IF wanted = "last" THEN {"last"} ELSE {"live", "frozen"}) :
           gpuQueue' = Append(gpuQueue, [do |-> draw])
    /\ UNCHANGED <<javaVars, glVars, context, lastTree, rasterizer, animating, platformWait, surfacesMade>>

\* The framework asks for a new scene (external).
ScheduleFrame ==
    /\ animating /\ wanted # "full"
    /\ wanted' = "full"
    /\ UNCHANGED <<javaVars, glVars, gpuQueue, context, lastTree, rasterizer, animating,
                   platformWait, surfacesMade>>

----------------------------------------------------------------------------
(* The GPU thread: one action per task at the head of its queue.           *)

GpuTask(what) ==
    /\ gpuQueue # <<>> /\ Head(gpuQueue).do = what
    /\ gpuQueue' = Tail(gpuQueue)

RegisterTexture ==
    /\ GpuTask("register")
    /\ mapping' = IF rasterizer THEN mapping \cup {Head(gpuQueue).texture} ELSE mapping
    /\ UNCHANGED <<javaVars, attached, state, ready, taken, context, lastTree, rasterizer,
                   animatorVars, platformWait, surfacesMade>>

\* Removing the last reference to an attached texture deletes its GL name.
UnregisterTexture ==
    /\ GpuTask("unregister")
    /\ mapping' = mapping \ {Head(gpuQueue).texture}
    /\ UNCHANGED <<javaVars, attached, state, ready, taken, context, lastTree, rasterizer,
                   animatorVars, platformWait, surfacesMade>>

MarkNewFrameAvailable ==
    /\ GpuTask("mark")
    /\ LET t == Head(gpuQueue).texture
       IN  ready' = [ready EXCEPT ![t] = (t \in mapping) \/ @]
    /\ UNCHANGED <<javaVars, attached, mapping, state, taken, context, lastTree, rasterizer,
                   animatorVars, platformWait, surfacesMade>>

\* Rasterizer::Setup and TextureRegistry::OnGrContextCreated.
Setup ==
    /\ GpuTask("setup")
    /\ state' = [t \in Textures |-> IF t \in mapping THEN "uninitialized" ELSE state[t]]
    /\ context' = TRUE /\ platformWait' = "free"
    /\ UNCHANGED <<javaVars, attached, mapping, ready, taken, lastTree, rasterizer, animatorVars, surfacesMade>>


\* TextureRegistry::OnGrContextDestroyed.
OnGrContextDestroyed ==
    /\ attached' = attached \ {t \in mapping : state[t] = "attached"}
    /\ state' = [t \in Textures |-> IF t \in mapping THEN "detached" ELSE state[t]]

Teardown ==
    /\ GpuTask("teardown")
    /\ OnGrContextDestroyed
    /\ context' = FALSE /\ lastTree' = "none" /\ platformWait' = "free"
    /\ UNCHANGED <<javaVars, mapping, ready, taken, rasterizer, animatorVars, surfacesMade>>

RasterizerReset ==
    /\ GpuTask("reset")
    /\ mapping' = {} /\ context' = FALSE /\ lastTree' = "none"
    /\ rasterizer' = FALSE /\ platformWait' = "gone"
    /\ UNCHANGED <<javaVars, attached, state, ready, taken, animatorVars, surfacesMade>>

\* AndroidExternalTextureGL::Paint of every registered texture of the tree.
Paint(freeze) ==
    LET painted == {t \in mapping : state[t] # "detached"}
        updated == {t \in painted : ~freeze /\ ready[t]}
    IN  /\ attached' = attached \cup {t \in painted : state[t] = "uninitialized"}
        /\ state' = [t \in Textures |-> IF t \in painted THEN "attached" ELSE state[t]]
        /\ taken' = [t \in Textures |-> IF t \in updated THEN produced[t] ELSE taken[t]]
        /\ ready' = [t \in Textures |-> ready[t] /\ t \notin updated]

\* Rasterizer::Draw or DrawLastLayerTree; dropped without a surface or a tree.
Draw ==
    \E draw \in Draws :
        LET tree == IF draw = "last" THEN lastTree ELSE draw
        IN  /\ GpuTask(draw)
            /\ IF ~context \/ tree = "none" THEN UNCHANGED <<lastTree, attached, state, taken, ready>>
                                            ELSE lastTree' = tree /\ Paint(tree = "frozen")
            /\ UNCHANGED <<javaVars, mapping, context, rasterizer, animatorVars, platformWait, surfacesMade>>

GpuStep == \/ RegisterTexture \/ UnregisterTexture \/ MarkNewFrameAvailable
           \/ Setup \/ Teardown \/ RasterizerReset \/ Draw
UiStep == OnOutputSurfaceCreated \/ OnOutputSurfaceDestroyed \/ EngineReset \/ BeginFrame

TexturesNext ==
    \/ \E t \in Textures : \/ createSurfaceTexture(t) \/ ProduceFrame(t)
                           \/ onFrameAvailable(t) \/ release(t)
    \/ PlatformViewCreated \/ PlatformViewDestroyed \/ ShellDestroyed
    \/ UiStep \/ ScheduleFrame
    \/ GpuStep

\* The loops of the GPU and UI threads run the tasks they are given, and the
\* vsync that a requested frame awaits comes.
TexturesFairness == WF_textureVars(GpuStep) /\ WF_textureVars(UiStep)

TexturesSpec == TexturesInit /\ [][TexturesNext]_textureVars /\ TexturesFairness

----------------------------------------------------------------------------
\* A registered texture believes it is attached exactly when its SurfaceTexture
\* is, and none stays attached to a context that is gone: attachToGLContext is
\* never called twice, whatever the order of registrations, draws and lost
\* contexts (state_ in android_external_texture_gl.cc).
AttachedToLiveContext ==
    \A t \in mapping : /\ (state[t] = "attached") = (t \in attached)
                       /\ t \in attached => context

\* The tasks of the GPU thread find what they dereference unchecked: the texture
\* that UnregisterTexture looks up in mapping_, and the rasterizer behind the
\* weak pointer that the task of MarkTextureFrameAvailable does not test.
TasksFindTargets ==
    gpuQueue # <<>> =>
        /\ Head(gpuQueue).do = "unregister" /\ rasterizer => Head(gpuQueue).texture \in mapping
        /\ Head(gpuQueue).do = "mark" => rasterizer

\* A frame that onFrameAvailable reported and no draw has taken is remembered in
\* new_frame_ready_ or in a task on its way, through frozen draws and through
\* the loss of the context.
NewFrameRemembered ==
    \A t \in Textures :
        entry[t] = "live" /\ taken[t] < notified[t] /\ rasterizer =>
            ready[t] \/ \E i \in 1 .. Len(gpuQueue) : gpuQueue[i] = [do |-> "mark", texture |-> t]


=============================================================================
