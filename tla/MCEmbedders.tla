----------------------------- MODULE MCEmbedders ------------------------------
(* What the engine shows and tells its embedders, one component at           *)
(* a time: `part' is the component whose steps a behaviour takes, the others *)
(* stay in their initial state.  The components share no state, so a product *)
(* of them would only multiply the states of each by those of the others.    *)
EXTENDS PlatformMessages, RasterCache, ExternalTextures, FuchsiaPresentation,
        AndroidEmbedding

VARIABLE part

Parts == {"messages", "cache", "textures", "fuchsia", "android"}

Init ==
    /\ part \in Parts
    /\ MessagesInit /\ CacheInit /\ TexturesInit /\ PresentationInit
    /\ IF part = "android" THEN AndroidInit ELSE AndroidInitOf({})

Next ==
    \/ /\ part = "messages" /\ MessagesNext
       /\ UNCHANGED <<part, cacheVars, textureVars, presentVars, androidVars>>
    \/ /\ part = "cache" /\ CacheNext
       /\ UNCHANGED <<part, messageVars, textureVars, presentVars,
                      androidVars>>
    \/ /\ part = "textures" /\ TexturesNext
       /\ UNCHANGED <<part, messageVars, cacheVars, presentVars, androidVars>>
    \/ /\ part = "fuchsia" /\ PresentationNext
       /\ UNCHANGED <<part, messageVars, cacheVars, textureVars, androidVars>>
    \/ /\ part = "android" /\ AndroidNext
       /\ UNCHANGED <<part, messageVars, cacheVars, textureVars, presentVars>>

vars == <<part, messageVars, cacheVars, textureVars, presentVars, androidVars>>

\* The fairness of each component, in the behaviours that take its steps.
Fairness ==
    /\ WF_messageVars(part = "messages" /\ UIStep)
    /\ WF_messageVars(part = "messages" /\ PlatformStep)
    /\ WF_messageVars(part = "messages" /\ SetHandler)
    /\ WF_messageVars(part = "messages" /\ \E c \in handling : HandlerResponds(c))
    /\ WF_cacheVars(part = "cache" /\ FrameStep)
    /\ WF_textureVars(part = "textures" /\ GpuStep)
    /\ WF_textureVars(part = "textures" /\ UiStep)
    /\ WF_presentVars(part = "fuchsia" /\ VsyncStep)
    /\ WF_presentVars(part = "fuchsia" /\ RasterStep)
    /\ WF_presentVars(part = "fuchsia" /\ OnPresented)
    /\ \A h \in Hosts : WF_androidVars(part = "android" /\ RunAttach(h))

Spec == Init /\ [][Next]_vars /\ Fairness
===============================================================================
