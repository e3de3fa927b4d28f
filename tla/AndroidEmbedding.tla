-------------------------- MODULE AndroidEmbedding --------------------------
(***************************************************************************)
(* The Android hosts of one FlutterEngine that is kept in the              *)
(* FlutterEngineCache: Activities or Fragments, each with its delegate     *)
(* (FlutterActivityAndFragmentDelegate), its FlutterView and the           *)
(* FlutterSurfaceView in it; the engine's FlutterRenderer, which draws to  *)
(* one Surface; and the FlutterEnginePluginRegistry, which tells the       *)
(* plugins of the Activity or Service the engine is attached to.           *)
(* Everything runs on the main thread; Android chooses the order of the    *)
(* callbacks.  The messages sent on the lifecycle channel are left out.    *)
(***************************************************************************)
EXTENDS Naturals, FiniteSets

CONSTANTS Hosts,     \* the Activities (or Fragments) of the app
          Plugins,   \* the plugins the app may add, ActivityAware and ServiceAware
          MaxPosted  \* bound on the attach runnables of a host that are pending

ASSUME EmbeddingAssumption ==
    Hosts \cap {"none", "absent", "unbound", "config"} = {} /\ MaxPosted \in Nat \ {0}

VARIABLES liberties,         \* what Android's order of callbacks allows, see MayAttach and onStop
          life,              \* where each host is in its lifecycle
          posted,            \* attach runnables onStart() has posted
          viewAttached,      \* hosts whose FlutterView is attached to the engine
          surfaceAvailable,  \* hosts whose SurfaceView has a Surface
          engineAlive,       \* the engine is in the cache
          rendererSurface,   \* FlutterRenderer::surface: the host whose Surface it is
          activity,          \* registry: the host attached as the Activity
          reattaching,       \* registry: isWaitingForActivityReattachment
          service,           \* registry: a Service is attached
          plugin,            \* each plugin's own view of its Activity
          served             \* plugins that hold a Service binding

registryVars == <<activity, reattaching, service, plugin, served>>
rendererVars == <<viewAttached, surfaceAvailable, rendererSurface>>
androidVars == <<liberties, life, posted, viewAttached, surfaceAvailable, engineAlive, rendererSurface,
                 activity, reattaching, service, plugin, served>>

AndroidTypeOK ==
    /\ liberties \subseteq {"overlap", "overtake"}
    /\ life \in [Hosts -> {"new", "created", "started", "resumed", "gone"}]
    /\ posted \in [Hosts -> 0 .. MaxPosted]
    /\ viewAttached \subseteq Hosts /\ surfaceAvailable \subseteq Hosts
    /\ rendererSurface \in Hosts \cup {"none"}
    /\ activity \in Hosts \cup {"none"}
    /\ {engineAlive, reattaching, service} \subseteq BOOLEAN
    /\ plugin \in [Plugins -> Hosts \cup {"absent", "unbound", "config"}]
    /\ served \subseteq Plugins

AndroidInitOf(l) ==
    /\ liberties = l
    /\ life = [h \in Hosts |-> "new"] /\ posted = [h \in Hosts |-> 0]
    /\ viewAttached = {} /\ surfaceAvailable = {} /\ rendererSurface = "none"
    /\ engineAlive = TRUE
    /\ activity = "none" /\ reattaching = FALSE /\ service = FALSE
    /\ plugin = [p \in Plugins |-> "absent"] /\ served = {}

AndroidInit == \E l \in SUBSET {"overlap", "overtake"} : AndroidInitOf(l)

Alive(h) == life[h] \notin {"new", "gone"}
Added == {p \in Plugins : plugin[p] # "absent"}

-----------------------------------------------------------------------------
(* FlutterEnginePluginRegistry.                                            *)

\* What a plugin knows of its Activity after all present ones were told s.
Told(s) == [p \in Plugins |-> IF p \in Added THEN s ELSE "absent"]

add(p) ==
    /\ engineAlive /\ plugin[p] = "absent"
    /\ plugin' = [plugin EXCEPT ![p] = IF activity # "none" THEN activity ELSE "unbound"]
    /\ served' = IF service THEN served \cup {p} ELSE served
    /\ UNCHANGED <<liberties, life, posted, rendererVars, engineAlive, activity, reattaching,
                   service>>

remove(p) ==
    /\ engineAlive /\ p \in Added
    /\ plugin' = [plugin EXCEPT ![p] = "absent"]
    /\ served' = served \ {p}
    /\ UNCHANGED <<liberties, life, posted, rendererVars, engineAlive, activity, reattaching,
                   service>>

\* Detaches from what the registry is attached to and attaches to h; the
\* plugins are told onAttachedToActivity or onReattached..., with the same
\* binding.
attachToActivity(h) ==
    /\ service' = IF activity # "none" THEN service ELSE FALSE
    /\ served' = IF activity # "none" THEN served ELSE {}
    /\ activity' = h /\ plugin' = Told(h) /\ reattaching' = FALSE

detachFromActivityForConfigChanges ==
    /\ activity' = "none"
    /\ plugin' = IF activity # "none" THEN Told("config") ELSE plugin
    /\ reattaching' = (reattaching \/ activity # "none")
    /\ UNCHANGED <<service, served>>

detachFromActivity ==
    /\ activity' = "none"
    /\ plugin' = IF activity # "none" THEN Told("unbound") ELSE plugin
    /\ UNCHANGED <<reattaching, service, served>>

attachToService ==
    /\ engineAlive
    /\ activity' = "none"
    /\ plugin' = IF activity # "none" THEN Told("unbound") ELSE plugin
    /\ service' = TRUE /\ served' = Added
    /\ UNCHANGED <<liberties, life, posted, rendererVars, engineAlive, reattaching>>

detachFromService ==
    /\ engineAlive /\ service
    /\ service' = FALSE /\ served' = {}
    /\ UNCHANGED <<liberties, life, posted, rendererVars, engineAlive, activity, reattaching,
                   plugin>>

\* destroy(): detachFromAndroidComponent() and removeAll().
DestroyRegistry ==
    /\ activity' = "none" /\ service' = FALSE /\ served' = {}
    /\ plugin' = [p \in Plugins |-> "absent"]
    /\ UNCHANGED reattaching

-----------------------------------------------------------------------------
(* FlutterView, FlutterSurfaceView and FlutterRenderer.                    *)

\* As attachToRenderer() would be if it waited for surfaceCreated().
attachToRendererLater(h) ==
    /\ viewAttached' = viewAttached \cup {h}
    /\ UNCHANGED <<surfaceAvailable, rendererSurface>>

\* attachToRenderer(): the renderer starts rendering to the Surface of h if
\* there is one, and stops rendering to any other.
attachToRenderer(h) ==
    /\ viewAttached' = viewAttached \cup {h}
    /\ rendererSurface' = IF h \in surfaceAvailable THEN h ELSE rendererSurface
    /\ UNCHANGED surfaceAvailable

attachToFlutterEngine(h) ==
    IF h \in viewAttached THEN UNCHANGED rendererVars ELSE attachToRenderer(h)

\* detachFromFlutterEngine() and detachFromRenderer(): the renderer stops
\* rendering, whichever Surface it renders to.
detachFromFlutterEngine(h) ==
    /\ viewAttached' = viewAttached \ {h}
    /\ rendererSurface' = IF h \in viewAttached THEN "none" ELSE rendererSurface
    /\ UNCHANGED surfaceAvailable

surfaceCreated(h) ==
    /\ life[h] \in {"started", "resumed"} /\ h \notin surfaceAvailable
    /\ surfaceAvailable' = surfaceAvailable \cup {h}
    /\ rendererSurface' = IF h \in viewAttached THEN h ELSE rendererSurface
    /\ UNCHANGED <<liberties, life, posted, viewAttached, engineAlive, registryVars>>

\* As surfaceDestroyed() would be if the renderer were told only on detaching.
surfaceDestroyedQuietly(h) ==
    /\ h \in surfaceAvailable
    /\ surfaceAvailable' = surfaceAvailable \ {h}
    /\ UNCHANGED <<liberties, life, posted, viewAttached, engineAlive, rendererSurface, registryVars>>

surfaceDestroyed(h) ==
    /\ h \in surfaceAvailable
    /\ surfaceAvailable' = surfaceAvailable \ {h}
    /\ rendererSurface' = IF h \in viewAttached THEN "none" ELSE rendererSurface
    /\ UNCHANGED <<liberties, life, posted, viewAttached, engineAlive, registryVars>>

-----------------------------------------------------------------------------
(* FlutterActivityAndFragmentDelegate.                                     *)

\* Two hosts of the engine live at the same time only with this liberty:
\* Android starts a second Activity before it stops the first.
MayAttach(h) == "overlap" \in liberties \/ \A g \in Hosts \ {h} : ~Alive(g)

\* onAttach(): throws if the cached engine is gone.
onAttach(h) ==
    /\ engineAlive /\ life[h] = "new" /\ MayAttach(h)
    /\ life' = [life EXCEPT ![h] = "created"]
    /\ attachToActivity(h)
    /\ UNCHANGED <<liberties, posted, rendererVars, engineAlive>>

onStart(h) ==
    /\ life[h] = "created" /\ posted[h] < MaxPosted
    /\ life' = [life EXCEPT ![h] = "started"]
    /\ posted' = [posted EXCEPT ![h] = @ + 1]
    /\ UNCHANGED <<liberties, rendererVars, engineAlive, registryVars>>

\* The runnable onStart() posted.  (A cached engine runs Dart already.)
RunAttach(h) ==
    /\ engineAlive /\ posted[h] > 0
    /\ posted' = [posted EXCEPT ![h] = @ - 1]
    /\ attachToFlutterEngine(h)
    /\ UNCHANGED <<liberties, life, engineAlive, registryVars>>

onResume(h) ==
    /\ life[h] = "started"
    /\ life' = [life EXCEPT ![h] = "resumed"]
    /\ UNCHANGED <<liberties, posted, rendererVars, engineAlive, registryVars>>

onPause(h) ==
    /\ life[h] = "resumed"
    /\ life' = [life EXCEPT ![h] = "started"]
    /\ UNCHANGED <<liberties, posted, rendererVars, engineAlive, registryVars>>

\* onStop() comes after the runnable of onStart(), which was posted to the
\* same queue, unless Android had queued the stop already.
onStop(h) ==
    /\ life[h] = "started" /\ (posted[h] = 0 \/ "overtake" \in liberties)
    /\ life' = [life EXCEPT ![h] = "created"]
    /\ detachFromFlutterEngine(h)
    /\ UNCHANGED <<liberties, posted, engineAlive, registryVars>>

\* onDetach(), after onDestroyView(): the host is destroyed, for a change of
\* configuration or not, and takes the engine with it if it is so configured.
onDetach(h) ==
    /\ life[h] = "created" /\ posted[h] = 0
    /\ life' = [life EXCEPT ![h] = "gone"]
    /\ \/ detachFromActivityForConfigChanges /\ UNCHANGED engineAlive
       \/ detachFromActivity /\ UNCHANGED engineAlive
       \/ DestroyRegistry /\ engineAlive' = FALSE
    /\ UNCHANGED <<liberties, posted, rendererVars>>

\* Android makes a new instance of a host that is gone.
Recreate(h) ==
    /\ engineAlive /\ life[h] = "gone" /\ h \notin surfaceAvailable /\ h \notin viewAttached
    /\ life' = [life EXCEPT ![h] = "new"]
    /\ UNCHANGED <<liberties, posted, rendererVars, engineAlive, registryVars>>

AndroidNext ==
    \/ \E h \in Hosts :
         \/ engineAlive /\ (onAttach(h) \/ onStart(h) \/ RunAttach(h) \/ onResume(h)
                              \/ onPause(h) \/ onStop(h) \/ onDetach(h))
         \/ surfaceCreated(h) \/ surfaceDestroyed(h) \/ Recreate(h)
    \/ \E p \in Plugins : add(p) \/ remove(p)
    \/ attachToService \/ detachFromService

\* The main looper runs what is posted to it.
AndroidFairness == \A h \in Hosts : WF_androidVars(RunAttach(h))

AndroidSpec == AndroidInit /\ [][AndroidNext]_androidVars /\ AndroidFairness

-----------------------------------------------------------------------------
\* The renderer never renders to a Surface that is gone, or to that of a view
\* that was detached, in whatever order hosts start, stop and lose their
\* Surfaces (FlutterSurfaceView.surfaceDestroyed, FlutterView.detachFromFlutterEngine).
NoStaleSurface == rendererSurface # "none" => rendererSurface \in surfaceAvailable /\ rendererSurface \in viewAttached

\* When hosts follow one another, a view that is attached to the engine and
\* has a Surface is the one the renderer draws to: it does not matter which
\* of the two came first, nor what the view of an earlier host does later.
VisibleIsRendered == liberties = {} => \A h \in surfaceAvailable \cap viewAttached : rendererSurface = h

\* Each plugin's own view agrees with the registry: it holds the binding of
\* the attached Activity and no other, it holds a Service binding just while
\* a Service is attached, never both, and one told to wait through a change
\* of configuration is waited for (FlutterEnginePluginRegistry).
BindingsMatch ==
    /\ ~(activity # "none" /\ service)
    /\ served = IF service THEN Added ELSE {}
    /\ \A p \in Added :
         /\ activity # "none" => plugin[p] = activity
         /\ activity = "none" => plugin[p] \in {"unbound", "config"}
         /\ plugin[p] = "config" => reattaching

\* A host in the foreground that has a Surface is drawn to in the end, when
\* hosts follow one another: the runnable onStart() posted attaches its view
\* even if the Surface came first.
ForegroundRendered ==
    \A h \in Hosts :
        (liberties = {} /\ h \in surfaceAvailable /\ life[h] = "resumed")
            ~> (rendererSurface = h \/ h \notin surfaceAvailable \/ life[h] # "resumed" \/ ~engineAlive)

\* The Android embedding's renderer, views and plugins agree on the host they
\* belong to, through the life cycles of the activities.
EmbeddingSafe == AndroidTypeOK /\ NoStaleSurface /\ VisibleIsRendered /\ BindingsMatch
=============================================================================
