---------------------------- MODULE RasterCache ----------------------------
(***************************************************************************)
(* The raster cache (flow/raster_cache.cc and .h).  In the preroll of a    *)
(* frame every picture and every layer that wants to be cached is          *)
(* prepared; a picture is rasterised once it has been prepared in          *)
(* AccessThreshold frames in a row, at most LimitPerFrame of them in a     *)
(* frame, and after the frame what was not prepared is dropped.  A key, an *)
(* id and a matrix, is an element of Pictures or Layers.                   *)
(***************************************************************************)
EXTENDS Naturals, FiniteSets, Sequences, SequencesExt

CONSTANTS Pictures, Layers,   \* what the frames may hold
          Unworthy,           \* pictures that change, are simple, or cannot be drawn
          AccessThreshold,    \* access_threshold_
          LimitPerFrame,      \* picture_cache_limit_per_frame_
          MaxItems,           \* bound on the items of a frame
          MaxRasterFailures   \* bound on the surfaces that cannot be made

ASSUME RasterCacheAssumption ==
    /\ AccessThreshold \in Nat \ {0} /\ LimitPerFrame \in Nat \ {0}
    /\ Unworthy \subseteq Pictures /\ Pictures \cap Layers = {}

Items == Pictures \cup Layers

VARIABLES cache,           \* picture_cache_ and layer_cache_: the entries
          cachedThisFrame, \* picture_cached_this_frame_
          inFrame,         \* between the preroll and the sweep
          scene,           \* the items of the frame, in the order of the preroll
          todo,            \* those not prepared yet
          static,          \* the scene does not change any more
          inARow,          \* the frames in a row that hold the item
          refused,         \* pictures of this frame met after the limit was reached
          rasterFailures

cacheVars == <<cache, cachedThisFrame, inFrame, scene, todo, static, inARow, refused, rasterFailures>>

Entry == [count : 0..AccessThreshold, used : BOOLEAN, image : BOOLEAN]
NewEntry == [count |-> 0, used |-> FALSE, image |-> FALSE]
NoEntries == [k \in {} |-> NewEntry]

CacheTypeOK ==
    /\ DOMAIN cache \subseteq Items /\ \A k \in DOMAIN cache : cache[k] \in Entry
    /\ cachedThisFrame \in 0..LimitPerFrame
    /\ ToSet(scene) \subseteq Items /\ IsSuffix(todo, scene)
    /\ inFrame \in BOOLEAN /\ static \in BOOLEAN
    /\ inARow \in [Items -> 0..AccessThreshold]
    /\ refused \subseteq Pictures /\ rasterFailures \in 0..MaxRasterFailures

CacheInit ==
    /\ cache = NoEntries /\ cachedThisFrame = 0
    /\ inFrame = FALSE /\ scene = <<>> /\ todo = <<>> /\ static = FALSE
    /\ inARow = [i \in Items |-> 0] /\ refused = {} /\ rasterFailures = 0

CountedTo(limit, n) == IF n < limit THEN n + 1 ELSE limit

\* The entry operator[] finds or makes, counted and marked as used.
Accessed(k) ==
    [(IF k \in DOMAIN cache THEN cache[k] ELSE NewEntry)
        EXCEPT !.count = CountedTo(AccessThreshold, @), !.used = TRUE]

Put(k, e) == cache' = [i \in DOMAIN cache \cup {k} |-> IF i = k THEN e ELSE cache[i]]

Cached == {k \in DOMAIN cache : cache[k].image}

\* The preroll of a frame, another one or the same again.
BeginPreroll(items) ==
    /\ ~inFrame /\ inFrame' = TRUE
    /\ static => items = scene
    /\ scene' = items /\ todo' = items
    /\ inARow' = [i \in Items |-> IF i \in ToSet(items) THEN CountedTo(AccessThreshold, inARow[i]) ELSE 0]
    /\ refused' = {} /\ UNCHANGED <<cache, cachedThisFrame, static, rasterFailures>>

\* From here on the scene stays as it is.
Settle == /\ ~inFrame /\ ~static /\ scene # <<>> /\ static' = TRUE
          /\ UNCHANGED <<cache, cachedThisFrame, inFrame, scene, todo, inARow, refused, rasterFailures>>

NextPicture == inFrame /\ todo # <<>> /\ Head(todo) \in Pictures /\ todo' = Tail(todo)

\* Prepare of a picture: nothing at all once the limit is reached or if it is
\* not worth it; otherwise it is counted, and rasterised at the threshold.
PreparePicture ==
    /\ NextPicture
    /\ LET p == Head(todo)
           e == Accessed(p)
       IN  \/ /\ cachedThisFrame >= LimitPerFrame /\ refused' = refused \cup {p}
              /\ UNCHANGED <<cache, cachedThisFrame, rasterFailures>>
           \/ /\ cachedThisFrame < LimitPerFrame /\ p \in Unworthy
              /\ UNCHANGED <<cache, cachedThisFrame, rasterFailures, refused>>
           \/ /\ cachedThisFrame < LimitPerFrame /\ p \notin Unworthy
              /\ e.count < AccessThreshold \/ e.image
              /\ Put(p, e) /\ UNCHANGED <<cachedThisFrame, rasterFailures, refused>>
           \/ /\ cachedThisFrame < LimitPerFrame /\ p \notin Unworthy
              /\ e.count = AccessThreshold /\ ~e.image
              /\ cachedThisFrame' = cachedThisFrame + 1
              /\ \/ Put(p, [e EXCEPT !.image = TRUE]) /\ UNCHANGED rasterFailures
                 \/ /\ rasterFailures < MaxRasterFailures /\ Put(p, e)
                    /\ rasterFailures' = rasterFailures + 1
              /\ UNCHANGED refused
    /\ UNCHANGED <<inFrame, scene, static, inARow>>

\* Prepare of a layer: rasterised at once.
PrepareLayer ==
    /\ inFrame /\ todo # <<>> /\ Head(todo) \in Layers /\ todo' = Tail(todo)
    /\ LET e == Accessed(Head(todo)) IN
       \/ Put(Head(todo), [e EXCEPT !.image = TRUE]) /\ UNCHANGED rasterFailures
       \/ /\ ~e.image /\ rasterFailures < MaxRasterFailures
          /\ Put(Head(todo), e) /\ rasterFailures' = rasterFailures + 1
    /\ UNCHANGED <<cachedThisFrame, inFrame, scene, static, inARow, refused>>

\* Mutant: the marks of the last frame are left.
SweepKeepsMarks ==
    /\ inFrame /\ todo = <<>> /\ inFrame' = FALSE
    /\ cache' = [k \in {i \in DOMAIN cache : cache[i].used} |-> cache[k]]
    /\ cachedThisFrame' = 0
    /\ UNCHANGED <<scene, todo, static, inARow, refused, rasterFailures>>

\* Mutant: the number of pictures cached is not reset.
SweepKeepsLimit ==
    /\ inFrame /\ todo = <<>> /\ inFrame' = FALSE
    /\ cache' = [k \in {i \in DOMAIN cache : cache[i].used} |-> [cache[k] EXCEPT !.used = FALSE]]
    /\ UNCHANGED <<cachedThisFrame, scene, todo, static, inARow, refused, rasterFailures>>

\* SweepAfterFrame, at the end of every frame.
SweepAfterFrame ==
    /\ inFrame /\ todo = <<>> /\ inFrame' = FALSE
    /\ cache' = [k \in {i \in DOMAIN cache : cache[i].used} |-> [cache[k] EXCEPT !.used = FALSE]]
    /\ cachedThisFrame' = 0
    /\ UNCHANGED <<scene, todo, static, inARow, refused, rasterFailures>>

\* Clear: the checkerboard is switched, or the GPU context goes.
ClearCache ==
    /\ ~inFrame /\ ~static /\ cache # NoEntries
    /\ cache' = NoEntries /\ inARow' = [i \in Items |-> 0]
    /\ UNCHANGED <<cachedThisFrame, inFrame, scene, todo, static, refused, rasterFailures>>

\* The scenes are the sequences of different items.
Scenes == UNION {SetToAllKPermutations(S) : S \in {T \in SUBSET Items : Cardinality(T) <= MaxItems}}

FrameStep == (\E items \in Scenes : BeginPreroll(items)) \/ PreparePicture \/ PrepareLayer \/ SweepAfterFrame

CacheNext == FrameStep \/ Settle \/ ClearCache

CacheFairness == WF_cacheVars(FrameStep)

CacheSpec == CacheInit /\ [][CacheNext]_cacheVars /\ CacheFairness

-----------------------------------------------------------------------------
\* A picture is cached only when the last AccessThreshold frames all held it:
\* the sweep forgets the count of a picture that skips a frame.
CachedAfterThreshold == ~inFrame => \A p \in Cached \cap Pictures : inARow[p] = AccessThreshold

\* Between the frames the cache holds nothing but items of the last frame.
NothingStale == ~inFrame => DOMAIN cache \subseteq ToSet(scene)

\* What is cached and drawn again stays cached, except a picture that the frame
\* meets after it has reached its limit: Prepare returns before it marks it.
KeptWhileDrawn == [][inFrame /\ ~inFrame' => (Cached \cap ToSet(scene)) \ refused \subseteq Cached']_cacheVars

\* A scene that stays as it is comes to be cached as a whole, however many
\* pictures it has: the limit distributes the work over the frames.
StaticSceneCached == static ~> (ToSet(scene) \ Unworthy \subseteq Cached)

\* RasterCache holds what was drawn often enough and in the last frame, only.
CacheSafe == CacheTypeOK /\ CachedAfterThreshold /\ NothingStale

\* What is drawn in every frame gets into the cache and stays there.
CacheServes == KeptWhileDrawn /\ StaticSceneCached
=============================================================================
