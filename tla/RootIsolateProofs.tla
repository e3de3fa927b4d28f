------------------------- MODULE RootIsolateProofs -------------------------
(***************************************************************************)
(* The invariants of RootIsolate for any lists of kernel pieces, window    *)
(* states and children and any number of runs and restarts.                *)
(***************************************************************************)
EXTENDS RootIsolate, TLAPS

\* A record with the fields of an isolate, whatever their values.
IsIsolate(s) ==
    s = [phase |-> s.phase, buffers |-> s.buffers, loaded |-> s.loaded,
         loadFailed |-> s.loadFailed, preparer |-> s.preparer, mains |-> s.mains,
         created |-> s.created, ended |-> s.ended, callback |-> s.callback,
         window |-> s.window]

\* The counts of an isolate in each of its phases.
Counted(s) ==
    /\ s.phase \in {"none", "LibrariesSetup", "Ready", "Running", "Collected"}
    /\ s.mains \in 0..1 /\ s.created \in 0..1 /\ s.ended \in 0..1
    /\ s.phase \in {"none", "LibrariesSetup"} => s.mains = 0 /\ s.created = 0
    /\ s.phase = "Collected" => s.ended = s.created /\ ~s.callback
    /\ s.phase # "Collected" => s.ended = 0 /\ (s.callback <=> s.created = 1)

\* An isolate that Engine::Run has not run yet.
Unrun(s) ==
    /\ s.phase \in {"LibrariesSetup", "Ready"}
    /\ s.mains = 0 /\ s.created = 0 /\ s.ended = 0 /\ ~s.callback

\* What preparing an isolate leaves as it was.
Prepared(s, t) ==
    /\ IsIsolate(t) /\ t.phase \in {s.phase, "Ready"}
    /\ t.mains = s.mains /\ t.created = s.created /\ t.ended = s.ended
    /\ t.callback = s.callback /\ t.window = s.window

CurrentInv ==
    /\ runs \in 0..MaxRuns /\ current \in 0..(runs + 1)
    /\ DOMAIN isolate = Controllers /\ isolate = [g \in Controllers |-> isolate[g]]
    /\ \A g \in Controllers : IsIsolate(isolate[g]) /\ Counted(isolate[g])

IsolateInv == CurrentInv /\ WindowUpToDate

-----------------------------------------------------------------------------
\* LoadedSoFar changes what is loaded and nothing else.
LEMMA LoadedPrepared ==
    ASSUME NEW s, IsIsolate(s), NEW pieces, NEW n, NEW failing
    PROVE  /\ Prepared(s, LoadedSoFar(s, pieces, n, failing))
           /\ LoadedSoFar(s, pieces, n, failing).phase = s.phase
<1> DEFINE t == LoadedSoFar(s, pieces, n, failing)
<1> DEFINE b == s.buffers \o SubSeq(pieces, 1, IF failing THEN n + 1 ELSE n)
<1> DEFINE l == s.loaded \o SubSeq(pieces, 1, n)
<1> DEFINE f == s.loadFailed \/ failing
<1>1. t = [s EXCEPT !.buffers = b, !.loaded = l, !.loadFailed = f]
    BY DEF LoadedSoFar
<1> HIDE DEF t, b, l, f
<1>2. t = [phase |-> s.phase, buffers |-> b, loaded |-> l, loadFailed |-> f,
           preparer |-> s.preparer, mains |-> s.mains, created |-> s.created,
           ended |-> s.ended, callback |-> s.callback, window |-> s.window]
    BY <1>1 DEF IsIsolate
<1>3. Prepared(s, t) /\ t.phase = s.phase
    BY <1>2 DEF Prepared, IsIsolate
<1>. QED
    BY <1>3 DEF t

\* Setting the phase and the preparer prepares too.
LEMMA ReadyPrepared ==
    ASSUME NEW s, NEW a, Prepared(s, a), NEW q
    PROVE  Prepared(s, [a EXCEPT !.phase = "Ready", !.preparer = q])
<1> DEFINE t == [a EXCEPT !.phase = "Ready", !.preparer = q]
<1>0. IsIsolate(a)
    BY DEF Prepared
<1>5. t = [a EXCEPT !.phase = "Ready", !.preparer = q]
    OBVIOUS
<1> HIDE DEF t
<1>1. t = [phase |-> "Ready", buffers |-> a.buffers, loaded |-> a.loaded,
           loadFailed |-> a.loadFailed, preparer |-> q, mains |-> a.mains,
           created |-> a.created, ended |-> a.ended, callback |-> a.callback,
           window |-> a.window]
    BY <1>0, <1>5 DEF IsIsolate
<1>2. Prepared(s, t)
    BY <1>1 DEF Prepared, IsIsolate
<1>. QED
    BY <1>2 DEF t

\* IsolateConfiguration::PrepareIsolate, whichever piece fails.
LEMMA PreparePrepared ==
    ASSUME NEW s, IsIsolate(s), NEW configuration, NEW t \in PrepareIsolate(s, configuration)
    PROVE  Prepared(s, t)
<1>1. Prepared(s, s)
    BY DEF Prepared
<1>2. CASE configuration = Snapshot
  <2>1. Prepared(s, [s EXCEPT !.phase = "Ready", !.preparer = Snapshot])
    BY <1>1, ReadyPrepared
  <2>2. t = s \/ t = [s EXCEPT !.phase = "Ready", !.preparer = Snapshot]
    BY <1>2 DEF PrepareIsolate, PrepareFromPrecompiledCode
  <2>. QED
    BY <1>1, <2>1, <2>2
<1>3. CASE configuration # Snapshot /\ aot
    BY <1>1, <1>3 DEF PrepareIsolate
<1>4. CASE configuration # Snapshot /\ ~aot
  <2> DEFINE all == LoadedSoFar(s, configuration, Len(configuration), FALSE)
             q == IF all.preparer = NoPreparer THEN all.buffers ELSE all.preparer
  <2>1. Prepared(s, all)
    BY LoadedPrepared
  <2>2. t \in PrepareFromKernels(s, configuration)
    BY <1>4 DEF PrepareIsolate
  <2>3. \/ t = s \/ t = all
        \/ t = [all EXCEPT !.phase = "Ready", !.preparer = q]
        \/ \E n \in 0..(Len(configuration) - 1), failing \in BOOLEAN :
              t = LoadedSoFar(s, configuration, n, failing)
    <3> DEFINE ready == [all EXCEPT !.phase = "Ready", !.preparer = q]
               parts == {LoadedSoFar(s, configuration, n, failing) :
                            n \in 0..(Len(configuration) - 1), failing \in BOOLEAN}
    <3>1. PrepareFromKernels(s, configuration)
            = IF configuration = <<>> THEN {s} ELSE {ready, all} \cup parts
      BY DEF PrepareFromKernels
    <3> HIDE DEF all, ready, parts
    <3>2. t = s \/ t = ready \/ t = all \/ t \in parts
      BY <2>2, <3>1
    <3>. QED
      BY <3>2 DEF ready, parts
  <2> HIDE DEF all, q
  <2>4. Prepared(s, [all EXCEPT !.phase = "Ready", !.preparer = q])
    BY <2>1, ReadyPrepared
  <2>. QED
    BY <1>1, <2>1, <2>3, <2>4, LoadedPrepared
<1>. QED
    BY <1>2, <1>3, <1>4

\* DartIsolate::Run on an isolate that was not run before.
LEMMA RunMainCounted ==
    ASSUME NEW s, IsIsolate(s), Unrun(s), NEW t \in RunMain(s)
    PROVE  IsIsolate(t) /\ Counted(t) /\ t.phase # "Collected" /\ t.window = s.window
<1>1. CASE t = s
    BY <1>1 DEF Unrun, Counted
<1>2. CASE t = [s EXCEPT !.mains = @ + 1] /\ s.phase = "Ready"
  <2>1. t = [phase |-> s.phase, buffers |-> s.buffers, loaded |-> s.loaded,
             loadFailed |-> s.loadFailed, preparer |-> s.preparer, mains |-> s.mains + 1,
             created |-> s.created, ended |-> s.ended, callback |-> s.callback,
             window |-> s.window]
    BY <1>2 DEF IsIsolate
  <2>2. IsIsolate(t) /\ t.window = s.window
    BY <2>1 DEF IsIsolate
  <2>3. /\ t.phase = "Ready" /\ t.mains = 1 /\ t.created = 0 /\ t.ended = 0
        /\ t.callback = s.callback
    BY <1>2, <2>1 DEF Unrun
  <2>. QED
    BY <2>2, <2>3 DEF Counted, Unrun
<1>3. CASE t = [s EXCEPT !.mains = @ + 1, !.phase = "Running", !.created = @ + 1, !.callback = TRUE]
  <2>1. t = [phase |-> "Running", buffers |-> s.buffers, loaded |-> s.loaded,
             loadFailed |-> s.loadFailed, preparer |-> s.preparer, mains |-> s.mains + 1,
             created |-> s.created + 1, ended |-> s.ended, callback |-> TRUE,
             window |-> s.window]
    BY <1>3 DEF IsIsolate
  <2>2. IsIsolate(t) /\ t.window = s.window
    BY <2>1 DEF IsIsolate
  <2>3. /\ t.phase = "Running" /\ t.mains = 1 /\ t.created = 1 /\ t.ended = 0 /\ t.callback
    BY <2>1 DEF Unrun
  <2>. QED
    BY <2>2, <2>3 DEF Counted
<1>. QED
    BY <1>1, <1>2, <1>3 DEF RunMain

\* Engine::PrepareAndLaunchIsolate, on any isolate.
LEMMA LaunchCounted ==
    ASSUME NEW s, IsIsolate(s), Counted(s), NEW configuration,
           NEW t \in PrepareAndLaunchIsolate(s, configuration)
    PROVE  /\ IsIsolate(t) /\ Counted(t) /\ t.window = s.window
           /\ t.phase = "Collected" <=> s.phase = "Collected"
<1>1. CASE s.phase # "LibrariesSetup"
    BY <1>1 DEF PrepareAndLaunchIsolate
<1>2. CASE s.phase = "LibrariesSetup"
  <2>1. PICK a \in PrepareIsolate(s, configuration) : t \in RunMain(a)
    BY <1>2 DEF PrepareAndLaunchIsolate
  <2>2. Prepared(s, a)
    BY PreparePrepared
  <2>3. IsIsolate(a) /\ Unrun(a) /\ a.window = s.window
    BY <1>2, <2>2 DEF Prepared, Unrun, Counted
  <2>. QED
    BY <1>2, <2>1, <2>3, RunMainCounted
<1>. QED
    BY <1>1, <1>2

\* Dart_ShutdownIsolate fires the callbacks that are due, once.
LEMMA ShutdownCounted ==
    ASSUME NEW s, IsIsolate(s), Counted(s)
    PROVE  IsIsolate(ShutdownIsolate(s)) /\ Counted(ShutdownIsolate(s))
           /\ (s.phase # "none" => ShutdownIsolate(s).phase = "Collected")
<1> DEFINE t == ShutdownIsolate(s)
           ph == IF s.phase = "none" THEN s.phase ELSE "Collected"
           en == IF s.phase # "Collected" /\ s.callback THEN s.ended + 1 ELSE s.ended
<1>1. t = [s EXCEPT !.phase = ph, !.ended = en, !.callback = FALSE]
    BY DEF ShutdownIsolate
<1> HIDE DEF t, ph, en
<1>2. t = [phase |-> ph, buffers |-> s.buffers, loaded |-> s.loaded,
           loadFailed |-> s.loadFailed, preparer |-> s.preparer, mains |-> s.mains,
           created |-> s.created, ended |-> en, callback |-> FALSE, window |-> s.window]
    BY <1>1 DEF IsIsolate
<1>3. IsIsolate(t)
    BY <1>2 DEF IsIsolate
<1>4. /\ t.phase = ph /\ t.mains = s.mains /\ t.created = s.created /\ t.ended = en /\ ~t.callback
    BY <1>2
<1>5. Counted(t) /\ (s.phase # "none" => t.phase = "Collected")
  <2>1. CASE s.phase = "none"
    BY <1>4, <2>1 DEF Counted, ph, en
  <2>2. CASE s.phase = "Collected"
    BY <1>4, <2>2 DEF Counted, ph, en
  <2>3. CASE s.phase \notin {"none", "Collected"} /\ s.callback
    BY <1>4, <2>3 DEF Counted, ph, en
  <2>4. CASE s.phase \notin {"none", "Collected"} /\ ~s.callback
    BY <1>4, <2>4 DEF Counted, ph, en
  <2>. QED
    BY <2>1, <2>2, <2>3, <2>4
<1>. QED
    BY <1>3, <1>5 DEF t

-----------------------------------------------------------------------------
LEMMA NewIsolateCounted ==
    ASSUME NEW data
    PROVE  /\ IsIsolate(NewIsolate(data)) /\ Counted(NewIsolate(data))
           /\ NewIsolate(data).window = data /\ NewIsolate(data).phase # "Collected"
<1> DEFINE n == NoIsolate
           s == NewIsolate(data)
<1>0. IsIsolate(n) /\ n.mains = 0 /\ n.created = 0 /\ n.ended = 0 /\ ~n.callback
    BY DEF NoIsolate, IsIsolate
<1>5. s = [n EXCEPT !.phase = "LibrariesSetup", !.window = data]
    BY DEF NewIsolate
<1> HIDE DEF n, s
<1>1. s = [phase |-> "LibrariesSetup", buffers |-> n.buffers, loaded |-> n.loaded,
           loadFailed |-> n.loadFailed, preparer |-> n.preparer, mains |-> n.mains,
           created |-> n.created, ended |-> n.ended, callback |-> n.callback, window |-> data]
    BY <1>0, <1>5 DEF IsIsolate
<1>2. IsIsolate(s)
    BY <1>1 DEF IsIsolate
<1>3. /\ s.phase = "LibrariesSetup" /\ s.mains = 0 /\ s.created = 0 /\ s.ended = 0
      /\ ~s.callback /\ s.window = data
    BY <1>0, <1>1
<1>4. Counted(s)
    BY <1>3 DEF Counted
<1>. QED
    BY <1>2, <1>3, <1>4 DEF s

LEMMA RootInitHolds == IsolateInit => IsolateInv
<1> SUFFICES ASSUME IsolateInit PROVE IsolateInv
    OBVIOUS
<1>1. IsIsolate(NoIsolate) /\ Counted(NoIsolate)
    BY DEF NoIsolate, IsIsolate, Counted
<1>2. 1 \in Controllers
    BY MaxRunsAssumption DEF Controllers
<1>3. \A g \in Controllers : isolate[g] = IF g = 1 THEN NewIsolate(DefaultWindow) ELSE NoIsolate
    BY DEF IsolateInit
<1>4. CurrentInv
    BY <1>1, <1>3, NewIsolateCounted, MaxRunsAssumption DEF IsolateInit, CurrentInv
<1>5. WindowUpToDate
    BY <1>2, <1>3, NewIsolateCounted DEF IsolateInit, WindowUpToDate
<1>. QED
    BY <1>4, <1>5 DEF IsolateInv

\* One isolate is replaced by one with the right counts.
LEMMA ReplaceStep ==
    ASSUME CurrentInv, NEW g \in Controllers, NEW s, IsIsolate(s), Counted(s),
           isolate' = [isolate EXCEPT ![g] = s],
           runs' \in 0..MaxRuns, current' \in 0..(runs' + 1)
    PROVE  CurrentInv' /\ isolate'[g] = s
<1>1. /\ DOMAIN isolate' = Controllers /\ isolate' = [h \in Controllers |-> isolate'[h]]
      /\ \A h \in Controllers : isolate'[h] = IF h = g THEN s ELSE isolate[h]
    BY DEF CurrentInv
<1>. QED
    BY <1>1 DEF CurrentInv

LEMMA RunStep == ASSUME IsolateInv, NEW configuration, Run(configuration) PROVE IsolateInv'
<1> USE DEF IsolateInv
<1>1. current \in Controllers
    BY MaxRunsAssumption DEF Run, CurrentInv, Controllers
<1>2. PICK s \in PrepareAndLaunchIsolate(isolate[current], configuration) :
          isolate' = [isolate EXCEPT ![current] = s]
    BY DEF Run
<1>3. /\ IsIsolate(s) /\ Counted(s) /\ s.window = isolate[current].window
      /\ s.phase = "Collected" <=> isolate[current].phase = "Collected"
    BY <1>1, <1>2, LaunchCounted DEF CurrentInv
<1>4. runs' \in 0..MaxRuns /\ current' \in 0..(runs' + 1)
    BY MaxRunsAssumption DEF Run, CurrentInv
<1>5. CurrentInv' /\ isolate'[current] = s
    BY <1>1, <1>2, <1>3, <1>4, ReplaceStep
<1>6. WindowUpToDate'
  <2>1. current # 0 /\ current' = current /\ windowData' = windowData
    BY DEF Run
  <2>2. s.phase # "Collected" => s.window = windowData
    BY <1>3, <2>1 DEF WindowUpToDate
  <2>. QED
    BY <1>5, <2>1, <2>2 DEF WindowUpToDate
<1>. QED
    BY <1>5, <1>6

LEMMA RestartStep == ASSUME IsolateInv, NEW configuration, Restart(configuration) PROVE IsolateInv'
<1> USE DEF IsolateInv
<1>1. current \in Controllers /\ current + 1 \in Controllers /\ current + 1 # current
    BY MaxRunsAssumption DEF Restart, CurrentInv, Controllers
<1>2. PICK s \in PrepareAndLaunchIsolate(NewIsolate(windowData), configuration) :
          isolate' = [isolate EXCEPT ![current] = ShutdownIsolate(@), ![current + 1] = s]
    BY DEF Restart
<1>3. IsIsolate(s) /\ Counted(s) /\ s.window = windowData
    BY <1>2, LaunchCounted, NewIsolateCounted
<1>4. IsIsolate(ShutdownIsolate(isolate[current])) /\ Counted(ShutdownIsolate(isolate[current]))
    BY <1>1, ShutdownCounted DEF CurrentInv
<1>5. /\ DOMAIN isolate' = Controllers /\ isolate' = [h \in Controllers |-> isolate'[h]]
      /\ isolate'[current + 1] = s
      /\ isolate'[current] = ShutdownIsolate(isolate[current])
      /\ \A h \in Controllers \ {current, current + 1} : isolate'[h] = isolate[h]
    BY <1>1, <1>2 DEF CurrentInv
<1>6. current' = current + 1 /\ runs' = runs + 1 /\ runs < MaxRuns /\ windowData' = windowData
    BY DEF Restart
<1>7. CurrentInv'
    BY <1>3, <1>4, <1>5, <1>6, MaxRunsAssumption DEF CurrentInv
<1>8. WindowUpToDate'
    BY <1>3, <1>5, <1>6 DEF WindowUpToDate
<1>. QED
    BY <1>7, <1>8

LEMMA SetWindowDataStep ==
    ASSUME IsolateInv, NEW data, SetWindowData(data) PROVE IsolateInv'
<1> USE DEF IsolateInv
<1>1. current \in Controllers /\ windowData' = data /\ UNCHANGED <<runs, current>>
    BY MaxRunsAssumption DEF SetWindowData, CurrentInv, Controllers
<1>2. CASE isolate[current].phase = "Collected"
    BY <1>1, <1>2 DEF SetWindowData, CurrentInv, WindowUpToDate
<1>3. CASE isolate[current].phase # "Collected"
  <2> DEFINE s == isolate[current]
             t == [s EXCEPT !.window = data]
  <2>1. isolate' = [isolate EXCEPT ![current] = t]
    BY <1>1, <1>3 DEF SetWindowData, CurrentInv
  <2>2. IsIsolate(s) /\ Counted(s)
    BY <1>1 DEF CurrentInv
  <2>5. t = [s EXCEPT !.window = data]
    OBVIOUS
  <2> HIDE DEF s, t
  <2>3. t = [phase |-> s.phase, buffers |-> s.buffers, loaded |-> s.loaded,
             loadFailed |-> s.loadFailed, preparer |-> s.preparer, mains |-> s.mains,
             created |-> s.created, ended |-> s.ended, callback |-> s.callback,
             window |-> data]
    BY <2>2, <2>5 DEF IsIsolate
  <2>4. IsIsolate(t) /\ t.window = data
    BY <2>3 DEF IsIsolate
  <2>6. /\ t.phase = s.phase /\ t.mains = s.mains /\ t.created = s.created
        /\ t.ended = s.ended /\ t.callback = s.callback
    BY <2>3
  <2>7. Counted(t)
    BY <2>2, <2>6 DEF Counted
  <2>8. CurrentInv' /\ isolate'[current] = t
    BY <1>1, <2>1, <2>4, <2>7, ReplaceStep DEF CurrentInv
  <2>. QED
    BY <1>1, <2>4, <2>8 DEF WindowUpToDate
<1>. QED
    BY <1>2, <1>3

\* The isolate in use is shut down, by the Dart code or by ~Engine.
LEMMA ShutdownStep ==
    ASSUME IsolateInv, IsolateExits \/ DestroyIsolate PROVE IsolateInv'
<1> USE DEF IsolateInv
<1> DEFINE t == ShutdownIsolate(isolate[current])
<1>1. current \in Controllers
    BY MaxRunsAssumption DEF IsolateExits, DestroyIsolate, CurrentInv, Controllers
<1>2. isolate' = [isolate EXCEPT ![current] = t]
    BY <1>1 DEF IsolateExits, DestroyIsolate, CurrentInv
<1>3. IsIsolate(t) /\ Counted(t) /\ (isolate[current].phase # "none" => t.phase = "Collected")
    BY <1>1, ShutdownCounted DEF CurrentInv
<1>4. runs' = runs /\ (current' = 0 \/ (current' = current /\ isolate[current].phase = "Running"))
    BY DEF IsolateExits, DestroyIsolate
<1> HIDE DEF t
<1>5. runs' \in 0..MaxRuns /\ current' \in 0..(runs' + 1)
    BY <1>4 DEF CurrentInv
<1>6. CurrentInv' /\ isolate'[current] = t
    BY <1>1, <1>2, <1>3, <1>5, ReplaceStep
<1>. QED
    BY <1>3, <1>4, <1>6 DEF WindowUpToDate

LEMMA RootNextHolds == IsolateInv /\ [IsolateNext]_isolateVars => IsolateInv'
<1> SUFFICES ASSUME IsolateInv, [IsolateNext]_isolateVars PROVE IsolateInv'
    OBVIOUS
<1>1. CASE UNCHANGED <<isolate, current, runs, windowData>>
    BY <1>1 DEF IsolateInv, CurrentInv, WindowUpToDate
<1>2. (\E c \in Children : SpawnChild(c) \/ PrepareChild(c)) \/ UNCHANGED isolateVars
        => UNCHANGED <<isolate, current, runs, windowData>>
    BY DEF SpawnChild, PrepareChild, isolateVars
<1>. QED
    BY <1>1, <1>2, RunStep, RestartStep, SetWindowDataStep, ShutdownStep DEF IsolateNext

LEMMA RootInvariant == IsolateSpec => []IsolateInv
BY RootInitHolds, RootNextHolds, PTL DEF IsolateSpec

-----------------------------------------------------------------------------
\* RuntimeController tells every isolate it has in use the latest window data, over
\* any number of restarts.
THEOREM WindowsAreUpToDate == IsolateSpec => []WindowUpToDate
<1>1. IsolateInv => WindowUpToDate
    BY DEF IsolateInv
<1>. QED
    BY <1>1, RootInvariant, PTL

\* Engine::Run invokes the entry point of an isolate once at most.
THEOREM MainRunsAtMostOnce == IsolateSpec => []MainAtMostOnce
<1>1. IsolateInv => MainAtMostOnce
    BY DEF IsolateInv, CurrentInv, Counted, MainAtMostOnce
<1>. QED
    BY <1>1, RootInvariant, PTL

\* The root isolate's create and shutdown callbacks come in pairs.
THEOREM CallbacksComeInPairs == IsolateSpec => []CallbacksPaired
<1>1. IsolateInv => CallbacksPaired
    BY DEF IsolateInv, CurrentInv, Counted, CallbacksPaired
<1>. QED
    BY <1>1, RootInvariant, PTL

\* The root isolate over any number of runs and restarts.
THEOREM RootIsolateIsSafe == IsolateSpec => []IsolateSafe
    BY WindowsAreUpToDate, MainRunsAtMostOnce, CallbacksComeInPairs, PTL DEF IsolateSafe
=============================================================================
