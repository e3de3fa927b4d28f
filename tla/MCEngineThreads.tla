-------------------------- MODULE MCEngineThreads --------------------------
(* The threads of the engine and what they hand each other, one component at *)
(* a time: `part' is the component whose steps a behaviour takes, the others *)
(* stay in their initial state.  The components share no state, so a product *)
(* of them would only multiply the states of each by those of the others.    *)
EXTENDS MCShellThreads, ConcurrentMessageLoop, WaitableEvents, MessageLoops,
        DartVMLifecycle, ShellFrames, ImageDecoding, AnimatedImage, ShellCreation

VARIABLE part

Parts == {"pool", "event", "loops", "vm", "shell", "report", "image",
          "animation", "creation"}

\* Every way to share threads among the four task runners.
EveryConfig ==
    {c \in [Owners -> Threads] :
        /\ c["platform"] = t1
        /\ c["ui"] \in {t1, t2}
        /\ c["gpu"] \in {t1, c["ui"], t3}
        /\ c["io"] \in {t1, c["ui"], c["gpu"], t4}}

Init ==
    /\ part \in Parts
    /\ PoolInit /\ VMInit /\ ReportInit /\ ImageInit
    /\ IF part = "event" THEN EventInit ELSE EventInitOf("auto")
    /\ IF part = "loops" THEN LoopsInit ELSE LoopsInitOf("other")
    /\ IF part = "animation" THEN AnimationInit ELSE AnimationInitOf({}, {})
    /\ IF part = "creation" THEN CreationInit ELSE CreationInitOf(AllThreadsDiffer)
    /\ ShellInit /\ (part # "shell" => thread = AllThreadsDiffer)

Next ==
    \/ /\ part = "pool" /\ PoolNext
       /\ UNCHANGED <<part, eventVars, loopVars, vmVars, shellVars, reportVars,
                      imageVars, animationVars, creationVars>>
    \/ /\ part = "event" /\ EventNext
       /\ UNCHANGED <<part, poolVars, loopVars, vmVars, shellVars, reportVars,
                      imageVars, animationVars, creationVars>>
    \/ /\ part = "loops" /\ LoopsNext
       /\ UNCHANGED <<part, poolVars, eventVars, vmVars, shellVars, reportVars,
                      imageVars, animationVars, creationVars>>
    \/ /\ part = "vm" /\ VMNext
       /\ UNCHANGED <<part, poolVars, eventVars, loopVars, shellVars, reportVars,
                      imageVars, animationVars, creationVars>>
    \/ /\ part = "shell" /\ ShellNext
       /\ UNCHANGED <<part, poolVars, eventVars, loopVars, vmVars, reportVars,
                      imageVars, animationVars, creationVars>>
    \/ /\ part = "report" /\ ReportNext
       /\ UNCHANGED <<part, poolVars, eventVars, loopVars, vmVars, shellVars,
                      imageVars, animationVars, creationVars>>
    \/ /\ part = "image" /\ ImageNext
       /\ UNCHANGED <<part, poolVars, eventVars, loopVars, vmVars, shellVars,
                      reportVars, animationVars, creationVars>>
    \/ /\ part = "animation" /\ AnimationNext
       /\ UNCHANGED <<part, poolVars, eventVars, loopVars, vmVars, shellVars,
                      reportVars, imageVars, creationVars>>
    \/ /\ part = "creation" /\ CreationNext
       /\ UNCHANGED <<part, poolVars, eventVars, loopVars, vmVars, shellVars,
                      reportVars, imageVars, animationVars>>

vars == <<part, poolVars, eventVars, loopVars, vmVars, shellVars, reportVars,
          imageVars, animationVars, creationVars>>

\* The fairness of each component, in the behaviours that take its steps.
Fairness ==
    /\ \A w \in Workers : WF_poolVars(part = "pool" /\ ~Aborted /\ WorkerStep(w))
    /\ \A p \in Posters : WF_poolVars(part = "pool" /\ ~Aborted /\ PosterStep(p))
    /\ WF_poolVars(part = "pool" /\ ~Aborted /\ DestroyerStep)
    /\ \A l \in Loops : WF_loopVars(part = "loops" /\ LoopStep(l))
    /\ WF_loopVars(part = "loops" /\ JoinStep)
    /\ \A p \in LoopPosters : WF_loopVars(part = "loops" /\ RegisterTask(p))
    /\ \A s \in Shells : WF_vmVars(part = "vm" /\ ShellStep(s))
    /\ \A v \in Instances : WF_vmVars(part = "vm" /\ ServiceStep(v))
    /\ \A t \in Threads : WF_shellVars(part = "shell" /\ ThreadStep(t))
    /\ WF_shellVars(part = "shell" /\ HandleMessageReturns)
    /\ WF_shellVars(part = "shell" /\ RemoveHandler)
    /\ WF_reportVars(part = "report" /\ AfterDraw)
    /\ WF_reportVars(part = "report" /\ DeliverTimings)
    /\ WF_reportVars(part = "report" /\ ReportScheduledTimings)
    /\ \A i \in Images : WF_imageVars(part = "image" /\ DecodeStep(i))
    /\ WF_imageVars(part = "image" /\ DrainStep)
    /\ WF_animationVars(part = "animation" /\ IOThreadStep)
    /\ WF_animationVars(part = "animation" /\ InvokeCallback)
    /\ WF_creationVars(part = "creation" /\ CreationStep)
    /\ \A t \in Threads : WF_creationVars(part = "creation" /\ RunPostedTask(t))

Spec == Init /\ [][Next]_vars /\ Fairness
=============================================================================
