--------------------------- MODULE ImageDecoding ---------------------------
(***************************************************************************)
(* An image on its way from Dart to the GPU and back:                      *)
(*   lib/ui/painting/single_frame_codec.cc  the calls of getNextFrame      *)
(*   lib/ui/painting/image_decoder.cc       decompressed by a worker,      *)
(*                                          uploaded on the IO thread      *)
(*   flow/skia_gpu_object.cc                unreferenced by any thread and *)
(*                                          released on the IO thread      *)
(*   shell/common/shell_io_manager.cc       the queue's last drain         *)
(*   fml/synchronization/sync_switch.cc     no GPU work in the background  *)
(* and the end of the shell: the engine goes on the UI thread, the IO      *)
(* manager on the IO thread, then both threads are joined (due tasks run,  *)
(* delayed ones are dropped).                                              *)
(***************************************************************************)
EXTENDS Integers

CONSTANTS Images,      \* one SingleFrameCodec each
          FrameCalls,  \* the calls of getNextFrame on each
          MaxSwitches  \* bound on the changes of the GPU switch

ASSUME MaxSwitchesAssumption == MaxSwitches \in Nat

VARIABLES codecStatus,       \* status_ of each codec
          pending,           \* pending_callbacks_
          frameAnswers,      \* the frames each call was answered with
          stage,             \* where the decoding of the image is
          result,            \* what it came to: a frame, or null
          object,            \* the SkiaGPUObject of the image
          drainPending,      \* drain_pending_
          drainTasks,        \* the delayed drains posted to the IO thread
          io,                \* the IO thread: idle, or inside an upload or a drain
          gpuDisabled,       \* the value of the SyncSwitch
          switches,
          engineUp,          \* the engine and its isolate exist
          ioManager,         \* exists, in its destructor, or gone
          uiEnded, ioEnded,  \* the threads have been joined
          late               \* the GPU was disabled in the last drain, or an object
                             \* unreferenced after it

imageVars == <<codecStatus, pending, frameAnswers, stage, result, object, drainPending, drainTasks, io,
               gpuDisabled, switches, engineUp, ioManager, uiEnded, ioEnded, late>>

codecVars == <<codecStatus, pending, frameAnswers>>
queueVars == <<object, drainPending, drainTasks, late>>
lifeVars == <<gpuDisabled, switches, engineUp, ioManager, uiEnded, ioEnded>>

ImageTypeOK ==
    /\ codecStatus \in [Images -> {"new", "inProgress", "complete"}]
    /\ pending \in [Images -> SUBSET FrameCalls]
    /\ frameAnswers \in [Images -> [FrameCalls -> SUBSET {"frame", "null"}]]
    /\ stage \in [Images -> {"none", "worker", "io", "switch", "ui", "done"}]
    /\ result \in [Images -> {"frame", "null"}]
    /\ object \in [Images -> {"none", "held", "queued", "draining", "released"}]
    /\ drainPending \in BOOLEAN /\ drainTasks \in Nat
    /\ io \in {"idle", "upload", "drain", "lastDrain"}
    /\ gpuDisabled \in BOOLEAN /\ switches \in 0..MaxSwitches
    /\ engineUp \in BOOLEAN /\ ioManager \in {"up", "draining", "gone"}
    /\ uiEnded \in BOOLEAN /\ ioEnded \in BOOLEAN /\ late \in BOOLEAN

ImageInit ==
    /\ codecStatus = [i \in Images |-> "new"] /\ pending = [i \in Images |-> {}]
    /\ frameAnswers = [i \in Images |-> [c \in FrameCalls |-> {}]]
    /\ stage = [i \in Images |-> "none"] /\ result = [i \in Images |-> "null"]
    /\ object = [i \in Images |-> "none"] /\ drainPending = FALSE /\ drainTasks = 0
    /\ io = "idle" /\ gpuDisabled = FALSE /\ switches = 0
    /\ engineUp = TRUE /\ ioManager = "up" /\ uiEnded = FALSE /\ ioEnded = FALSE
    /\ late = FALSE

\* SkiaUnrefQueue::Unref of the objects, on whichever thread drops them: the
\* first since the last drain posts a delayed drain.  A thread that has ended
\* takes no more tasks.
Unref(dropped) ==
    /\ object' = [i \in Images |-> IF i \in dropped THEN "queued" ELSE object[i]]
    /\ drainPending' = (drainPending \/ dropped # {})
    /\ drainTasks' = IF dropped # {} /\ ~drainPending /\ ~ioEnded THEN drainTasks + 1
                     ELSE drainTasks
    /\ late' = (late \/ (dropped # {} /\ ioManager # "up"))

\* SingleFrameCodec::getNextFrame: the frame is there, or the call waits for
\* it; the first starts ImageDecoder::Decode, which answers at once, by a task,
\* if there is no data.
GetNextFrame(i, c) ==
    /\ engineUp /\ c \notin pending[i] /\ frameAnswers[i][c] = {}
    /\ \/ /\ codecStatus[i] = "complete"
          /\ frameAnswers' = [frameAnswers EXCEPT ![i][c] = {result[i]}]
          /\ UNCHANGED <<codecStatus, pending, stage, result>>
       \/ /\ codecStatus[i] # "complete"
          /\ pending' = [pending EXCEPT ![i] = @ \cup {c}]
          /\ codecStatus' = [codecStatus EXCEPT ![i] = "inProgress"]
          /\ \/ codecStatus[i] = "inProgress" /\ UNCHANGED stage
             \/ codecStatus[i] = "new" /\ \E s \in {"worker", "ui"} : stage' = [stage EXCEPT ![i] = s]
          /\ UNCHANGED <<frameAnswers, result>>
    /\ UNCHANGED <<queueVars, io, lifeVars>>

\* The result is posted to the UI thread; if that has ended the image is dropped
\* by the thread that posts.
PostResult(i, r, withQueue) ==
    /\ stage' = [stage EXCEPT ![i] = IF uiEnded THEN "done" ELSE "ui"]
    /\ result' = [result EXCEPT ![i] = r]
    /\ IF uiEnded /\ withQueue THEN Unref({i})
       ELSE /\ object' = [object EXCEPT ![i] = IF withQueue THEN "held" ELSE "none"]
            /\ UNCHANGED <<drainPending, drainTasks, late>>

\* Step 1 on a worker: decompressed and resized, or not.
Decompress(i) ==
    /\ stage[i] = "worker"
    /\ \/ PostResult(i, "null", FALSE)
       \/ /\ stage' = [stage EXCEPT ![i] = IF ioEnded THEN "done" ELSE "io"]
          /\ UNCHANGED <<result, queueVars>>
    /\ UNCHANGED <<codecVars, io, lifeVars>>

\* Step 2 on the IO thread: without an IO manager, or if its pixels cannot be
\* peeked, there is no image, without a resource context the decompressed one is
\* returned, and otherwise it is uploaded, or kept as it is if the GPU is
\* disabled, under the switch's mutex.
BeginUpload(i) ==
    /\ stage[i] = "io" /\ io = "idle"
    /\ \/ PostResult(i, "null", FALSE) /\ UNCHANGED io
       \/ ioManager = "up" /\ PostResult(i, "frame", TRUE) /\ UNCHANGED io
       \/ ioManager = "up" /\ gpuDisabled /\ PostResult(i, "frame", FALSE) /\ UNCHANGED io
       \/ /\ ioManager = "up" /\ ~gpuDisabled
          /\ io' = "upload" /\ stage' = [stage EXCEPT ![i] = "switch"]
          /\ UNCHANGED <<result, queueVars>>
    /\ UNCHANGED <<codecVars, lifeVars>>

\* MakeCrossContextFromPixmap has returned a texture, or nothing.
EndUpload(i) ==
    /\ stage[i] = "switch" /\ io = "upload" /\ io' = "idle"
    /\ \/ PostResult(i, "frame", TRUE)
       \/ PostResult(i, "null", FALSE)
    /\ UNCHANGED <<codecVars, lifeVars>>

\* The callback of getNextFrame on the UI thread: every pending call gets the
\* frame, or null; if the isolate is gone the image is dropped.
Decoded(i) ==
    /\ stage[i] = "ui" /\ ~uiEnded
    /\ stage' = [stage EXCEPT ![i] = "done"]
    /\ IF engineUp
       THEN /\ codecStatus' = [codecStatus EXCEPT ![i] = "complete"]
            /\ frameAnswers' = [frameAnswers EXCEPT ![i] =
                 [c \in FrameCalls |-> IF c \in pending[i] THEN @[c] \cup {result[i]} ELSE @[c]]]
            /\ pending' = [pending EXCEPT ![i] = {}]
            /\ UNCHANGED queueVars
       ELSE /\ Unref({i} \cap {j \in Images : object[j] = "held"})
            /\ UNCHANGED codecVars
    /\ UNCHANGED <<result, io, lifeVars>>

\* Dart's collector finalizes the image, on the UI thread.
Collect(i) ==
    /\ engineUp /\ stage[i] = "done" /\ object[i] = "held"
    /\ Unref({i})
    /\ UNCHANGED <<codecVars, stage, result, io, lifeVars>>

\* SkiaUnrefQueue::Drain under the queue's mutex; the objects are released after.
SwapQueue ==
    /\ object' = [i \in Images |-> IF object[i] = "queued" THEN "draining" ELSE object[i]]
    /\ drainPending' = FALSE

\* Mutant: drain_pending_ is reset once the objects are released.
DrainResetsLate ==
    /\ io = "idle" /\ drainTasks > 0 /\ ~ioEnded
    /\ io' = "drain" /\ drainTasks' = drainTasks - 1
    /\ object' = [i \in Images |-> IF object[i] = "queued" THEN "draining" ELSE object[i]]
    /\ UNCHANGED <<codecVars, drainPending, stage, result, lifeVars, late>>

\* The delayed task on the IO thread.
DrainQueue ==
    /\ io = "idle" /\ drainTasks > 0 /\ ~ioEnded
    /\ io' = "drain" /\ drainTasks' = drainTasks - 1
    /\ SwapQueue
    /\ UNCHANGED <<codecVars, stage, result, lifeVars, late>>

ReleaseDrained ==
    /\ io \in {"drain", "lastDrain"} /\ io' = "idle"
    /\ object' = [i \in Images |-> IF object[i] = "draining" THEN "released" ELSE object[i]]
    /\ ioManager' = IF io = "lastDrain" THEN "gone" ELSE ioManager
    /\ UNCHANGED <<codecVars, stage, result, drainPending, drainTasks, late,
                   gpuDisabled, switches, engineUp, uiEnded, ioEnded>>

\* Mutant: the switch is set without its mutex.
SetSwitchUnlocked(value) ==
    /\ switches < MaxSwitches /\ gpuDisabled # value
    /\ gpuDisabled' = value /\ switches' = switches + 1
    /\ UNCHANGED <<codecVars, stage, result, queueVars, io, engineUp, ioManager, uiEnded, ioEnded>>

\* SyncSwitch::SetSwitch on the platform thread waits for a running handler.
SetSwitch(value) ==
    /\ io \notin {"upload", "lastDrain"}
    /\ switches < MaxSwitches /\ gpuDisabled # value
    /\ gpuDisabled' = value /\ switches' = switches + 1
    /\ UNCHANGED <<codecVars, stage, result, queueVars, io, engineUp, ioManager, uiEnded, ioEnded>>

\* ~Shell: the engine is destroyed on the UI thread, its isolate's objects are
\* finalized ...
DestroyEngine ==
    /\ engineUp /\ engineUp' = FALSE
    /\ Unref({i \in Images : stage[i] = "done" /\ object[i] = "held"})
    /\ UNCHANGED <<codecVars, stage, result, io, gpuDisabled, switches, ioManager, uiEnded, ioEnded>>

\* ... then ~ShellIOManager drains the queue, unless the GPU is disabled ...
DestroyIOManager ==
    /\ ~engineUp /\ ioManager = "up" /\ io = "idle"
    /\ IF gpuDisabled
       THEN /\ ioManager' = "gone" /\ late' = TRUE
            /\ UNCHANGED <<object, drainPending, io>>
       ELSE /\ io' = "lastDrain" /\ ioManager' = "draining"
            /\ SwapQueue /\ UNCHANGED late
    /\ UNCHANGED <<codecVars, stage, result, drainTasks, gpuDisabled, switches, engineUp,
                   uiEnded, ioEnded>>

\* ... and the threads are joined, the UI thread first.  A thread runs its due
\* tasks before it ends; the delayed drains are dropped.
EndUIThread ==
    /\ ioManager = "gone" /\ ~uiEnded /\ \A i \in Images : stage[i] # "ui"
    /\ uiEnded' = TRUE
    /\ UNCHANGED <<codecVars, stage, result, queueVars, io, gpuDisabled, switches, engineUp,
                   ioManager, ioEnded>>

EndIOThread ==
    /\ uiEnded /\ ~ioEnded /\ io = "idle" /\ \A i \in Images : stage[i] # "io"
    /\ ioEnded' = TRUE /\ drainTasks' = 0
    /\ UNCHANGED <<codecVars, stage, result, object, drainPending, late, io, gpuDisabled,
                   switches, engineUp, ioManager, uiEnded>>

DecodeStep(i) == Decompress(i) \/ BeginUpload(i) \/ EndUpload(i) \/ Decoded(i)
DrainStep == DrainQueue \/ ReleaseDrained

ImageNext ==
    \/ \E i \in Images : DecodeStep(i) \/ Collect(i) \/ \E c \in FrameCalls : GetNextFrame(i, c)
    \/ DrainStep
    \/ \E value \in BOOLEAN : SetSwitch(value)
    \/ DestroyEngine \/ DestroyIOManager \/ EndUIThread \/ EndIOThread

\* The threads run the tasks that are posted to them.
ImageFairness ==
    /\ \A i \in Images : WF_imageVars(DecodeStep(i))
    /\ WF_imageVars(DrainStep)

ImageSpec == ImageInit /\ [][ImageNext]_imageVars /\ ImageFairness

-----------------------------------------------------------------------------
\* No call of getNextFrame is answered twice, all get the same, and none waits
\* once the frame is there, however calls and the decoding interleave.
FrameForEveryCall ==
    \A i \in Images :
        /\ \A c, d \in FrameCalls : \A a \in frameAnswers[i][c], b \in frameAnswers[i][d] : a = b
        /\ \A c \in pending[i] : frameAnswers[i][c] = {}
        /\ codecStatus[i] = "complete" => pending[i] = {}
        /\ pending[i] # {} /\ engineUp => stage[i] \in {"worker", "io", "switch", "ui"}

\* An object in the queue has a drain on its way to the IO thread, whichever
\* thread unreferenced it and however drains and unreferences interleave.
UnrefHasDrain ==
    (\E i \in Images : object[i] = "queued") /\ ~ioEnded => drainTasks > 0 /\ drainPending

\* While the switch says that the GPU is disabled no upload is under way.
NoUploadWhileDisabled == io = "upload" \/ io = "lastDrain" => ~gpuDisabled

\* The queue is empty when the IO thread ends, as the assertion of its destructor
\* says, unless the GPU was disabled in the last drain or an object was
\* unreferenced after it.
QueueEmptyAtEnd == ioEnded /\ ~late => \A i \in Images : object[i] # "queued"

\* Every call is answered while there is an engine.
CallsAnswered ==
    \A i \in Images, c \in FrameCalls : (c \in pending[i]) ~> (frameAnswers[i][c] # {} \/ ~engineUp)

\* Every object unreferenced is released on the IO thread, while that exists.
ObjectsReleased ==
    (\E i \in Images : object[i] = "queued") ~> (ioEnded \/ \A i \in Images : object[i] # "queued")

\* The decoding of images and the release of what it made, through GPU outages and
\* the shutdown of the shell.
ImageSafe ==
    /\ ImageTypeOK /\ FrameForEveryCall /\ UnrefHasDrain /\ NoUploadWhileDisabled
    /\ QueueEmptyAtEnd

\* Calls of getNextFrame are answered and unreferenced objects released.
ImageLive == CallsAnswered /\ ObjectsReleased
=============================================================================
