------------------------ MODULE ImageDecodingProofs ------------------------
(***************************************************************************)
(* The invariants of ImageDecoding, for any number of images and calls.    *)
(***************************************************************************)
EXTENDS ImageDecoding, TLAPS

Types ==
    /\ codecStatus \in [Images -> {"new", "inProgress", "complete"}]
    /\ pending \in [Images -> SUBSET FrameCalls]
    /\ frameAnswers \in [Images -> [FrameCalls -> SUBSET {"frame", "null"}]]
    /\ stage \in [Images -> {"none", "worker", "io", "switch", "ui", "done"}]
    /\ result \in [Images -> {"frame", "null"}]
    /\ object \in [Images -> {"none", "held", "queued", "draining", "released"}]
    /\ drainTasks \in Nat

\* The order in which ~Shell and the embedder take the parts down.
EndsInOrder ==
    /\ ioManager # "up" => ~engineUp
    /\ uiEnded => ioManager = "gone"
    /\ ioEnded => uiEnded

\* What the codec knows of the decoding, and what the calls were told.
Told(i) ==
    /\ codecStatus[i] = "new" => pending[i] = {}
    /\ codecStatus[i] = "complete" => stage[i] = "done" /\ pending[i] = {}
    /\ codecStatus[i] = "inProgress" /\ engineUp => stage[i] \in {"worker", "io", "switch", "ui"}
    /\ \A c \in FrameCalls : frameAnswers[i][c] \subseteq {result[i]}
    /\ codecStatus[i] # "complete" => \A c \in FrameCalls : frameAnswers[i][c] = {}
    /\ \A c \in pending[i] : frameAnswers[i][c] = {}
CodecInv == \A i \in Images : Told(i)

\* drain_pending_ promises a drain, and whoever queues an object relies on it.
QueueInv ==
    /\ (\E i \in Images : object[i] = "queued") => drainPending
    /\ drainPending /\ ~ioEnded => drainTasks > 0

\* After the last drain nothing is queued unnoticed.
LastDrainInv == ioManager # "up" /\ ~late => \A i \in Images : object[i] # "queued"

\* The handlers of the switch: an upload, and the last drain.
SwitchInv ==
    /\ NoUploadWhileDisabled
    /\ io = "lastDrain" <=> ioManager = "draining"

DecodingInv ==
    Types /\ EndsInOrder /\ CodecInv /\ QueueInv /\ LastDrainInv /\ SwitchInv

-----------------------------------------------------------------------------
LEMMA InitHolds == ImageInit => DecodingInv
<1> SUFFICES ASSUME ImageInit PROVE DecodingInv
    OBVIOUS
<1>1. Types
    BY DEF ImageInit, Types
<1>2. CodecInv
    BY DEF ImageInit, CodecInv, Told
<1>3. EndsInOrder /\ QueueInv /\ LastDrainInv /\ SwitchInv
    BY DEF ImageInit, EndsInOrder, QueueInv, LastDrainInv, SwitchInv, NoUploadWhileDisabled
<1>. QED
    BY <1>1, <1>2, <1>3 DEF DecodingInv

\* Unref keeps the promise of the queue, on whichever thread it is called.
LEMMA UnrefStep ==
    ASSUME Types, QueueInv, LastDrainInv, NEW dropped \in SUBSET Images, Unref(dropped),
           UNCHANGED <<ioManager, ioEnded>>
    PROVE  /\ object' \in [Images -> {"none", "held", "queued", "draining", "released"}]
           /\ drainTasks' \in Nat /\ QueueInv' /\ LastDrainInv'
<1>1. object' \in [Images -> {"none", "held", "queued", "draining", "released"}]
    BY DEF Unref, Types
<1>2. drainTasks' \in Nat
    BY DEF Unref, Types
<1>3. QueueInv'
  <2>1. CASE dropped = {}
    <3>1. \A i \in Images : object'[i] = object[i]
      BY <2>1 DEF Unref
    <3>2. drainPending' <=> drainPending
      BY <2>1 DEF Unref
    <3>3. drainTasks' = drainTasks
      BY <2>1 DEF Unref
    <3>. QED
      BY <3>1, <3>2, <3>3 DEF QueueInv
  <2>2. CASE dropped # {}
    <3>1. drainPending'
      BY <2>2 DEF Unref
    <3>2. CASE drainPending \/ ioEnded
      <4>1. drainTasks' = drainTasks
        BY <3>2 DEF Unref
      <4>. QED
        BY <3>1, <3>2, <4>1 DEF QueueInv
    <3>3. CASE ~drainPending /\ ~ioEnded
      <4>1. drainTasks' = drainTasks + 1
        BY <2>2, <3>3 DEF Unref
      <4>2. drainTasks' > 0
        BY <4>1 DEF Types
      <4>. QED
        BY <3>1, <4>2 DEF QueueInv
    <3>. QED
      BY <3>2, <3>3
  <2>. QED
    BY <2>1, <2>2
<1>4. LastDrainInv'
  <2> SUFFICES ASSUME ioManager' # "up", ~late', NEW i \in Images PROVE object'[i] # "queued"
    BY DEF LastDrainInv
  <2>1. ~late /\ dropped = {}
    BY DEF Unref
  <2>2. object'[i] = object[i]
    BY <2>1 DEF Unref
  <2>. QED
    BY <2>1, <2>2 DEF LastDrainInv
<1>. QED
    BY <1>1, <1>2, <1>3, <1>4

\* The result of a decoding is posted, or dropped with the thread it was for.
LEMMA PostResultStep ==
    ASSUME DecodingInv, NEW i \in Images, NEW r \in {"frame", "null"}, NEW withQueue \in BOOLEAN,
           stage[i] \in {"worker", "io", "switch"}, PostResult(i, r, withQueue),
           UNCHANGED <<codecVars, lifeVars>>
    PROVE  Types' /\ EndsInOrder' /\ CodecInv' /\ QueueInv' /\ LastDrainInv'
<1> USE DEF DecodingInv
<1>1. UNCHANGED <<codecStatus, pending, frameAnswers, engineUp, ioManager, uiEnded, ioEnded>>
    BY DEF codecVars, lifeVars
<1>2. /\ object' \in [Images -> {"none", "held", "queued", "draining", "released"}]
      /\ drainTasks' \in Nat /\ QueueInv' /\ LastDrainInv'
  <2>1. CASE uiEnded /\ withQueue
    BY <1>1, <2>1, UnrefStep DEF PostResult
  <2>2. CASE ~(uiEnded /\ withQueue)
    <3>1. /\ object' = [object EXCEPT ![i] = IF withQueue THEN "held" ELSE "none"]
          /\ UNCHANGED <<drainPending, drainTasks, late>>
      BY <2>2 DEF PostResult
    <3>2. /\ object' \in [Images -> {"none", "held", "queued", "draining", "released"}]
          /\ drainTasks' \in Nat
      BY <3>1 DEF Types
    <3>3. \A j \in Images : object'[j] = "queued" => object[j] = "queued"
      BY <3>1 DEF Types
    <3>. QED
      BY <1>1, <3>1, <3>2, <3>3 DEF QueueInv, LastDrainInv
  <2>. QED
    BY <2>1, <2>2
<1>3. /\ stage' = [stage EXCEPT ![i] = IF uiEnded THEN "done" ELSE "ui"]
      /\ result' = [result EXCEPT ![i] = r]
    BY DEF PostResult
<1>4. Types'
    BY <1>1, <1>2, <1>3 DEF Types
<1>5. EndsInOrder'
    BY <1>1 DEF EndsInOrder
<1>6. CodecInv'
  <2> SUFFICES ASSUME NEW j \in Images PROVE Told(j)'
    BY DEF CodecInv
  <2>1. CASE j # i
    <3>1. stage'[j] = stage[j] /\ result'[j] = result[j]
      BY <1>3, <2>1 DEF Types
    <3>. QED
      BY <1>1, <3>1 DEF CodecInv, Told
  <2>2. CASE j = i
    <3>1. engineUp => stage'[j] = "ui"
      BY <1>3, <2>2 DEF EndsInOrder, Types
    <3>2. codecStatus[j] # "complete"
      BY <2>2 DEF CodecInv, Told
    <3>. QED
      BY <1>1, <3>1, <3>2 DEF CodecInv, Told
  <2>. QED
    BY <2>1, <2>2
<1>. QED
    BY <1>2, <1>4, <1>5, <1>6

LEMMA GetNextFrameStep ==
    ASSUME DecodingInv, NEW i \in Images, NEW c \in FrameCalls, GetNextFrame(i, c)
    PROVE  DecodingInv'
<1> USE DEF DecodingInv
<1>1. /\ UNCHANGED <<object, drainPending, drainTasks, late, io, result>>
      /\ UNCHANGED <<gpuDisabled, engineUp, ioManager, uiEnded, ioEnded>>
    BY DEF GetNextFrame, queueVars, lifeVars
<1>2. EndsInOrder' /\ QueueInv' /\ LastDrainInv' /\ SwitchInv'
    BY <1>1 DEF EndsInOrder, QueueInv, LastDrainInv, SwitchInv, NoUploadWhileDisabled
<1>3. CASE /\ codecStatus[i] = "complete"
           /\ frameAnswers' = [frameAnswers EXCEPT ![i][c] = {result[i]}]
           /\ UNCHANGED <<codecStatus, pending, stage>>
  <2>1. Types'
    BY <1>1, <1>3 DEF Types
  <2>2. CodecInv'
    BY <1>1, <1>3 DEF Types, CodecInv, Told
  <2>. QED
    BY <1>2, <2>1, <2>2
<1>4. CASE /\ codecStatus[i] # "complete"
           /\ pending' = [pending EXCEPT ![i] = @ \cup {c}]
           /\ codecStatus' = [codecStatus EXCEPT ![i] = "inProgress"]
           /\ \/ codecStatus[i] = "inProgress" /\ UNCHANGED stage
              \/ \E s \in {"worker", "ui"} : stage' = [stage EXCEPT ![i] = s]
           /\ UNCHANGED frameAnswers
  <2>1. Types'
    <3>1. stage' \in [Images -> {"none", "worker", "io", "switch", "ui", "done"}]
      BY <1>4 DEF Types
    <3>2. pending' \in [Images -> SUBSET FrameCalls]
      BY <1>4 DEF Types
    <3>3. codecStatus' \in [Images -> {"new", "inProgress", "complete"}]
      BY <1>4 DEF Types
    <3>. QED
      BY <1>1, <1>4, <3>1, <3>2, <3>3 DEF Types
  <2>2. \A j \in Images \ {i} : Told(j)'
    <3>1. \A j \in Images \ {i} : /\ pending'[j] = pending[j] /\ stage'[j] = stage[j]
                                   /\ codecStatus'[j] = codecStatus[j]
      BY <1>4 DEF Types
    <3>. QED
      BY <1>1, <1>4, <3>1 DEF CodecInv, Told
  <2>3. /\ pending'[i] = pending[i] \cup {c} /\ codecStatus'[i] = "inProgress"
        /\ \A d \in FrameCalls : frameAnswers'[i][d] = {}
    BY <1>4 DEF Types, CodecInv, Told
  <2>4. engineUp => stage'[i] \in {"worker", "io", "switch", "ui"}
    <3>1. CASE codecStatus[i] = "inProgress" /\ UNCHANGED stage
      BY <3>1 DEF CodecInv, Told
    <3>2. CASE \E s \in {"worker", "ui"} : stage' = [stage EXCEPT ![i] = s]
      BY <3>2 DEF Types
    <3>. QED
      BY <1>4, <3>1, <3>2
  <2>5. Told(i)'
    <3>1. pending'[i] \subseteq FrameCalls
      BY <2>1 DEF Types
    <3>. QED
      BY <1>1, <2>3, <2>4, <3>1 DEF Told
  <2>6. CodecInv'
    BY <2>2, <2>5 DEF CodecInv
  <2>. QED
    BY <1>2, <2>1, <2>6
<1>. QED
    BY <1>3, <1>4 DEF GetNextFrame

LEMMA DecompressStep == ASSUME DecodingInv, NEW i \in Images, Decompress(i) PROVE DecodingInv'
<1>1. UNCHANGED <<codecVars, io, lifeVars>> /\ stage[i] = "worker"
    BY DEF Decompress
<1>2. SwitchInv'
    BY <1>1 DEF DecodingInv, SwitchInv, NoUploadWhileDisabled, lifeVars
<1>3. CASE PostResult(i, "null", FALSE)
    BY <1>1, <1>2, <1>3, PostResultStep DEF DecodingInv
<1>4. CASE /\ stage' = [stage EXCEPT ![i] = IF ioEnded THEN "done" ELSE "io"]
           /\ UNCHANGED <<result, queueVars>>
  <2> USE DEF DecodingInv
  <2>1. Types'
    BY <1>1, <1>4 DEF Types, codecVars, queueVars
  <2>2. EndsInOrder' /\ QueueInv' /\ LastDrainInv'
    BY <1>1, <1>4 DEF EndsInOrder, QueueInv, LastDrainInv, lifeVars, queueVars
  <2>3. CodecInv'
    BY <1>1, <1>4 DEF Types, EndsInOrder, CodecInv, Told, codecVars, lifeVars
  <2>. QED
    BY <1>2, <2>1, <2>2, <2>3
<1>. QED
    BY <1>3, <1>4 DEF Decompress

LEMMA BeginUploadStep == ASSUME DecodingInv, NEW i \in Images, BeginUpload(i) PROVE DecodingInv'
<1>1. UNCHANGED <<codecVars, lifeVars>> /\ stage[i] = "io" /\ io = "idle"
    BY DEF BeginUpload
<1>2. CASE UNCHANGED io /\ \E r \in {"frame", "null"}, q \in BOOLEAN : PostResult(i, r, q)
  <2>1. SwitchInv'
    BY <1>1, <1>2 DEF DecodingInv, SwitchInv, NoUploadWhileDisabled, lifeVars
  <2>. QED
    BY <1>1, <1>2, <2>1, PostResultStep DEF DecodingInv
<1>3. CASE /\ ~gpuDisabled /\ io' = "upload" /\ stage' = [stage EXCEPT ![i] = "switch"]
           /\ UNCHANGED <<result, queueVars>>
  <2> USE DEF DecodingInv
  <2>1. Types'
    BY <1>1, <1>3 DEF Types, codecVars, queueVars
  <2>2. EndsInOrder' /\ QueueInv' /\ LastDrainInv' /\ SwitchInv'
    BY <1>1, <1>3 DEF EndsInOrder, QueueInv, LastDrainInv, SwitchInv,
                      NoUploadWhileDisabled, lifeVars, queueVars
  <2>3. CodecInv'
    BY <1>1, <1>3 DEF Types, CodecInv, Told, codecVars, lifeVars
  <2>. QED
    BY <2>1, <2>2, <2>3
<1>. QED
    BY <1>2, <1>3 DEF BeginUpload

LEMMA EndUploadStep == ASSUME DecodingInv, NEW i \in Images, EndUpload(i) PROVE DecodingInv'
<1>1. /\ UNCHANGED <<codecVars, lifeVars>> /\ stage[i] = "switch" /\ io = "upload" /\ io' = "idle"
      /\ \E r \in {"frame", "null"}, q \in BOOLEAN : PostResult(i, r, q)
    BY DEF EndUpload
<1>2. SwitchInv'
    BY <1>1 DEF DecodingInv, SwitchInv, NoUploadWhileDisabled, lifeVars
<1>. QED
    BY <1>1, <1>2, PostResultStep DEF DecodingInv

\* An action that only unreferences objects leaves the codecs alone.
LEMMA DropStep ==
    ASSUME DecodingInv, NEW dropped \in SUBSET Images, Unref(dropped),
           UNCHANGED <<codecVars, result, ioManager, ioEnded>>,
           Types => stage' \in [Images -> {"none", "worker", "io", "switch", "ui", "done"}]
    PROVE  Types' /\ QueueInv' /\ LastDrainInv'
<1>1. /\ object' \in [Images -> {"none", "held", "queued", "draining", "released"}]
      /\ drainTasks' \in Nat /\ QueueInv' /\ LastDrainInv'
    BY UnrefStep DEF DecodingInv
<1>. QED
    BY <1>1 DEF DecodingInv, Types, codecVars

LEMMA DecodedStep == ASSUME DecodingInv, NEW i \in Images, Decoded(i) PROVE DecodingInv'
<1> USE DEF DecodingInv
<1>1. /\ stage[i] = "ui" /\ stage' = [stage EXCEPT ![i] = "done"]
      /\ UNCHANGED <<result, io, gpuDisabled, engineUp, ioManager, uiEnded, ioEnded>>
    BY DEF Decoded, lifeVars
<1>2. EndsInOrder' /\ SwitchInv'
    BY <1>1 DEF EndsInOrder, SwitchInv, NoUploadWhileDisabled
<1>3. CASE engineUp
  <2>1. /\ codecStatus' = [codecStatus EXCEPT ![i] = "complete"]
        /\ frameAnswers' = [frameAnswers EXCEPT ![i] =
             [c \in FrameCalls |-> IF c \in pending[i] THEN @[c] \cup {result[i]} ELSE @[c]]]
        /\ pending' = [pending EXCEPT ![i] = {}]
        /\ UNCHANGED <<object, drainPending, drainTasks, late>>
    BY <1>3 DEF Decoded, queueVars
  <2>2. Types'
    BY <1>1, <2>1 DEF Types
  <2>3. QueueInv' /\ LastDrainInv'
    BY <1>1, <2>1 DEF QueueInv, LastDrainInv
  <2>4. CodecInv'
    <3> SUFFICES ASSUME NEW j \in Images PROVE Told(j)'
      BY DEF CodecInv
    <3>1. Told(j)
      BY DEF CodecInv
    <3>2. CASE j # i
      BY <1>1, <2>1, <3>1, <3>2 DEF Types, Told
    <3>3. CASE j = i
      <4>1. codecStatus'[j] = "complete" /\ stage'[j] = "done" /\ pending'[j] = {}
        BY <1>1, <2>1, <3>3 DEF Types
      <4>2. \A c \in FrameCalls : frameAnswers'[j][c] \subseteq {result'[j]}
        BY <1>1, <2>1, <3>1, <3>3 DEF Types, Told
      <4>. QED
        BY <4>1, <4>2 DEF Told
    <3>. QED
      BY <3>2, <3>3
  <2>. QED
    BY <1>2, <2>2, <2>3, <2>4
<1>4. CASE ~engineUp
  <2>1. /\ Unref({i} \cap {j \in Images : object[j] = "held"})
        /\ UNCHANGED <<codecStatus, pending, frameAnswers>>
    BY <1>4 DEF Decoded, codecVars
  <2>2. Types' /\ QueueInv' /\ LastDrainInv'
    BY <1>1, <2>1, DropStep DEF Types, codecVars
  <2>3. CodecInv'
    BY <1>1, <1>4, <2>1 DEF Types, CodecInv, Told
  <2>. QED
    BY <1>2, <2>2, <2>3
<1>. QED
    BY <1>3, <1>4

LEMMA CollectStep == ASSUME DecodingInv, NEW i \in Images, Collect(i) PROVE DecodingInv'
<1> USE DEF DecodingInv
<1>1. Unref({i}) /\ UNCHANGED <<codecVars, stage, result, io, lifeVars>>
    BY DEF Collect
<1>2. Types' /\ QueueInv' /\ LastDrainInv'
    BY <1>1, DropStep DEF Types, lifeVars
<1>3. EndsInOrder' /\ CodecInv' /\ SwitchInv'
    BY <1>1 DEF EndsInOrder, CodecInv, Told, SwitchInv, NoUploadWhileDisabled, codecVars, lifeVars
<1>. QED
    BY <1>2, <1>3

LEMMA DestroyEngineStep == ASSUME DecodingInv, DestroyEngine PROVE DecodingInv'
<1> USE DEF DecodingInv
<1>1. /\ Unref({i \in Images : stage[i] = "done" /\ object[i] = "held"}) /\ ~engineUp'
      /\ UNCHANGED <<codecVars, stage, result, io, gpuDisabled, ioManager, uiEnded, ioEnded>>
    BY DEF DestroyEngine
<1>2. Types' /\ QueueInv' /\ LastDrainInv'
    BY <1>1, DropStep DEF Types
<1>3. EndsInOrder' /\ CodecInv' /\ SwitchInv'
    BY <1>1 DEF EndsInOrder, CodecInv, Told, SwitchInv, NoUploadWhileDisabled, codecVars
<1>. QED
    BY <1>2, <1>3

LEMMA DrainQueueStep == ASSUME DecodingInv, DrainQueue PROVE DecodingInv'
<1> USE DEF DecodingInv
<1>1. /\ drainTasks > 0 /\ io = "idle" /\ io' = "drain" /\ drainTasks' = drainTasks - 1
      /\ object' = [i \in Images |-> IF object[i] = "queued" THEN "draining" ELSE object[i]]
      /\ ~drainPending'
      /\ UNCHANGED <<codecStatus, pending, frameAnswers, stage, result, late>>
      /\ UNCHANGED <<gpuDisabled, engineUp, ioManager, uiEnded, ioEnded>>
    BY DEF DrainQueue, SwapQueue, codecVars, lifeVars
<1>2. Types'
    BY <1>1 DEF Types
<1>3. \A i \in Images : object'[i] # "queued"
    BY <1>1 DEF Types
<1>4. QueueInv' /\ LastDrainInv'
    BY <1>1, <1>3 DEF QueueInv, LastDrainInv
<1>5. EndsInOrder' /\ CodecInv' /\ SwitchInv'
    BY <1>1 DEF EndsInOrder, CodecInv, Told, SwitchInv, NoUploadWhileDisabled
<1>. QED
    BY <1>2, <1>4, <1>5

LEMMA ReleaseDrainedStep == ASSUME DecodingInv, ReleaseDrained PROVE DecodingInv'
<1> USE DEF DecodingInv
<1>1. /\ io' = "idle"
      /\ object' = [i \in Images |-> IF object[i] = "draining" THEN "released" ELSE object[i]]
      /\ ioManager' = (IF io = "lastDrain" THEN "gone" ELSE ioManager)
      /\ UNCHANGED <<codecStatus, pending, frameAnswers, stage, result, drainPending, drainTasks, late>>
      /\ UNCHANGED <<gpuDisabled, engineUp, uiEnded, ioEnded>>
    BY DEF ReleaseDrained, codecVars
<1>2. Types'
    BY <1>1 DEF Types
<1>3. \A i \in Images : object'[i] = "queued" => object[i] = "queued"
    BY <1>1 DEF Types
<1>4. QueueInv'
    BY <1>1, <1>3 DEF QueueInv
<1>5. EndsInOrder' /\ LastDrainInv'
    BY <1>1, <1>3 DEF EndsInOrder, LastDrainInv, SwitchInv
<1>6. CodecInv' /\ SwitchInv'
    BY <1>1 DEF CodecInv, Told, SwitchInv, NoUploadWhileDisabled
<1>. QED
    BY <1>2, <1>4, <1>5, <1>6

LEMMA SetSwitchStep ==
    ASSUME DecodingInv, NEW value \in BOOLEAN, SetSwitch(value) PROVE DecodingInv'
BY DEF DecodingInv, SetSwitch, Types, EndsInOrder, CodecInv, Told, QueueInv, LastDrainInv,
       SwitchInv, NoUploadWhileDisabled, codecVars, queueVars

LEMMA DestroyIOManagerStep == ASSUME DecodingInv, DestroyIOManager PROVE DecodingInv'
<1> USE DEF DecodingInv
<1>1. /\ ~engineUp /\ ioManager = "up" /\ io = "idle"
      /\ UNCHANGED <<codecStatus, pending, frameAnswers, stage, result, drainTasks, gpuDisabled>>
      /\ UNCHANGED <<engineUp, uiEnded, ioEnded>>
    BY DEF DestroyIOManager, codecVars
<1>2. CodecInv'
    BY <1>1 DEF CodecInv, Told
<1>3. CASE gpuDisabled
  <2>1. ioManager' = "gone" /\ late' /\ UNCHANGED <<object, drainPending, io>>
    BY <1>3 DEF DestroyIOManager
  <2>. QED
    BY <1>1, <1>2, <2>1
       DEF Types, EndsInOrder, QueueInv, LastDrainInv, SwitchInv, NoUploadWhileDisabled
<1>4. CASE ~gpuDisabled
  <2>1. /\ io' = "lastDrain" /\ ioManager' = "draining" /\ ~drainPending'
        /\ object' = [i \in Images |-> IF object[i] = "queued" THEN "draining" ELSE object[i]]
    BY <1>4 DEF DestroyIOManager, SwapQueue
  <2>2. Types' /\ \A i \in Images : object'[i] # "queued"
    BY <1>1, <2>1 DEF Types
  <2>3. EndsInOrder' /\ SwitchInv'
    BY <1>1, <1>4, <2>1 DEF EndsInOrder, SwitchInv, NoUploadWhileDisabled
  <2>4. QueueInv' /\ LastDrainInv'
    BY <1>1, <2>1, <2>2 DEF QueueInv, LastDrainInv
  <2>. QED
    BY <1>2, <2>2, <2>3, <2>4
<1>. QED
    BY <1>3, <1>4

LEMMA EndThreadStep ==
    ASSUME DecodingInv, EndUIThread \/ EndIOThread PROVE DecodingInv'
<1> USE DEF DecodingInv
<1>1. CASE EndUIThread
    BY <1>1 DEF EndUIThread, Types, EndsInOrder, CodecInv, Told, QueueInv, LastDrainInv,
                SwitchInv, NoUploadWhileDisabled, codecVars, queueVars
<1>2. CASE EndIOThread
    BY <1>2 DEF EndIOThread, Types, EndsInOrder, CodecInv, Told, QueueInv, LastDrainInv,
                SwitchInv, NoUploadWhileDisabled, codecVars
<1>. QED
    BY <1>1, <1>2

LEMMA NextHolds == DecodingInv /\ [ImageNext]_imageVars => DecodingInv'
<1> SUFFICES ASSUME DecodingInv, [ImageNext]_imageVars PROVE DecodingInv'
    OBVIOUS
<1>1. CASE UNCHANGED imageVars
    BY <1>1 DEF DecodingInv, imageVars, Types, EndsInOrder, CodecInv, Told, QueueInv,
                LastDrainInv, SwitchInv, NoUploadWhileDisabled, codecVars, queueVars, lifeVars
<1>2. ASSUME NEW i \in Images, DecodeStep(i) PROVE DecodingInv'
    BY <1>2, DecompressStep, BeginUploadStep, EndUploadStep, DecodedStep DEF DecodeStep
<1>3. ASSUME NEW i \in Images, Collect(i) PROVE DecodingInv'
    BY <1>3, CollectStep
<1>4. ASSUME NEW i \in Images, NEW c \in FrameCalls, GetNextFrame(i, c) PROVE DecodingInv'
    BY <1>4, GetNextFrameStep
<1>5. CASE DrainStep
    BY <1>5, DrainQueueStep, ReleaseDrainedStep DEF DrainStep
<1>6. ASSUME NEW value \in BOOLEAN, SetSwitch(value) PROVE DecodingInv'
    BY <1>6, SetSwitchStep
<1>7. CASE DestroyEngine \/ DestroyIOManager \/ EndUIThread \/ EndIOThread
    BY <1>7, DestroyEngineStep, DestroyIOManagerStep, EndThreadStep
<1>. QED
    BY <1>1, <1>2, <1>3, <1>4, <1>5, <1>6, <1>7 DEF ImageNext

LEMMA Invariant == ImageSpec => []DecodingInv
BY InitHolds, NextHolds, PTL DEF ImageSpec

-----------------------------------------------------------------------------
\* The rest of the type invariant, which the others do not need.
Flags ==
    /\ drainPending \in BOOLEAN /\ gpuDisabled \in BOOLEAN /\ engineUp \in BOOLEAN
    /\ uiEnded \in BOOLEAN /\ ioEnded \in BOOLEAN /\ late \in BOOLEAN
Places ==
    /\ io \in {"idle", "upload", "drain", "lastDrain"}
    /\ switches \in 0..MaxSwitches /\ ioManager \in {"up", "draining", "gone"}

LEMMA FlagsHold == ImageSpec => []Flags
<1>1. ImageInit => Flags
    BY DEF ImageInit, Flags
<1>2. Flags /\ [ImageNext]_imageVars => Flags'
  <2> SUFFICES ASSUME Flags, [ImageNext]_imageVars PROVE Flags'
    OBVIOUS
  <2> USE DEF Flags, lifeVars, queueVars, codecVars
  <2>1. CASE UNCHANGED imageVars
    BY <2>1 DEF imageVars
  <2>2. ASSUME NEW i \in Images, DecodeStep(i) PROVE Flags'
    BY <2>2 DEF DecodeStep, Decompress, BeginUpload, EndUpload, Decoded, PostResult, Unref
  <2>3. ASSUME NEW i \in Images, Collect(i) PROVE Flags'
    BY <2>3 DEF Collect, Unref
  <2>4. ASSUME NEW i \in Images, NEW c \in FrameCalls, GetNextFrame(i, c) PROVE Flags'
    BY <2>4 DEF GetNextFrame
  <2>5. CASE DrainStep
    BY <2>5 DEF DrainStep, DrainQueue, ReleaseDrained, SwapQueue
  <2>6. ASSUME NEW value \in BOOLEAN, SetSwitch(value) PROVE Flags'
    BY <2>6 DEF SetSwitch
  <2>7. CASE DestroyEngine \/ DestroyIOManager \/ EndUIThread \/ EndIOThread
    BY <2>7 DEF DestroyEngine, DestroyIOManager, EndUIThread, EndIOThread, Unref, SwapQueue
  <2>. QED
    BY <2>1, <2>2, <2>3, <2>4, <2>5, <2>6, <2>7 DEF ImageNext
<1>. QED
    BY <1>1, <1>2, PTL DEF ImageSpec

LEMMA PlacesHold == ImageSpec => []Places
<1>1. ImageInit => Places
    BY MaxSwitchesAssumption DEF ImageInit, Places
<1>2. Places /\ [ImageNext]_imageVars => Places'
  <2> SUFFICES ASSUME Places, [ImageNext]_imageVars PROVE Places'
    OBVIOUS
  <2> USE DEF Places, lifeVars, queueVars, codecVars
  <2>1. CASE UNCHANGED imageVars
    BY <2>1 DEF imageVars
  <2>2. ASSUME NEW i \in Images, DecodeStep(i) PROVE Places'
    BY <2>2 DEF DecodeStep, Decompress, BeginUpload, EndUpload, Decoded
  <2>3. ASSUME NEW i \in Images, Collect(i) PROVE Places'
    BY <2>3 DEF Collect
  <2>4. ASSUME NEW i \in Images, NEW c \in FrameCalls, GetNextFrame(i, c) PROVE Places'
    BY <2>4 DEF GetNextFrame
  <2>5. CASE DrainStep
    BY <2>5 DEF DrainStep, DrainQueue, ReleaseDrained
  <2>6. ASSUME NEW value \in BOOLEAN, SetSwitch(value) PROVE Places'
    BY <2>6, MaxSwitchesAssumption DEF SetSwitch
  <2>7. CASE DestroyEngine \/ DestroyIOManager \/ EndUIThread \/ EndIOThread
    BY <2>7 DEF DestroyEngine, DestroyIOManager, EndUIThread, EndIOThread
  <2>. QED
    BY <2>1, <2>2, <2>3, <2>4, <2>5, <2>6, <2>7 DEF ImageNext
<1>. QED
    BY <1>1, <1>2, PTL DEF ImageSpec

-----------------------------------------------------------------------------
\* Every call of SingleFrameCodec::getNextFrame gets the one decoded frame and
\* none is forgotten, for any number of images and of calls.
THEOREM EveryCallGetsTheFrame == ImageSpec => []FrameForEveryCall
<1>1. ASSUME DecodingInv, NEW i \in Images
      PROVE  /\ \A c, d \in FrameCalls : \A a \in frameAnswers[i][c], b \in frameAnswers[i][d] : a = b
             /\ \A c \in pending[i] : frameAnswers[i][c] = {}
             /\ codecStatus[i] = "complete" => pending[i] = {}
             /\ pending[i] # {} /\ engineUp => stage[i] \in {"worker", "io", "switch", "ui"}
  <2>1. Told(i)
    BY <1>1 DEF DecodingInv, CodecInv
  <2>2. codecStatus[i] \in {"new", "inProgress", "complete"}
    BY <1>1 DEF DecodingInv, Types
  <2>3. \A c, d \in FrameCalls : \A a \in frameAnswers[i][c], b \in frameAnswers[i][d] : a = b
    BY <2>1 DEF Told
  <2>. QED
    BY <2>1, <2>2, <2>3 DEF Told
<1>2. DecodingInv => FrameForEveryCall
    BY <1>1 DEF FrameForEveryCall
<1>. QED
    BY <1>2, Invariant, PTL

\* SkiaUnrefQueue::Unref never leaves an object behind without a drain.
THEOREM UnrefsAreDrained == ImageSpec => []UnrefHasDrain
<1>1. DecodingInv => UnrefHasDrain
    BY DEF DecodingInv, QueueInv, UnrefHasDrain, Types
<1>. QED
    BY <1>1, Invariant, PTL

\* SyncSwitch: the GPU is not disabled under an upload that is under way.
THEOREM UploadsHoldTheSwitch == ImageSpec => []NoUploadWhileDisabled
<1>1. DecodingInv => NoUploadWhileDisabled
    BY DEF DecodingInv, SwitchInv
<1>. QED
    BY <1>1, Invariant, PTL

\* ~SkiaUnrefQueue finds an empty queue unless the last drain was skipped or an
\* object was unreferenced after it.
THEOREM LastDrainEmptiesQueue == ImageSpec => []QueueEmptyAtEnd
<1>1. DecodingInv => QueueEmptyAtEnd
    BY DEF DecodingInv, EndsInOrder, LastDrainInv, QueueEmptyAtEnd
<1>. QED
    BY <1>1, Invariant, PTL

\* Decoding, unreferencing and the sync switch are safe through a shutdown, for any
\* number of images and of calls of getNextFrame.
THEOREM DecodingIsSafe == ImageSpec => []ImageSafe
<1>1. DecodingInv /\ Flags /\ Places => ImageTypeOK
    BY DEF DecodingInv, Types, Flags, Places, ImageTypeOK
<1>. QED
    BY <1>1, Invariant, FlagsHold, PlacesHold, EveryCallGetsTheFrame, UnrefsAreDrained,
       UploadsHoldTheSwitch, LastDrainEmptiesQueue, PTL DEF ImageSafe
=============================================================================
