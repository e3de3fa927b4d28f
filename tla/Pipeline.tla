------------------------------ MODULE Pipeline ------------------------------
(***************************************************************************)
(* shell/common/pipeline.h: the queue of layer trees between the Animator, *)
(* which produces them on the UI thread, and Rasterizer::Draw, which       *)
(* consumes them.  Two counting semaphores (empty_, available_) and an     *)
(* in-flight counter are changed outside the queue's mutex, so every       *)
(* atomic operation of Produce, Complete and Consume is an action here.    *)
(*                                                                         *)
(* There is one producer (the Animator keeps a single continuation) and a  *)
(* set of consumer threads: the class asks for a single one, but thread    *)
(* merging can move Rasterizer::Draw from one thread to another.           *)
(***************************************************************************)
EXTENDS Integers, Sequences, FiniteSets

CONSTANTS Depth,      \* depth_
          Consumers,  \* threads that may run Rasterizer::Draw
          MaxFrames,  \* bound on the number of commits
          MaxFronts   \* bound on the number of commits to the front

ASSUME DepthAssumption == Depth \in Nat \ {0}
ASSUME ConsumersAssumption == IsFiniteSet(Consumers)
ASSUME BoundsAssumption == MaxFrames \in Nat /\ MaxFronts \in Nat

VARIABLES empty,      \* empty_: free slots
          available,  \* available_: resources signalled to the consumer
          inflight,   \* inflight_
          queue,      \* queue_
          producer,   \* where the producer is
          consumer,   \* where each consumer thread is
          held,       \* the resource each consumer thread was handed last
          status,     \* the raster status of that resource
          frames,     \* history: number of resources committed
          popped,     \* history: the latest resource handed to a consumer
          fronts,     \* history: number of commits to the front
          dropped     \* history: resources dropped to preserve the depth

producerVars == <<empty, inflight, producer>>
consumerVars == <<consumer, held, status>>
history == <<frames, popped, fronts, dropped>>
vars == <<empty, available, inflight, queue, producer, consumer, held, status,
          frames, popped, fronts, dropped>>

\* A queue entry: its position in commit order, and whether it carries a layer
\* tree or is the null resource of a continuation dropped on the floor.
Resource == [id : Nat, tree : BOOLEAN]
NoResource == [id |-> 0, tree |-> FALSE]

ProducerState == {"idle", "reserved", "holding", "signal", "finalSignal", "gone"}
ConsumerState == {"idle", "taken", "consuming", "released", "resubmitting",
                  "fronted", "undefined"}

Init ==
    /\ empty = Depth /\ available = 0 /\ inflight = 0 /\ queue = <<>>
    /\ producer = "idle"
    /\ consumer = [c \in Consumers |-> "idle"]
    /\ held = [c \in Consumers |-> NoResource]
    /\ status = [c \in Consumers |-> "kFailed"]
    /\ frames = 0 /\ popped = 0 /\ fronts = 0 /\ dropped = 0

-----------------------------------------------------------------------------
(* The producer: Produce, then ProducerCommit through the continuation.     *)

\* Produce: empty_.TryWait().  When it fails Produce returns an empty
\* continuation and nothing changes.
ProduceTryWait ==
    /\ producer = "idle" /\ frames < MaxFrames
    /\ empty > 0
    /\ empty' = empty - 1
    /\ producer' = "reserved"
    /\ UNCHANGED <<available, inflight, queue, consumerVars, history>>

\* Produce: ++inflight_, and the continuation is handed to the caller.
ProduceCount ==
    /\ producer = "reserved"
    /\ inflight' = inflight + 1
    /\ producer' = "holding"
    /\ UNCHANGED <<empty, available, queue, consumerVars, history>>

\* Mutant: the resource is put at the front of the queue.
PushAtFront(tree) ==
    /\ queue' = <<[id |-> frames + 1, tree |-> tree]>> \o queue
    /\ frames' = frames + 1
    /\ UNCHANGED <<empty, available, inflight, consumerVars, popped, fronts, dropped>>

\* ProducerCommit, under queue_mutex_.
Push(tree) ==
    /\ queue' = Append(queue, [id |-> frames + 1, tree |-> tree])
    /\ frames' = frames + 1
    /\ UNCHANGED <<empty, available, inflight, consumerVars, popped, fronts, dropped>>

\* ProducerContinuation::Complete(resource).
Complete == producer = "holding" /\ Push(TRUE) /\ producer' = "signal"

\* ~ProducerContinuation with a live continuation commits a null resource.
DropContinuation == producer = "holding" /\ Push(FALSE) /\ producer' = "finalSignal"

\* ProducerCommit: available_.Signal() after the mutex is released.
CommitSignal ==
    /\ producer \in {"signal", "finalSignal"}
    /\ available' = available + 1
    /\ producer' = IF producer = "signal" THEN "idle" ELSE "gone"
    /\ UNCHANGED <<empty, inflight, queue, consumerVars, history>>

-----------------------------------------------------------------------------
(* Consume, on thread c.                                                    *)

\* Mutant: available_.TryWait()'s answer is ignored.
ConsumeUnavailable(c) ==
    /\ consumer[c] = "idle"
    /\ available' = IF available > 0 THEN available - 1 ELSE 0
    /\ consumer' = [consumer EXCEPT ![c] = "taken"]
    /\ UNCHANGED <<producerVars, queue, held, status, history>>

\* available_.TryWait().  When it fails Consume returns NoneAvailable.
ConsumeTryWait(c) ==
    /\ consumer[c] = "idle"
    /\ available > 0
    /\ available' = available - 1
    /\ consumer' = [consumer EXCEPT ![c] = "taken"]
    /\ UNCHANGED <<producerVars, queue, held, status, history>>

\* front and pop_front, under queue_mutex_; the resource goes to the consumer.
ConsumePop(c) ==
    /\ consumer[c] = "taken"
    /\ queue # <<>>
    /\ held' = [held EXCEPT ![c] = Head(queue)]
    /\ queue' = Tail(queue)
    /\ popped' = IF Head(queue).id > popped THEN Head(queue).id ELSE popped
    /\ consumer' = [consumer EXCEPT ![c] = "consuming"]
    /\ UNCHANGED <<producerVars, available, status, frames, fronts, dropped>>

\* front and pop_front of an empty deque are undefined; nothing is claimed of
\* the thread from here on.
ConsumePopEmpty(c) ==
    /\ consumer[c] = "taken"
    /\ queue = <<>>
    /\ consumer' = [consumer EXCEPT ![c] = "undefined"]
    /\ UNCHANGED <<producerVars, available, queue, held, status, history>>

\* The consumer callback returned with raster status s; empty_.Signal().
\* DoDraw never resubmits a null layer tree.
ConsumeSignal(c, s) ==
    /\ consumer[c] = "consuming"
    /\ s = "kResubmit" => held[c].tree /\ fronts < MaxFronts
    /\ status' = [status EXCEPT ![c] = s]
    /\ empty' = empty + 1
    /\ consumer' = [consumer EXCEPT ![c] = "released"]
    /\ UNCHANGED <<available, inflight, queue, producer, held, history>>

\* --inflight_ and return.  The rasterizer resubmits a frame it could not draw
\* on this thread: Draw goes on with ProduceToFront, which takes no slot.
ConsumeReturn(c) ==
    /\ consumer[c] = "released"
    /\ inflight' = inflight - 1
    /\ consumer' = [consumer EXCEPT ![c] =
                      IF status[c] = "kResubmit" THEN "resubmitting" ELSE "idle"]
    /\ UNCHANGED <<empty, available, queue, producer, held, status, history>>

-----------------------------------------------------------------------------
(* ProduceToFront().Complete(resource): ProducerCommitFront, on thread c.   *)

\* Resources are popped off the back until the depth is respected.
KeepDepth(q) == IF Len(q) > Depth THEN SubSeq(q, 1, Depth) ELSE q

\* emplace_front and the pop_back loop, under queue_mutex_.
CommitFront(c) ==
    /\ consumer[c] = "resubmitting"
    /\ queue' = KeepDepth(<<held[c]>> \o queue)
    /\ fronts' = fronts + 1
    /\ dropped' = dropped + (Len(queue) + 1 - Len(queue'))
    /\ consumer' = [consumer EXCEPT ![c] = "fronted"]
    /\ UNCHANGED <<producerVars, available, held, status, frames, popped>>

\* Mutant: a commit to the front is not signalled.
CommitFrontUnsignalled(c) ==
    /\ consumer[c] = "fronted"
    /\ consumer' = [consumer EXCEPT ![c] = "idle"]
    /\ UNCHANGED <<producerVars, available, queue, held, status, history>>

\* available_.Signal() after the mutex is released.
CommitFrontSignal(c) ==
    /\ consumer[c] = "fronted"
    /\ available' = available + 1
    /\ consumer' = [consumer EXCEPT ![c] = "idle"]
    /\ UNCHANGED <<producerVars, queue, held, status, history>>

-----------------------------------------------------------------------------
ProducerStep == ProduceTryWait \/ ProduceCount \/ Complete \/ DropContinuation
                \/ CommitSignal

\* A consumer that rasterizes, or fails to rasterize, what it was handed.
ConsumerStep(c) ==
    \/ ConsumeTryWait(c) \/ ConsumePop(c) \/ ConsumePopEmpty(c)
    \/ ConsumeSignal(c, "kSuccess") \/ ConsumeReturn(c)

\* A consumer that also resubmits frames to the front.
ResubmitStep(c) ==
    ConsumeSignal(c, "kResubmit") \/ CommitFront(c) \/ CommitFrontSignal(c)

\* The pipeline of a shell whose surface has no external view embedder: frames
\* are never resubmitted.
FifoNext == ProducerStep \/ \E c \in Consumers : ConsumerStep(c)
FifoSpec == Init /\ [][FifoNext]_vars

\* The pipeline with resubmission.
Next == FifoNext \/ \E c \in Consumers : ResubmitStep(c)
Spec == Init /\ [][Next]_vars

-----------------------------------------------------------------------------
(* Properties.                                                              *)

\* The number of consumer threads at one of the points S.
At(S) == {c \in Consumers : consumer[c] \in S}
Consuming == Cardinality(At({"consuming"}))
Claiming == Cardinality(At({"taken", "fronted", "undefined"}))
Releasing == Cardinality(At({"released"}))

\* The number of slots the producer has reserved and not filled.
Reserved == IF producer \in {"reserved", "holding"} THEN 1 ELSE 0

\* The number of slots the producer has reserved and not yet counted.
Uncounted == IF producer = "reserved" THEN 1 ELSE 0

\* The number of resources the producer has queued and not yet signalled.
Unsignalled == IF producer \in {"signal", "finalSignal"} THEN 1 ELSE 0

TypeOK ==
    /\ empty \in Nat /\ available \in Nat /\ inflight \in Int
    /\ queue \in Seq(Resource)
    /\ producer \in ProducerState
    /\ consumer \in [Consumers -> ConsumerState]
    /\ held \in [Consumers -> Resource]
    /\ status \in [Consumers -> {"kFailed", "kSuccess", "kResubmit"}]
    /\ frames \in Nat /\ popped \in Nat /\ fronts \in Nat /\ dropped \in Nat

\* empty_ accounts for every slot, whatever the interleaving of Produce,
\* Consume and ProduceToFront: a slot is free, reserved, queued or being
\* consumed.  ProduceToFront takes no slot but Consume gives one back for it,
\* so every commit to the front adds a slot for good, and every resource
\* dropped to preserve the depth loses one.
SlotAccount ==
    empty + Reserved + Len(queue) + Consuming + dropped = Depth + fronts

\* available_ accounts for every queued resource: it is signalled, about to be
\* signalled, or claimed by a thread in Consume.  A resource dropped by
\* ProducerCommitFront leaves its signal behind.
AvailableAccount ==
    available + Unsignalled + Claiming = Len(queue) + dropped

\* inflight_ and empty_ are changed together up to the steps in between: what
\* is not free is in flight.
InflightAccount ==
    inflight + empty + Uncounted = Depth + Releasing

\* "we drop the last frame to preserve the depth of the pipeline"
\* (pipeline.h:117): the queue never holds more than depth_ resources.
DepthPreserved == Len(queue) <= Depth

\* Consume never takes the front of an empty queue_: a successful TryWait on
\* available_ (pipeline.h:137) guarantees a resource at pipeline.h:147.
NeverPopsEmpty == At({"undefined"}) = {}

\* Without resubmission the queue is first-in first-out and loses nothing: it
\* holds exactly the resources committed and not handed out, in commit order,
\* however many threads consume.
FifoOrder ==
    /\ popped + Len(queue) = frames
    /\ \A i \in 1..Len(queue) : queue[i].id = popped + i

Fifo == INSTANCE BoundedFifo
          WITH Bound <- Depth, sent <- frames, received <- popped

\* Without resubmission the pipeline implements the bounded queue: resources
\* are handed out in commit order, each once, and the producer is never more
\* than depth_ resources ahead of the consumers (pipeline.h:98-183).
ImplementsFifo == Fifo!Spec

\* Without resubmission Consume and ProducerCommit keep the queue_ within its depth
\* and in order, and never pop an empty one, with any number of consumer threads.
FifoSafety == DepthPreserved /\ NeverPopsEmpty /\ FifoOrder

\* The semaphores and inflight_ account for every slot and resource, through every
\* interleaving of Produce, Consume and ProduceToFront.
ResourceAccount == SlotAccount /\ AvailableAccount /\ InflightAccount
=============================================================================
