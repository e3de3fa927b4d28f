--------------------------- MODULE PipelineProofs ---------------------------
(***************************************************************************)
(* Theorems about the pipeline, for every depth and every finite set of    *)
(* consumer threads.                                                       *)
(***************************************************************************)
EXTENDS Pipeline, FiniteSetTheorems, SequenceTheorems, TLAPS

\* How a step of thread c alone changes the number of threads at S.
LEMMA CountStep ==
  ASSUME NEW c \in Consumers, NEW CONSTANT S,
         \A d \in Consumers \ {c} : consumer'[d] = consumer[d]
  PROVE  Cardinality(At(S)') = Cardinality(At(S))
           - (IF consumer[c] \in S THEN 1 ELSE 0)
           + (IF consumer'[c] \in S THEN 1 ELSE 0)
<1>1. IsFiniteSet(At(S)) /\ Cardinality(At(S)) \in Nat
  BY ConsumersAssumption, FS_Subset, FS_CardinalityType DEF At
<1>3. CASE consumer[c] \notin S /\ consumer'[c] \in S
  <2>1. At(S)' = At(S) \cup {c} /\ c \notin At(S)
    BY <1>3 DEF At
  <2>2. Cardinality(At(S)') = Cardinality(At(S)) + 1
    BY <2>1, <1>1, FS_AddElement
  <2> QED BY <2>2, <1>1, <1>3
<1>4. CASE consumer[c] \in S /\ consumer'[c] \notin S
  <2>1. At(S)' = At(S) \ {c} /\ c \in At(S)
    BY <1>4 DEF At
  <2>2. Cardinality(At(S)') = Cardinality(At(S)) - 1
    BY <2>1, <1>1, FS_RemoveElement
  <2> QED BY <2>2, <1>1, <1>4
<1>5. CASE consumer[c] \in S <=> consumer'[c] \in S
  <2>1. At(S)' = At(S)
    BY <1>5 DEF At
  <2> QED BY <2>1, <1>1, <1>5
<1> QED BY <1>3, <1>4, <1>5

\* What KeepDepth(<<r>> \o q) leaves of a queue.
LEMMA FrontQueue ==
  ASSUME NEW q \in Seq(Resource), NEW r \in Resource
  PROVE  /\ KeepDepth(<<r>> \o q) \in Seq(Resource)
         /\ Len(KeepDepth(<<r>> \o q)) \in 1..(Len(q) + 1)
         /\ Len(KeepDepth(<<r>> \o q)) <= Depth
         /\ KeepDepth(<<r>> \o q) # <<>>
<1> DEFINE p == <<r>> \o q
<1>1. <<r>> \in Seq(Resource) /\ Len(<<r>>) = 1
  OBVIOUS
<1>2. p \in Seq(Resource) /\ Len(p) = Len(q) + 1 /\ Len(q) \in Nat
  BY <1>1, ConcatProperties
<1> HIDE DEF p
<1>3. CASE Len(p) > Depth
  <2>1. SubSeq(p, 1, Depth) \in Seq(Resource) /\ Len(SubSeq(p, 1, Depth)) = Depth
    BY <1>2, <1>3, DepthAssumption, SubSeqProperties
  <2> QED BY <1>2, <1>3, <2>1, DepthAssumption DEF KeepDepth, p
<1>4. CASE ~(Len(p) > Depth)
  BY <1>2, <1>4, DepthAssumption DEF KeepDepth, p
<1> QED BY <1>3, <1>4

\* The pipeline's variables keep their types, with resubmission and without.
THEOREM TypeCorrect == Spec => []TypeOK
<1>1. Init => TypeOK
  BY DepthAssumption
     DEF Init, TypeOK, Resource, NoResource, ProducerState, ConsumerState
<1>2. TypeOK /\ [Next]_vars => TypeOK'
  <2> SUFFICES ASSUME TypeOK, [Next]_vars PROVE TypeOK'
    OBVIOUS
  <2> USE DEF TypeOK, ProducerState, ConsumerState, producerVars, consumerVars, history
  <2>1. CASE ProduceTryWait
    BY <2>1 DEF ProduceTryWait
  <2>2. CASE ProduceCount
    BY <2>2 DEF ProduceCount
  <2>3. ASSUME NEW tree \in BOOLEAN, Push(tree)
        PROVE  /\ queue' \in Seq(Resource) /\ frames' \in Nat
               /\ UNCHANGED <<empty, available, inflight, consumer, held, status,
                              popped, fronts, dropped>>
    BY <2>3 DEF Push, Resource
  <2>4. CASE Complete
    BY <2>3, <2>4 DEF Complete
  <2>5. CASE DropContinuation
    BY <2>3, <2>5 DEF DropContinuation
  <2>6. CASE CommitSignal
    BY <2>6 DEF CommitSignal
  <2>7. ASSUME NEW c \in Consumers, ConsumeTryWait(c) PROVE TypeOK'
    BY <2>7 DEF ConsumeTryWait
  <2>8. ASSUME NEW c \in Consumers, ConsumePop(c) PROVE TypeOK'
    <3>1. Head(queue) \in Resource /\ Tail(queue) \in Seq(Resource)
      BY <2>8, HeadTailProperties DEF ConsumePop
    <3>2. Head(queue).id \in Nat
      BY <3>1 DEF Resource
    <3> QED BY <2>8, <3>1, <3>2 DEF ConsumePop
  <2>9. ASSUME NEW c \in Consumers, ConsumePopEmpty(c) PROVE TypeOK'
    BY <2>9 DEF ConsumePopEmpty
  <2>10. ASSUME NEW c \in Consumers, NEW s \in {"kSuccess", "kResubmit"},
                ConsumeSignal(c, s)
         PROVE  TypeOK'
    BY <2>10 DEF ConsumeSignal
  <2>11. ASSUME NEW c \in Consumers, ConsumeReturn(c) PROVE TypeOK'
    BY <2>11 DEF ConsumeReturn
  <2>12. ASSUME NEW c \in Consumers, CommitFront(c) PROVE TypeOK'
    <3>1. /\ queue' \in Seq(Resource) /\ Len(queue') \in 1..(Len(queue) + 1)
      BY <2>12, FrontQueue DEF CommitFront
    <3> QED BY <2>12, <3>1 DEF CommitFront
  <2>13. ASSUME NEW c \in Consumers, CommitFrontSignal(c) PROVE TypeOK'
    BY <2>13 DEF CommitFrontSignal
  <2>14. CASE UNCHANGED vars
    BY <2>14 DEF vars
  <2> QED
    BY <2>1, <2>2, <2>4, <2>5, <2>6, <2>7, <2>8, <2>9, <2>10, <2>11, <2>12,
       <2>13, <2>14 DEF Next, FifoNext, ProducerStep, ConsumerStep, ResubmitStep
<1> QED BY <1>1, <1>2, PTL DEF Spec

Accounts == SlotAccount /\ AvailableAccount /\ InflightAccount

\* What a step of thread c does to the counts of the accounts.
CountsMove(c) ==
    /\ Consuming' = Consuming - (IF consumer[c] = "consuming" THEN 1 ELSE 0)
                              + (IF consumer'[c] = "consuming" THEN 1 ELSE 0)
    /\ Claiming' = Claiming
         - (IF consumer[c] \in {"taken", "fronted", "undefined"} THEN 1 ELSE 0)
         + (IF consumer'[c] \in {"taken", "fronted", "undefined"} THEN 1 ELSE 0)
    /\ Releasing' = Releasing - (IF consumer[c] = "released" THEN 1 ELSE 0)
                              + (IF consumer'[c] = "released" THEN 1 ELSE 0)

\* A step that moves thread c alone changes the counts by what c contributes.
LEMMA Counts ==
  ASSUME NEW c \in Consumers,
         \A d \in Consumers \ {c} : consumer'[d] = consumer[d]
  PROVE  CountsMove(c)
<1>1. Cardinality(At({"consuming"})') = Cardinality(At({"consuming"}))
        - (IF consumer[c] \in {"consuming"} THEN 1 ELSE 0)
        + (IF consumer'[c] \in {"consuming"} THEN 1 ELSE 0)
  BY CountStep
<1>2. Cardinality(At({"taken", "fronted", "undefined"})') = Cardinality(At({"taken", "fronted", "undefined"}))
        - (IF consumer[c] \in {"taken", "fronted", "undefined"} THEN 1 ELSE 0)
        + (IF consumer'[c] \in {"taken", "fronted", "undefined"} THEN 1 ELSE 0)
  BY CountStep
<1>3. Cardinality(At({"released"})') = Cardinality(At({"released"}))
        - (IF consumer[c] \in {"released"} THEN 1 ELSE 0)
        + (IF consumer'[c] \in {"released"} THEN 1 ELSE 0)
  BY CountStep
<1> QED BY <1>1, <1>2, <1>3 DEF CountsMove, Consuming, Claiming, Releasing

\* The counts are numbers.
LEMMA CountsType == Consuming \in Nat /\ Claiming \in Nat /\ Releasing \in Nat
<1>1. ASSUME NEW CONSTANT S
      PROVE  IsFiniteSet(At(S)) /\ Cardinality(At(S)) \in Nat
  BY ConsumersAssumption, FS_Subset, FS_CardinalityType DEF At
<1> QED BY <1>1 DEF Consuming, Claiming, Releasing

\* The slots of empty_, the signals of available_ and the count inflight_ are
\* accounted for at every point of every interleaving, with resubmission:
\* Consume returns a slot that ProduceToFront never took, and
\* ProducerCommitFront drops resources whose signals stay behind.
THEOREM AccountsHold == Spec => [](SlotAccount /\ AvailableAccount /\ InflightAccount)
<1>1. Init => Accounts
  <2> SUFFICES ASSUME Init PROVE Accounts
    OBVIOUS
  <2>1. \A S : S \cap {"idle"} = {} => At(S) = {}
    BY DEF Init, At
  <2>2. Consuming = 0 /\ Claiming = 0 /\ Releasing = 0
    BY <2>1, FS_EmptySet DEF Consuming, Claiming, Releasing
  <2> QED BY <2>2, DepthAssumption
          DEF Init, Accounts, SlotAccount, AvailableAccount, InflightAccount,
              Reserved, Unsignalled, Uncounted
<1>2. TypeOK /\ TypeOK' /\ Accounts /\ [Next]_vars => Accounts'
  <2> SUFFICES ASSUME TypeOK, TypeOK', Accounts, [Next]_vars PROVE Accounts'
    OBVIOUS
  <2>0. /\ Consuming \in Nat /\ Claiming \in Nat /\ Releasing \in Nat
        /\ Consuming' \in Nat /\ Claiming' \in Nat /\ Releasing' \in Nat
        /\ Len(queue) \in Nat /\ Len(queue') \in Nat
    <3>1. (Consuming \in Nat /\ Claiming \in Nat /\ Releasing \in Nat)'
      BY CountsType, PTL
    <3>2. Len(queue) \in Nat /\ Len(queue') \in Nat
      BY DEF TypeOK
    <3> QED BY <3>1, <3>2, CountsType
  <2>a. UNCHANGED consumer => UNCHANGED <<Consuming, Claiming, Releasing>>
    BY DEF At, Consuming, Claiming, Releasing
  <2>b. /\ Reserved \in Nat /\ Unsignalled \in Nat /\ Uncounted \in Nat
        /\ UNCHANGED producer => UNCHANGED <<Reserved, Unsignalled, Uncounted>>
    BY DEF Reserved, Unsignalled, Uncounted
  <2>n. /\ empty \in Int /\ available \in Int /\ inflight \in Int /\ fronts \in Int
        /\ dropped \in Int /\ Depth \in Int
    BY DepthAssumption DEF TypeOK
  <2> USE DEF Accounts, SlotAccount, AvailableAccount, InflightAccount,
              producerVars, consumerVars, history
  <2>1. CASE ProduceTryWait
    BY <2>0, <2>1, <2>a, DepthAssumption
       DEF ProduceTryWait, TypeOK, Reserved, Unsignalled, Uncounted
  <2>2. CASE ProduceCount
    BY <2>0, <2>2, <2>a, DepthAssumption
       DEF ProduceCount, TypeOK, Reserved, Unsignalled, Uncounted
  <2>3. ASSUME NEW tree, Push(tree)
        PROVE  Len(queue') = Len(queue) + 1
    BY <2>3 DEF Push, TypeOK
  <2>4. CASE Complete
    BY <2>0, <2>3, <2>4, <2>a, DepthAssumption
       DEF Complete, Push, TypeOK, Reserved, Unsignalled, Uncounted
  <2>5. CASE DropContinuation
    BY <2>0, <2>3, <2>5, <2>a, DepthAssumption
       DEF DropContinuation, Push, TypeOK, Reserved, Unsignalled, Uncounted
  <2>6. CASE CommitSignal
    BY <2>0, <2>6, <2>a, DepthAssumption
       DEF CommitSignal, TypeOK, Reserved, Unsignalled, Uncounted
  <2>7. ASSUME NEW c \in Consumers, ConsumeTryWait(c) PROVE Accounts'
    <3>0. /\ consumer[c] = "idle" /\ consumer'[c] = "taken"
          /\ \A d \in Consumers \ {c} : consumer'[d] = consumer[d]
      BY <2>7 DEF ConsumeTryWait, TypeOK
    <3>c. CountsMove(c)
      BY <3>0, Counts
    <3>1. Consuming' = Consuming /\ Claiming' = Claiming + 1 /\ Releasing' = Releasing
      BY <3>0, <3>c, <2>0 DEF CountsMove
    <3> QED BY <2>0, <2>b, <2>7, <3>1, DepthAssumption DEF ConsumeTryWait, TypeOK
  <2>8. ASSUME NEW c \in Consumers, ConsumePop(c) PROVE Accounts'
    <3>0. /\ consumer[c] = "taken" /\ consumer'[c] = "consuming"
          /\ \A d \in Consumers \ {c} : consumer'[d] = consumer[d]
      BY <2>8 DEF ConsumePop, TypeOK
    <3>c. CountsMove(c)
      BY <3>0, Counts
    <3>1. Consuming' = Consuming + 1 /\ Claiming' = Claiming - 1 /\ Releasing' = Releasing
      BY <3>0, <3>c, <2>0 DEF CountsMove
    <3>2. Len(queue') = Len(queue) - 1
      BY <2>8, HeadTailProperties DEF ConsumePop, TypeOK
    <3>3. UNCHANGED <<empty, available, inflight, producer, fronts, dropped>>
      BY <2>8 DEF ConsumePop
    <3> QED BY <2>0, <2>b, <2>n, <3>1, <3>2, <3>3
  <2>9. ASSUME NEW c \in Consumers, ConsumePopEmpty(c) PROVE Accounts'
    <3>0. /\ consumer[c] = "taken" /\ consumer'[c] = "undefined"
          /\ \A d \in Consumers \ {c} : consumer'[d] = consumer[d]
      BY <2>9 DEF ConsumePopEmpty, TypeOK
    <3>c. CountsMove(c)
      BY <3>0, Counts
    <3>1. Consuming' = Consuming /\ Claiming' = Claiming /\ Releasing' = Releasing
      BY <3>0, <3>c, <2>0 DEF CountsMove
    <3> QED BY <2>0, <2>b, <2>9, <3>1, DepthAssumption DEF ConsumePopEmpty, TypeOK
  <2>10. ASSUME NEW c \in Consumers, NEW s, ConsumeSignal(c, s) PROVE Accounts'
    <3>0. /\ consumer[c] = "consuming" /\ consumer'[c] = "released"
          /\ \A d \in Consumers \ {c} : consumer'[d] = consumer[d]
      BY <2>10 DEF ConsumeSignal, TypeOK
    <3>c. CountsMove(c)
      BY <3>0, Counts
    <3>1. Consuming' = Consuming - 1 /\ Claiming' = Claiming /\ Releasing' = Releasing + 1
      BY <3>0, <3>c, <2>0 DEF CountsMove
    <3> QED BY <2>0, <2>b, <2>10, <3>1, DepthAssumption DEF ConsumeSignal, TypeOK
  <2>11. ASSUME NEW c \in Consumers, ConsumeReturn(c) PROVE Accounts'
    <3>0. /\ consumer[c] = "released" /\ consumer'[c] \in {"resubmitting", "idle"}
          /\ \A d \in Consumers \ {c} : consumer'[d] = consumer[d]
      BY <2>11 DEF ConsumeReturn, TypeOK
    <3>c. CountsMove(c)
      BY <3>0, Counts
    <3>1. Consuming' = Consuming /\ Claiming' = Claiming /\ Releasing' = Releasing - 1
      BY <3>0, <3>c, <2>0 DEF CountsMove
    <3> QED BY <2>0, <2>b, <2>11, <3>1, DepthAssumption DEF ConsumeReturn, TypeOK
  <2>12. ASSUME NEW c \in Consumers, CommitFront(c) PROVE Accounts'
    <3>0. /\ consumer[c] = "resubmitting" /\ consumer'[c] = "fronted"
          /\ \A d \in Consumers \ {c} : consumer'[d] = consumer[d]
      BY <2>12 DEF CommitFront, TypeOK
    <3>c. CountsMove(c)
      BY <3>0, Counts
    <3>1. Consuming' = Consuming /\ Claiming' = Claiming + 1 /\ Releasing' = Releasing
      BY <3>0, <3>c, <2>0 DEF CountsMove
    <3>2. /\ UNCHANGED <<empty, available, inflight, producer>>
          /\ fronts' = fronts + 1
          /\ dropped' = dropped + (Len(queue) + 1 - Len(queue'))
      BY <2>12 DEF CommitFront
    <3> QED BY <2>0, <2>b, <2>n, <3>1, <3>2
  <2>13. ASSUME NEW c \in Consumers, CommitFrontSignal(c) PROVE Accounts'
    <3>0. /\ consumer[c] = "fronted" /\ consumer'[c] = "idle"
          /\ \A d \in Consumers \ {c} : consumer'[d] = consumer[d]
      BY <2>13 DEF CommitFrontSignal, TypeOK
    <3>c. CountsMove(c)
      BY <3>0, Counts
    <3>1. Consuming' = Consuming /\ Claiming' = Claiming - 1 /\ Releasing' = Releasing
      BY <3>0, <3>c, <2>0 DEF CountsMove
    <3> QED BY <2>0, <2>b, <2>13, <3>1, DepthAssumption DEF CommitFrontSignal, TypeOK
  <2>14. CASE UNCHANGED vars
    BY <2>14, <2>a, <2>b DEF vars
  <2> QED
    BY <2>1, <2>2, <2>4, <2>5, <2>6, <2>7, <2>8, <2>9, <2>10, <2>11, <2>12,
       <2>13, <2>14 DEF Next, FifoNext, ProducerStep, ConsumerStep, ResubmitStep
<1> QED BY <1>1, <1>2, TypeCorrect, PTL DEF Spec, Accounts

-----------------------------------------------------------------------------
(* The pipeline without resubmission.                                       *)

\* A behaviour without resubmission is a behaviour of the pipeline.
LEMMA FifoIsPipeline == FifoSpec => Spec
<1>1. [FifoNext]_vars => [Next]_vars
  BY DEF Next
<1> QED BY <1>1, PTL DEF FifoSpec, Spec

\* What never happens without resubmission.
NoResubmission ==
    /\ fronts = 0 /\ dropped = 0
    /\ \A c \in Consumers : status[c] # "kResubmit"
                            /\ consumer[c] \notin {"resubmitting", "fronted"}

FifoInv == NoResubmission /\ NeverPopsEmpty /\ FifoOrder

\* A thread whose TryWait on available_ succeeded finds a resource.
LEMMA TakenFindsResource ==
  ASSUME TypeOK, AvailableAccount, dropped = 0,
         NEW c \in Consumers, consumer[c] = "taken"
  PROVE  queue # <<>>
<1> DEFINE S == At({"taken", "fronted", "undefined"})
<1>1. c \in S
  BY DEF At
<1>2. IsFiniteSet(S) /\ Cardinality(S) \in Nat
  BY ConsumersAssumption, FS_Subset, FS_CardinalityType DEF At
<1>3. Claiming # 0
  BY <1>1, <1>2, FS_EmptySet DEF Claiming
<1>4. Claiming \in Nat
  BY <1>2 DEF Claiming
<1>5. Unsignalled \in Nat
  BY DEF Unsignalled
<1>6. Len(queue) # 0
  BY <1>3, <1>4, <1>5 DEF AvailableAccount, TypeOK
<1> QED BY <1>6

\* Every step without resubmission keeps FifoInv, given the accounts.
LEMMA FifoInvStep ==
  TypeOK /\ AvailableAccount /\ FifoInv /\ [FifoNext]_vars => FifoInv'
<1> SUFFICES ASSUME TypeOK, AvailableAccount, FifoInv, [FifoNext]_vars
             PROVE  FifoInv'
  OBVIOUS
<1>0. Len(queue) \in Nat /\ popped \in Nat /\ frames \in Nat
  BY DEF TypeOK
<1>1. NoResubmission'
  <2> USE DEF NoResubmission, FifoInv, producerVars, consumerVars, history
  <2>1. ASSUME ProducerStep PROVE NoResubmission'
    BY <2>1 DEF ProducerStep, ProduceTryWait, ProduceCount, Complete,
                DropContinuation, Push, CommitSignal
  <2>2. ASSUME NEW c \in Consumers, ConsumerStep(c) PROVE NoResubmission'
    BY <2>2 DEF ConsumerStep, ConsumeTryWait, ConsumePop, ConsumePopEmpty,
                ConsumeSignal, ConsumeReturn, TypeOK
  <2>3. CASE UNCHANGED vars
    BY <2>3 DEF vars
  <2> QED BY <2>1, <2>2, <2>3 DEF FifoNext
<1>2. NeverPopsEmpty'
  <2> SUFFICES ASSUME NEW d \in Consumers PROVE consumer'[d] # "undefined"
    BY DEF NeverPopsEmpty, At
  <2>0. consumer[d] # "undefined"
    BY DEF FifoInv, NeverPopsEmpty, At
  <2> USE DEF producerVars, consumerVars, history
  <2>1. CASE ProducerStep
    BY <2>0, <2>1 DEF ProducerStep, ProduceTryWait, ProduceCount, Complete,
                DropContinuation, Push, CommitSignal
  <2>2. ASSUME NEW c \in Consumers, ConsumePopEmpty(c) PROVE FALSE
    BY <2>2, TakenFindsResource DEF ConsumePopEmpty, FifoInv, NoResubmission
  <2>3. ASSUME NEW c \in Consumers, ConsumerStep(c) PROVE consumer'[d] # "undefined"
    BY <2>0, <2>2, <2>3
       DEF ConsumerStep, ConsumeTryWait, ConsumePop, ConsumeSignal, ConsumeReturn, TypeOK
  <2>4. CASE UNCHANGED vars
    BY <2>0, <2>4 DEF vars
  <2> QED BY <2>1, <2>3, <2>4 DEF FifoNext
<1>3. FifoOrder'
  <2> USE DEF producerVars, consumerVars, history
  <2>0. /\ popped + Len(queue) = frames
        /\ \A i \in 1..Len(queue) : queue[i].id = popped + i
    BY DEF FifoInv, FifoOrder
  <2>a. UNCHANGED <<queue, frames, popped>> => FifoOrder'
    BY <2>0 DEF FifoOrder
  <2>1. ASSUME NEW tree \in BOOLEAN, Push(tree) PROVE FifoOrder'
    <3> DEFINE r == [id |-> frames + 1, tree |-> tree]
    <3>1. r \in Resource
      BY <1>0 DEF Resource
    <3>2. /\ Len(queue') = Len(queue) + 1
          /\ \A i \in 1..Len(queue) : queue'[i] = queue[i]
          /\ queue'[Len(queue) + 1] = r
      BY <2>1, <3>1, AppendProperties DEF Push, TypeOK
    <3>3. frames' = frames + 1 /\ popped' = popped
      BY <2>1 DEF Push
    <3> HIDE DEF r
    <3>4. r.id = popped + (Len(queue) + 1)
      BY <1>0, <2>0 DEF r
    <3>5. ASSUME NEW i \in 1..Len(queue') PROVE queue'[i].id = popped' + i
      <4>1. CASE i \in 1..Len(queue)
        BY <2>0, <3>2, <3>3, <4>1
      <4>2. CASE i = Len(queue) + 1
        BY <3>2, <3>3, <3>4, <4>2
      <4> QED BY <1>0, <3>2, <4>1, <4>2
    <3> QED BY <1>0, <2>0, <3>2, <3>3, <3>5 DEF FifoOrder
  <2>2. CASE ProducerStep
    <3>1. CASE Complete \/ DropContinuation
      BY <2>1, <3>1 DEF Complete, DropContinuation
    <3>2. CASE ProduceTryWait \/ ProduceCount \/ CommitSignal
      BY <2>a, <3>2 DEF ProduceTryWait, ProduceCount, CommitSignal
    <3> QED BY <2>2, <3>1, <3>2 DEF ProducerStep
  <2>3. ASSUME NEW c \in Consumers, ConsumePop(c) PROVE FifoOrder'
    <3>1. /\ queue # <<>> /\ queue' = Tail(queue) /\ frames' = frames
          /\ popped' = IF Head(queue).id > popped THEN Head(queue).id ELSE popped
      BY <2>3 DEF ConsumePop
    <3>2. Head(queue).id = popped + 1
      BY <2>0, <3>1 DEF TypeOK
    <3>3. popped' = popped + 1
      BY <1>0, <3>1, <3>2
    <3>4. /\ Len(queue') = Len(queue) - 1
          /\ \A i \in 1..Len(queue') : queue'[i] = queue[i + 1]
      BY <3>1, HeadTailProperties DEF TypeOK
    <3>5. ASSUME NEW i \in 1..Len(queue') PROVE queue'[i].id = popped' + i
      BY <1>0, <2>0, <3>3, <3>4
    <3> QED BY <1>0, <2>0, <3>1, <3>3, <3>4, <3>5 DEF FifoOrder
  <2>4. ASSUME NEW c \in Consumers, ConsumerStep(c) PROVE FifoOrder'
    <3>1. CASE ConsumePop(c)
      BY <2>3, <3>1
    <3>2. CASE ConsumeTryWait(c) \/ ConsumePopEmpty(c) \/ ConsumeReturn(c)
      BY <2>a, <3>2 DEF ConsumeTryWait, ConsumePopEmpty, ConsumeReturn
    <3>3. CASE ConsumeSignal(c, "kSuccess")
      BY <2>a, <3>3 DEF ConsumeSignal
    <3> QED BY <2>4, <3>1, <3>2, <3>3 DEF ConsumerStep
  <2>5. CASE UNCHANGED vars
    BY <2>a, <2>5 DEF vars
  <2> QED BY <2>2, <2>4, <2>5 DEF FifoNext
<1> QED BY <1>1, <1>2, <1>3 DEF FifoInv

\* The accounts and the order leave at most depth_ resources in the queue.
LEMMA DepthFollows ==
  TypeOK /\ SlotAccount /\ FifoInv => DepthPreserved
<1> SUFFICES ASSUME TypeOK, SlotAccount, FifoInv PROVE DepthPreserved
  OBVIOUS
<1>1. Consuming \in Nat /\ Reserved \in Nat
  BY CountsType DEF Reserved
<1>2. fronts = 0 /\ dropped = 0 /\ empty \in Nat /\ Len(queue) \in Nat
  BY DEF FifoInv, NoResubmission, TypeOK
<1>3. empty + Reserved + Len(queue) + Consuming = Depth
  BY <1>1, <1>2, DepthAssumption DEF SlotAccount
<1> QED BY <1>1, <1>2, <1>3, DepthAssumption DEF DepthPreserved

\* FifoInv holds throughout a pipeline without resubmission.
LEMMA FifoInvHolds == FifoSpec => []FifoInv
<1>1. Init => FifoInv
  BY DEF Init, FifoInv, NoResubmission, NeverPopsEmpty, At, FifoOrder
<1>2. FifoSpec => [](TypeOK /\ AvailableAccount)
  BY FifoIsPipeline, TypeCorrect, AccountsHold, PTL
<1> QED BY <1>1, <1>2, FifoInvStep, PTL DEF FifoSpec

\* Without resubmission, whatever the number of consumer threads: the queue
\* holds at most depth_ resources, Consume never takes the front of an empty
\* queue, and the queue is exactly the committed and not yet consumed
\* resources in commit order.
THEOREM FifoSafe == FifoSpec => [](DepthPreserved /\ NeverPopsEmpty /\ FifoOrder)
<1>1. FifoSpec => [](TypeOK /\ SlotAccount)
  BY FifoIsPipeline, TypeCorrect, AccountsHold, PTL
<1>2. FifoInv => NeverPopsEmpty /\ FifoOrder
  BY DEF FifoInv
<1> QED BY <1>1, <1>2, FifoInvHolds, DepthFollows, PTL

\* Without resubmission the pipeline implements a bounded first-in first-out
\* queue: every step commits the next resource, hands out the next resource,
\* or is invisible to the users of Produce and Consume.
THEOREM PipelineImplementsFifo == FifoSpec => ImplementsFifo
<1> USE DEF Fifo!Next, Fifo!Send, Fifo!Receive
<1>1. Init => Fifo!Init
  BY DEF Init, Fifo!Init
<1>2. TypeOK /\ SlotAccount /\ AvailableAccount /\ FifoInv /\ [FifoNext]_vars
        => [Fifo!Next]_<<frames, popped>>
  <2> SUFFICES ASSUME TypeOK, SlotAccount, AvailableAccount, FifoInv, [FifoNext]_vars
               PROVE  [Fifo!Next]_<<frames, popped>>
    OBVIOUS
  <2> USE DEF producerVars, consumerVars, history
  <2>0. Len(queue) \in Nat /\ popped \in Nat /\ frames \in Nat
        /\ popped + Len(queue) = frames
    BY DEF TypeOK, FifoInv, FifoOrder
  <2>1. CASE Complete \/ DropContinuation
    <3>1. /\ frames' = frames + 1 /\ popped' = popped /\ producer = "holding"
      BY <2>1 DEF Complete, DropContinuation, Push
    <3>2. Consuming \in Nat /\ Reserved = 1
      BY <3>1, CountsType DEF Reserved
    <3>3. fronts = 0 /\ dropped = 0 /\ empty \in Nat
      BY DEF FifoInv, NoResubmission, TypeOK
    <3>4. empty + 1 + Len(queue) + Consuming = Depth
      BY <2>0, <3>2, <3>3, DepthAssumption DEF SlotAccount
    <3>5. frames < popped + Depth
      BY <2>0, <3>2, <3>3, <3>4, DepthAssumption
    <3> QED BY <3>1, <3>5
  <2>2. CASE ProduceTryWait \/ ProduceCount \/ CommitSignal
    BY <2>2 DEF ProduceTryWait, ProduceCount, CommitSignal
  <2>3. ASSUME NEW c \in Consumers, ConsumePop(c)
        PROVE  [Fifo!Next]_<<frames, popped>>
    <3>1. /\ queue # <<>> /\ frames' = frames
          /\ popped' = IF Head(queue).id > popped THEN Head(queue).id ELSE popped
      BY <2>3 DEF ConsumePop
    <3>2. Head(queue).id = popped + 1 /\ Len(queue) > 0
      BY <3>1 DEF TypeOK, FifoInv, FifoOrder
    <3>3. popped' = popped + 1 /\ popped < frames
      BY <2>0, <3>1, <3>2
    <3> QED BY <3>1, <3>3
  <2>4. ASSUME NEW c \in Consumers,
               ConsumeTryWait(c) \/ ConsumePopEmpty(c) \/ ConsumeReturn(c)
               \/ ConsumeSignal(c, "kSuccess")
        PROVE  UNCHANGED <<frames, popped>>
    BY <2>4 DEF ConsumeTryWait, ConsumePopEmpty, ConsumeReturn, ConsumeSignal
  <2>5. CASE UNCHANGED vars
    BY <2>5 DEF vars
  <2> QED BY <2>1, <2>2, <2>3, <2>4, <2>5 DEF FifoNext, ProducerStep, ConsumerStep
<1>3. FifoSpec => [](TypeOK /\ SlotAccount /\ AvailableAccount)
  BY FifoIsPipeline, TypeCorrect, AccountsHold, PTL
<1> QED BY <1>1, <1>2, <1>3, FifoInvHolds, PTL
        DEF FifoSpec, ImplementsFifo, Fifo!Spec

\* The accounts of empty_, available_ and inflight_ together, as the runs check them.
THEOREM ResourcesAccounted == Spec => []ResourceAccount
  BY AccountsHold, PTL DEF ResourceAccount

\* What Produce and Consume promise together without resubmission: the depth is
\* kept, no empty queue_ is popped, and resources leave in commit order.
THEOREM FifoIsSafe == FifoSpec => []FifoSafety
  BY FifoSafe, PTL DEF FifoSafety
=============================================================================
