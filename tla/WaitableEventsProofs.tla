------------------------ MODULE WaitableEventsProofs ------------------------
(***************************************************************************)
(* The properties of WaitableEvents, for any number of waiting threads,    *)
(* signals and resets.                                                     *)
(***************************************************************************)
EXTENDS WaitableEvents, TLAPS

USE DEF Asleep

\* The type invariant in two parts, one with the Boolean variables.
FlagTypes == signaled \in BOOLEAN /\ expired \in BOOLEAN
OtherTypes ==
    /\ kind \in {"auto", "manual"}
    /\ signalId \in 0..MaxSignals /\ resets \in 0..MaxResets
    /\ waiting \in [Waiters -> {"out", "asleep", "notified"}]
    /\ timed \in [Waiters -> BOOLEAN]
    /\ lastId \in [Waiters -> 0..MaxSignals]
    /\ unblocked \in Nat

\* No thread remembers a signal that has not been given.
IdsGiven == \A t \in Waiters : lastId[t] <= signalId

EventInv ==
    FlagTypes /\ OtherTypes /\ IdsGiven /\ OneWaitPerSignal /\ SignalHasTaker /\ SignalReleasesAll

LEMMA InitHolds == EventInit => EventInv
<1> SUFFICES ASSUME EventInit PROVE EventInv
    OBVIOUS
<1>1. PICK k \in {"auto", "manual"} : EventInitOf(k)
    BY DEF EventInit
<1>2. FlagTypes
    BY <1>1 DEF EventInitOf, FlagTypes
<1>4. OtherTypes
    BY <1>1, EventBoundsAssumption DEF EventInitOf, OtherTypes
<1>3. IdsGiven /\ OneWaitPerSignal /\ SignalHasTaker /\ SignalReleasesAll
    BY <1>1 DEF EventInitOf, IdsGiven, OneWaitPerSignal, SignalHasTaker, SignalReleasesAll
<1>. QED
    BY <1>2, <1>3, <1>4 DEF EventInv

LEMMA SignalStep == EventInv /\ Signal => EventInv'
<1> SUFFICES ASSUME EventInv, Signal PROVE EventInv'
    OBVIOUS
<1> USE DEF EventInv
<1>1. FlagTypes' /\ OtherTypes'
    BY EventBoundsAssumption DEF Signal, FlagTypes, OtherTypes
<1>2. IdsGiven'
    BY DEF Signal, FlagTypes, OtherTypes, IdsGiven
<1>3. OneWaitPerSignal'
    BY DEF Signal, FlagTypes, OtherTypes, OneWaitPerSignal
<1>4. SignalHasTaker'
    BY DEF Signal, FlagTypes, OtherTypes, SignalHasTaker
<1>5. SignalReleasesAll'
    BY DEF Signal, FlagTypes, OtherTypes, SignalReleasesAll
<1>. QED
    BY <1>1, <1>2, <1>3, <1>4, <1>5

LEMMA ResetStep == EventInv /\ ResetEvent => EventInv'
<1> SUFFICES ASSUME EventInv, ResetEvent PROVE EventInv'
    OBVIOUS
<1> USE DEF EventInv
<1>1. FlagTypes'
    BY DEF ResetEvent, FlagTypes
<1>3. OtherTypes'
    BY EventBoundsAssumption DEF ResetEvent, OtherTypes
<1>2. IdsGiven' /\ OneWaitPerSignal' /\ SignalHasTaker' /\ SignalReleasesAll'
    BY DEF ResetEvent, FlagTypes, OtherTypes, IdsGiven, OneWaitPerSignal, SignalHasTaker, SignalReleasesAll
<1>. QED
    BY <1>1, <1>2, <1>3

\* A thread that is let out takes the signal of an auto-reset event with it.
LEMMA UnblockStep ==
    ASSUME EventInv, NEW t \in Waiters, Unblock(t), UNCHANGED <<kind, signalId, resets>>,
           kind = "auto" => signaled
    PROVE  EventInv'
<1> USE DEF EventInv
<1>0. FlagTypes'
    BY DEF Unblock, FlagTypes
<1>1. OtherTypes'
    BY EventBoundsAssumption DEF Unblock, Leave, OtherTypes
<1>2. IdsGiven'
    BY DEF Unblock, Leave, FlagTypes, OtherTypes, IdsGiven
<1>3. OneWaitPerSignal'
  <2> SUFFICES ASSUME kind = "auto" PROVE OneWaitPerSignal'
    BY DEF OneWaitPerSignal
  <2>1. ~signaled'
    BY DEF Unblock
  <2>2. unblocked < signalId
    BY DEF OneWaitPerSignal
  <2>3. unblocked' = unblocked + 1 /\ unblocked \in Nat /\ signalId \in Nat
    BY EventBoundsAssumption DEF Unblock, OtherTypes
  <2>. QED
    BY <2>1, <2>2, <2>3 DEF OneWaitPerSignal
<1>4. SignalHasTaker' /\ SignalReleasesAll'
    BY DEF Unblock, Leave, FlagTypes, OtherTypes, SignalHasTaker, SignalReleasesAll
<1>. QED
    BY <1>0, <1>1, <1>2, <1>3, <1>4

LEMMA ExpireStep ==
    ASSUME EventInv, NEW t \in Waiters, Expire(t), UNCHANGED <<kind, signalId, resets>>
    PROVE  EventInv'
<1> USE DEF EventInv
<1>1. FlagTypes' /\ OtherTypes'
    BY EventBoundsAssumption DEF Expire, Leave, FlagTypes, OtherTypes
<1>2. IdsGiven'
    BY DEF Expire, Leave, FlagTypes, OtherTypes, IdsGiven
<1>3. OneWaitPerSignal' /\ SignalHasTaker' /\ SignalReleasesAll'
    BY DEF Expire, Leave, FlagTypes, OtherTypes, OneWaitPerSignal, SignalHasTaker, SignalReleasesAll
<1>. QED
    BY <1>1, <1>2, <1>3

LEMMA BeginWaitStep ==
    ASSUME EventInv, NEW t \in Waiters, NEW withTimeout \in BOOLEAN, BeginWait(t, withTimeout)
    PROVE  EventInv'
<1>1. CASE signaled /\ Unblock(t)
    BY <1>1, UnblockStep DEF BeginWait
<1>2. CASE ~signaled /\ ~(signaled /\ Unblock(t))
    BY <1>2, EventBoundsAssumption DEF BeginWait, EventInv, FlagTypes, OtherTypes, IdsGiven, OneWaitPerSignal,
       SignalHasTaker, SignalReleasesAll
<1>. QED
    BY <1>1, <1>2 DEF BeginWait

LEMMA WakenedStep == ASSUME EventInv, NEW t \in Waiters, Wakened(t) PROVE EventInv'
<1>1. CASE Satisfied(t) /\ Unblock(t)
    BY <1>1, UnblockStep DEF Wakened, Satisfied
<1>2. CASE /\ ~Satisfied(t) /\ waiting' = [waiting EXCEPT ![t] = "asleep"]
           /\ UNCHANGED <<signaled, timed, lastId, unblocked, expired>>
    BY <1>2, EventBoundsAssumption DEF Wakened, Satisfied, EventInv, FlagTypes, OtherTypes, IdsGiven,
       OneWaitPerSignal, SignalHasTaker, SignalReleasesAll
<1>3. CASE timed[t] /\ Expire(t)
    BY <1>3, ExpireStep DEF Wakened
<1>. QED
    BY <1>1, <1>2, <1>3 DEF Wakened

LEMMA SpuriousStep == ASSUME EventInv, NEW t \in Waiters, EventSpuriousWakeup(t) PROVE EventInv'
    BY EventBoundsAssumption DEF EventSpuriousWakeup, EventInv, FlagTypes, OtherTypes, IdsGiven,
       OneWaitPerSignal, SignalHasTaker, SignalReleasesAll

LEMMA NextHolds == EventInv /\ [EventNext]_eventVars => EventInv'
<1> SUFFICES ASSUME EventInv, [EventNext]_eventVars PROVE EventInv'
    OBVIOUS
<1>1. CASE UNCHANGED eventVars
    BY <1>1 DEF eventVars, EventInv, FlagTypes, OtherTypes, IdsGiven, OneWaitPerSignal, SignalHasTaker,
       SignalReleasesAll
<1>2. ASSUME NEW t \in Waiters, TimeOut(t) PROVE EventInv'
    BY <1>2, ExpireStep DEF TimeOut
<1>. QED
    BY <1>1, <1>2, SignalStep, ResetStep, BeginWaitStep, WakenedStep, SpuriousStep DEF EventNext

LEMMA Invariant == EventSpec => []EventInv
    BY InitHolds, NextHolds, PTL DEF EventSpec

\* No signal of an auto-reset event unblocks two waits, for any number of threads.
THEOREM SignalsAreTakenOnce == EventSpec => []OneWaitPerSignal
    BY Invariant, PTL DEF EventInv

\* A signal of an auto-reset event always has a thread on its way to take it,
\* if any thread sleeps and none has timed out.
THEOREM SignalsAreTaken == EventSpec => []SignalHasTaker
    BY Invariant, PTL DEF EventInv

\* A signal of a manual-reset event leaves no waiting thread asleep.
THEOREM SignalsReleaseAll == EventSpec => []SignalReleasesAll
    BY Invariant, PTL DEF EventInv

\* No wait of a manual-reset event returns without a signal.
THEOREM NoWaitReturnsUnsignalled == EventSpec => ReturnsOnlyIfSignalled
<1> DEFINE Letting == kind = "manual" /\ unblocked' > unblocked =>
             signaled \/ \E t \in Waiters : waiting[t] = "notified" /\ signalId > lastId[t]
<1>1. ASSUME EventInv, EventNext PROVE Letting
  <2>1. ASSUME Signal \/ ResetEvent PROVE Letting
    BY <1>1, <2>1 DEF Signal, ResetEvent, EventInv, FlagTypes, OtherTypes
  <2>2. ASSUME NEW t \in Waiters, NEW w \in BOOLEAN, BeginWait(t, w) PROVE Letting
    BY <1>1, <2>2 DEF BeginWait, EventInv, FlagTypes, OtherTypes
  <2>3. ASSUME NEW t \in Waiters, Wakened(t) PROVE Letting
    <3>1. CASE Satisfied(t) /\ Unblock(t)
      BY <1>1, <2>3, <3>1 DEF Wakened, Satisfied, EventInv, FlagTypes, OtherTypes, IdsGiven
    <3>2. CASE unblocked' = unblocked
      BY <1>1, <3>2 DEF EventInv, FlagTypes, OtherTypes
    <3>. QED
      BY <2>3, <3>1, <3>2 DEF Wakened, Expire
  <2>4. ASSUME NEW t \in Waiters, TimeOut(t) \/ EventSpuriousWakeup(t) PROVE Letting
    BY <1>1, <2>4 DEF TimeOut, Expire, EventSpuriousWakeup, EventInv, FlagTypes, OtherTypes
  <2>. QED
    BY <1>1, <2>1, <2>2, <2>3, <2>4 DEF EventNext
<1>. QED
    BY <1>1, Invariant, PTL DEF EventSpec, ReturnsOnlyIfSignalled

\* What both waitable events promise their users, for any number of waiting threads.
THEOREM EventsAreSafe == EventSpec => EventSafe
<1>1. EventInv => EventTypeOK
    BY DEF EventInv, FlagTypes, OtherTypes, EventTypeOK
<1>. QED
    BY <1>1, Invariant, SignalsAreTakenOnce, SignalsAreTaken, SignalsReleaseAll,
       NoWaitReturnsUnsignalled, PTL DEF EventSafe
=============================================================================
