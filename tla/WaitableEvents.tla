--------------------------- MODULE WaitableEvents ---------------------------
(***************************************************************************)
(* fml/synchronization/waitable_event.cc: an AutoResetWaitableEvent or a   *)
(* ManualResetWaitableEvent, signalled and reset by any thread and waited  *)
(* on by several.  A section under mutex_ is one step.  A thread in the    *)
(* wait of the condition variable is asleep; once notified it still has to *)
(* get the mutex back, and wait_for tells it by the clock, whether it was  *)
(* notified or not, if its time is up.                                     *)
(***************************************************************************)
EXTENDS Integers, FiniteSets

CONSTANTS Waiters,               \* the threads that wait
          MaxSignals, MaxResets  \* bounds

ASSUME EventBoundsAssumption == MaxSignals \in Nat /\ MaxResets \in Nat

VARIABLES kind,       \* which of the two classes the event is of
          signaled,   \* signaled_
          signalId,   \* signal_id_: the signals given so far
          waiting,    \* where each thread is in Wait or WaitWithTimeout
          timed,      \* it is in WaitWithTimeout
          lastId,     \* last_signal_id
          unblocked,  \* the waits that returned because of a signal
          resets,     \* the calls of Reset
          expired     \* a wait has returned for its time-out

eventVars == <<kind, signaled, signalId, waiting, timed, lastId, unblocked, resets, expired>>

EventTypeOK ==
    /\ kind \in {"auto", "manual"} /\ signaled \in BOOLEAN
    /\ signalId \in 0..MaxSignals /\ resets \in 0..MaxResets
    /\ waiting \in [Waiters -> {"out", "asleep", "notified"}]
    /\ timed \in [Waiters -> BOOLEAN]
    /\ lastId \in [Waiters -> 0..MaxSignals]
    /\ unblocked \in Nat /\ expired \in BOOLEAN

EventInitOf(k) ==
    /\ kind = k /\ signaled = FALSE /\ signalId = 0 /\ resets = 0
    /\ waiting = [t \in Waiters |-> "out"]
    /\ timed = [t \in Waiters |-> FALSE]
    /\ lastId = [t \in Waiters |-> 0]
    /\ unblocked = 0 /\ expired = FALSE

EventInit == \E k \in {"auto", "manual"} : EventInitOf(k)

Asleep == {t \in Waiters : waiting[t] = "asleep"}

\* As Signal would be without the notify_one of an auto-reset event.
SignalUnnotified ==
    /\ signalId < MaxSignals
    /\ signaled' = TRUE /\ signalId' = signalId + 1
    /\ waiting' = IF kind = "auto" THEN waiting
                  ELSE [t \in Waiters |-> IF t \in Asleep THEN "notified" ELSE waiting[t]]
    /\ UNCHANGED <<kind, timed, lastId, unblocked, resets, expired>>

\* Signal: notify_one on an auto-reset event, notify_all on a manual-reset one.
Signal ==
    /\ signalId < MaxSignals
    /\ signaled' = TRUE /\ signalId' = signalId + 1
    /\ \/ Asleep = {} /\ UNCHANGED waiting
       \/ kind = "auto" /\ \E t \in Asleep : waiting' = [waiting EXCEPT ![t] = "notified"]
       \/ /\ kind = "manual" /\ Asleep # {}
          /\ waiting' = [t \in Waiters |-> IF t \in Asleep THEN "notified" ELSE waiting[t]]
    /\ UNCHANGED <<kind, timed, lastId, unblocked, resets, expired>>

\* Reset, of both classes.
ResetEvent ==
    /\ resets < MaxResets /\ resets' = resets + 1
    /\ signaled' = FALSE
    /\ UNCHANGED <<kind, signalId, waiting, timed, lastId, unblocked, expired>>

\* The wait is over: it was the thread's own copy of timed and lastId.
Leave(t) ==
    /\ waiting' = [waiting EXCEPT ![t] = "out"]
    /\ timed' = [timed EXCEPT ![t] = FALSE] /\ lastId' = [lastId EXCEPT ![t] = 0]

\* The wait returns because the event is, or was, signalled.
Unblock(t) ==
    /\ Leave(t) /\ unblocked' = unblocked + 1
    /\ signaled' = (kind = "manual" /\ signaled)
    /\ UNCHANGED expired

\* It returns true: the time is up.
Expire(t) == Leave(t) /\ expired' = TRUE /\ UNCHANGED <<signaled, unblocked>>

\* Wait and WaitWithTimeout, until the mutex is released: at once if the event
\* is signalled, in the condition variable if it is not.
BeginWait(t, withTimeout) ==
    /\ waiting[t] = "out" /\ unblocked <= MaxSignals
    /\ \/ signaled /\ Unblock(t)
       \/ /\ ~signaled
          /\ waiting' = [waiting EXCEPT ![t] = "asleep"]
          /\ timed' = [timed EXCEPT ![t] = withTimeout]
          /\ lastId' = [lastId EXCEPT ![t] = signalId]
          /\ UNCHANGED <<signaled, unblocked, expired>>
    /\ UNCHANGED <<kind, signalId, resets>>

\* What ends the wait once a thread is awake: signaled_ of an auto-reset event,
\* a signal since the wait began of a manual-reset one.  WaitWithTimeout of the
\* latter looks at signaled_ too.
Satisfied(t) ==
    IF kind = "auto" THEN signaled
    ELSE signalId # lastId[t] \/ (timed[t] /\ signaled)

\* A thread that was woken has the mutex again: the wait is over, it sleeps on,
\* or its time is up, which is returned before signaled_ is looked at.
Wakened(t) ==
    /\ waiting[t] = "notified"
    /\ \/ Satisfied(t) /\ Unblock(t)
       \/ /\ ~Satisfied(t)
          /\ waiting' = [waiting EXCEPT ![t] = "asleep"]
          /\ UNCHANGED <<signaled, timed, lastId, unblocked, expired>>
       \/ timed[t] /\ Expire(t)
    /\ UNCHANGED <<kind, signalId, resets>>

\* The time of a sleeping thread is up.
TimeOut(t) ==
    /\ waiting[t] = "asleep" /\ timed[t]
    /\ Expire(t)
    /\ UNCHANGED <<kind, signalId, resets>>

\* Waits of condition variables return for no reason.
EventSpuriousWakeup(t) ==
    /\ waiting[t] = "asleep"
    /\ waiting' = [waiting EXCEPT ![t] = "notified"]
    /\ UNCHANGED <<kind, signaled, signalId, timed, lastId, unblocked, resets, expired>>

EventNext ==
    \/ Signal \/ ResetEvent
    \/ \E t \in Waiters :
         \/ \E withTimeout \in BOOLEAN : BeginWait(t, withTimeout)
         \/ Wakened(t) \/ TimeOut(t) \/ EventSpuriousWakeup(t)

EventSpec == EventInit /\ [][EventNext]_eventVars

-----------------------------------------------------------------------------
\* No signal of an auto-reset event unblocks two waits: each wait that returned
\* has a signal of its own, and a signal still there is one more.
OneWaitPerSignal ==
    kind = "auto" => unblocked <= signalId /\ (signaled => unblocked < signalId)

\* While an auto-reset event is signalled no thread sleeps in a wait unless one
\* is on its way out to take the signal.  (A thread whose time was up may be the
\* one notified, and leave without it: waits are compared until one expires.)
SignalHasTaker ==
    kind = "auto" /\ ~expired /\ signaled /\ Asleep # {} =>
        \E t \in Waiters : waiting[t] = "notified"

\* A signal of a manual-reset event releases every thread that was waiting when
\* it was given, whatever is reset before they run: none of them sleeps again.
SignalReleasesAll == kind = "manual" => \A t \in Asleep : lastId[t] = signalId

\* A thread let out of a manual-reset event's wait found a signal: before it was
\* called or since.
ReturnsOnlyIfSignalled ==
    [][kind = "manual" /\ unblocked' > unblocked =>
         signaled \/ \E t \in Waiters : waiting[t] = "notified" /\ signalId > lastId[t]]_eventVars

\* What AutoResetWaitableEvent and ManualResetWaitableEvent promise their users.
EventSafe ==
    /\ [](EventTypeOK /\ OneWaitPerSignal /\ SignalHasTaker /\ SignalReleasesAll)
    /\ ReturnsOnlyIfSignalled
=============================================================================
