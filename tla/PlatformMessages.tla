------------------------- MODULE PlatformMessages -------------------------
(***************************************************************************)
(* Platform messages between an Android application and the framework:     *)
(* DartMessenger.java and PlatformViewAndroid on the platform thread, the  *)
(* window, dart:ui's hooks and the channel buffers on the UI thread, and   *)
(* the tasks that carry a message, or the response to one, from one thread *)
(* to the other.  The messages the platform sends to the framework are     *)
(* numbered, those the framework sends to the platform are its calls; all  *)
(* want a response and use one channel.  The framework's own messenger,    *)
(* which sets a handler and drains the buffer, is external.                *)
(***************************************************************************)
EXTENDS Naturals, Sequences, SequencesExt

CONSTANTS MaxMessages, MaxPlatformCalls, MaxEngineRestarts,  \* bounds
          Capacities                                         \* what a resize may ask for

ASSUME MessagesAssumption ==
    /\ {MaxMessages, MaxPlatformCalls, MaxEngineRestarts} \subseteq Nat /\ Capacities \subseteq Nat

VARIABLES uiTasks, platformTasks,  \* the tasks posted to each thread
          nextReplyId,             \* DartMessenger.nextReplyId: the messages are numbered with it
          pendingReplies,          \* DartMessenger.pendingReplies
          replies,                 \* the replies its callbacks got: <<message, message answered>>
          isolateNumber,           \* how many root isolates there have been; 0 before the first runs
          window,                  \* the window: next response id, pending responses, handler set,
                                   \* and the ids of the messages a buffer without room ignored
          buffer,                  \* the channel's ring buffer: capacity and stored closures
          handling,                \* closures that handlers have in hand
          draining,                \* the closures drain awaits: none or one
          callsMade,               \* the calls of the framework so far
          platformView,            \* PlatformViewAndroid: next response id and pending responses
          held,                    \* the Reply objects plugins keep
          answers                  \* the responses callbacks of calls got: <<call, call answered, isolate>>

messageVars == <<uiTasks, platformTasks, nextReplyId, pendingReplies, replies, isolateNumber, window,
                 buffer, handling, draining, callsMade, platformView, held, answers>>

platformVars == <<nextReplyId, pendingReplies, replies, platformView, held>>
uiVars == <<isolateNumber, window, buffer, handling, draining, callsMade, answers>>

Messages == 1..MaxMessages
PlatformCalls == [number : 1..MaxPlatformCalls, isolate : 1..MaxEngineRestarts + 1]

kDefaultBufferSize == 1

\* A pending map, from response ids to whom the response is for.
NoPending == [i \in {} |-> 0]
Inserted(pending, i, r) == [j \in DOMAIN pending \cup {i} |-> IF j = i THEN r ELSE pending[j]]
Erased(pending, i) == [j \in DOMAIN pending \ {i} |-> pending[j]]

NewWindow == [nextId |-> 1, pending |-> NoPending, handler |-> FALSE, ignored |-> {}]
NewBuffer == [capacity |-> kDefaultBufferSize, queue |-> <<>>]

MessagesTypeOK ==
    /\ \A i \in DOMAIN uiTasks : uiTasks[i].kind \in {"message", "resize", "answer"}
    /\ \A i \in DOMAIN platformTasks : platformTasks[i].kind \in {"call", "reply"}
    /\ nextReplyId \in 1..MaxMessages + 1 /\ pendingReplies \subseteq Messages
    /\ isolateNumber \in 0..MaxEngineRestarts + 1
    /\ window.nextId \in 1..MaxMessages + 1 /\ DOMAIN window.pending \subseteq Messages
    /\ window.ignored \subseteq DOMAIN window.pending
    /\ Len(buffer.queue) <= buffer.capacity
    /\ callsMade \in 0..MaxPlatformCalls
    /\ \A i \in DOMAIN platformView.pending : platformView.pending[i] \in PlatformCalls

MessagesInit ==
    /\ uiTasks = <<>> /\ platformTasks = <<>>
    /\ nextReplyId = 1 /\ pendingReplies = {} /\ replies = <<>>
    /\ isolateNumber = 0 /\ window = NewWindow /\ buffer = NewBuffer
    /\ handling = {} /\ draining = {} /\ callsMade = 0
    /\ platformView = [nextId |-> 1, pending |-> NoPending] /\ held = {} /\ answers = <<>>

-----------------------------------------------------------------------------
\* DartMessenger.send and, through JNI, the task the shell posts; a message is
\* for the application or asks for another size of the channel's buffer.
Send(kind, size) ==
    /\ nextReplyId <= MaxMessages
    /\ nextReplyId' = nextReplyId + 1 /\ pendingReplies' = pendingReplies \cup {nextReplyId}
    /\ uiTasks' = Append(uiTasks, [kind |-> kind, of |-> nextReplyId, size |-> size])
    /\ UNCHANGED <<platformTasks, replies, platformView, held, uiVars>>

\* handlePlatformMessageResponse.
HandleReply ==
    /\ platformTasks # <<>> /\ Head(platformTasks).kind = "reply"
    /\ LET t == Head(platformTasks) IN
       /\ pendingReplies' = pendingReplies \ {t.of}
       /\ replies' = IF t.of \in pendingReplies THEN Append(replies, <<t.of, t.by>>) ELSE replies
    /\ platformTasks' = Tail(platformTasks)
    /\ UNCHANGED <<uiTasks, nextReplyId, platformView, held, uiVars>>

\* CompletePlatformMessageResponse for the closures cs, one after the other:
\* a response that is still pending is erased and completed.
Respond(w, cs) ==
    LET first == SelectSeq(cs, LAMBDA c : c.id \in DOMAIN w.pending) IN
    /\ window' = [w EXCEPT !.pending = [i \in DOMAIN @ \ {c.id : c \in ToSet(cs)} |-> @[i]]]
    /\ platformTasks' = platformTasks \o
         [n \in DOMAIN first |-> [kind |-> "reply", of |-> w.pending[first[n].id], by |-> first[n].of]]

\* _dropOverflowItems: the oldest items, until limit are left.
DroppedBy(queue, limit) ==
    IF Len(queue) > limit THEN SubSeq(queue, 1, Len(queue) - limit) ELSE <<>>

\* _RingBuffer.push, with the items it drops; at capacity 0 it stores nothing,
\* drops nothing, and the closure is gone.
Push(b, c) ==
    IF b.capacity = 0 THEN [buffer |-> b, dropped |-> <<>>, ignored |-> {c.id}]
    ELSE LET dropped == DroppedBy(b.queue, b.capacity - 1)
         IN  [buffer |-> [b EXCEPT !.queue = Append(SubSeq(@, Len(dropped) + 1, Len(@)), c)],
              dropped |-> dropped, ignored |-> {}]

IsRootIsolateRunning == isolateNumber > 0

\* A message that reaches no isolate is dropped with its response.
DropMessage ==
    /\ uiTasks # <<>> /\ Head(uiTasks).kind \in {"message", "resize"} /\ ~IsRootIsolateRunning
    /\ uiTasks' = Tail(uiTasks) /\ UNCHANGED <<platformTasks, platformVars, uiVars>>

\* Window::DispatchPlatformMessage keeps the response under a new id.
Registered(m) == [window EXCEPT !.nextId = @ + 1, !.pending = Inserted(@, window.nextId, m)]

\* _dispatchPlatformMessage of a message: the handler gets it, or the buffer.
DispatchMessage ==
    /\ uiTasks # <<>> /\ Head(uiTasks).kind = "message" /\ IsRootIsolateRunning
    /\ LET m == Head(uiTasks).of
           c == [id |-> window.nextId, of |-> m]
       IN  IF window.handler
           THEN /\ window' = Registered(m) /\ handling' = handling \cup {c}
                /\ UNCHANGED <<buffer, platformTasks>>
           ELSE /\ buffer' = Push(buffer, c).buffer
                /\ Respond([Registered(m) EXCEPT !.ignored = @ \cup Push(buffer, c).ignored],
                           Push(buffer, c).dropped)
                /\ UNCHANGED handling
    /\ uiTasks' = Tail(uiTasks)
    /\ UNCHANGED <<platformVars, isolateNumber, draining, callsMade, answers>>

\* A message on the control channel: resize, then an empty response to it.
ResizeChannel ==
    /\ uiTasks # <<>> /\ Head(uiTasks).kind = "resize" /\ IsRootIsolateRunning
    /\ LET m == Head(uiTasks).of
           dropped == DroppedBy(buffer.queue, Head(uiTasks).size)
       IN  /\ buffer' = [capacity |-> Head(uiTasks).size,
                         queue |-> SubSeq(buffer.queue, Len(dropped) + 1, Len(buffer.queue))]
           /\ Respond(Registered(m), Append(dropped, [id |-> window.nextId, of |-> m]))
    /\ uiTasks' = Tail(uiTasks)
    /\ UNCHANGED <<platformVars, isolateNumber, handling, draining, callsMade, answers>>

\* A handler calls the closure, and may do so once more.
HandlerResponds(c) ==
    /\ c \in handling /\ Respond(window, <<c>>)
    /\ handling' \in {handling \ {c}, {h \in handling : h # c \/ c.id \in DOMAIN window.pending}}
    /\ UNCHANGED <<uiTasks, platformVars, isolateNumber, buffer, draining, callsMade, answers>>

\* drain, up to the next await: the first item is taken out and handled.
Drain ==
    /\ draining' = IF buffer.queue = <<>> THEN {} ELSE {Head(buffer.queue)}
    /\ handling' = handling \cup draining'
    /\ buffer' = IF buffer.queue = <<>> THEN buffer ELSE [buffer EXCEPT !.queue = Tail(@)]

\* The framework sets its handler and drains the buffer.
SetHandler ==
    /\ IsRootIsolateRunning /\ ~window.handler
    /\ window' = [window EXCEPT !.handler = TRUE] /\ Drain
    /\ UNCHANGED <<uiTasks, platformTasks, platformVars, isolateNumber, callsMade, answers>>

\* The await of drain: the handler has responded.
AwaitOver == draining # {} /\ \A c \in draining : c.id \notin DOMAIN window.pending

\* Mutant: only the first item is drained.
ContinueDrainStops ==
    /\ AwaitOver /\ draining' = {}
    /\ UNCHANGED <<uiTasks, platformTasks, platformVars, isolateNumber, window, buffer, handling, callsMade, answers>>

\* drain goes on.
ContinueDrain ==
    /\ AwaitOver /\ Drain
    /\ UNCHANGED <<uiTasks, platformTasks, platformVars, isolateNumber, window, callsMade, answers>>

\* Engine::Run and Restart: a new isolate with a new window; the pending
\* responses of the old one go with it.
LaunchIsolate ==
    /\ isolateNumber <= MaxEngineRestarts /\ isolateNumber' = isolateNumber + 1
    /\ window' = NewWindow /\ buffer' = NewBuffer /\ draining' = {} /\ handling' = {}
    /\ UNCHANGED <<uiTasks, platformTasks, platformVars, callsMade, answers>>

-----------------------------------------------------------------------------
\* SendPlatformMessage with a callback, and the task the shell posts.
Call ==
    /\ IsRootIsolateRunning /\ callsMade < MaxPlatformCalls /\ callsMade' = callsMade + 1
    /\ platformTasks' = Append(platformTasks,
                               [kind |-> "call", of |-> [number |-> callsMade + 1, isolate |-> isolateNumber]])
    /\ UNCHANGED <<uiTasks, platformVars, isolateNumber, window, buffer, handling, draining, answers>>

AnswerPosted(v, i, by) ==
    uiTasks' = IF i \in DOMAIN v.pending
               THEN Append(uiTasks, [kind |-> "answer", of |-> v.pending[i], by |-> by]) ELSE uiTasks

\* Mutant: the response stays pending.
InvokeResponseKeeps(v, i, by) == platformView' = v /\ AnswerPosted(v, i, by)

\* InvokePlatformMessageResponseCallback and the one for empty responses: a
\* response that is pending is erased and completed.
InvokeResponse(v, i, by) == platformView' = [v EXCEPT !.pending = Erased(@, i)] /\ AnswerPosted(v, i, by)

\* HandlePlatformMessage and handleMessageFromDart: the plugin keeps the Reply
\* to answer later, or there is no handler, or it throws, with the Reply in its
\* hands or not, and an empty response is sent at once.
HandleCall ==
    /\ platformTasks # <<>> /\ Head(platformTasks).kind = "call"
    /\ LET c == Head(platformTasks).of
           v == [nextId |-> platformView.nextId + 1, pending |-> Inserted(platformView.pending, platformView.nextId, c)]
           reply == [id |-> platformView.nextId, of |-> c]
       IN  \/ platformView' = v /\ held' = held \cup {reply} /\ UNCHANGED uiTasks
           \/ InvokeResponse(v, platformView.nextId, c) /\ held' \in {held, held \cup {reply}}
    /\ platformTasks' = Tail(platformTasks)
    /\ UNCHANGED <<nextReplyId, pendingReplies, replies, uiVars>>

\* Reply.reply; it throws when it is called again.
Reply(r) ==
    /\ r \in held /\ held' = held \ {r} /\ InvokeResponse(platformView, r.id, r.of)
    /\ UNCHANGED <<platformTasks, nextReplyId, pendingReplies, replies, uiVars>>

\* The task of PlatformMessageResponseDart: the callback, if its isolate lives.
RunAnswer ==
    /\ uiTasks # <<>> /\ Head(uiTasks).kind = "answer"
    /\ answers' = IF Head(uiTasks).of.isolate = isolateNumber
                  THEN Append(answers, <<Head(uiTasks).of, Head(uiTasks).by, isolateNumber>>) ELSE answers
    /\ uiTasks' = Tail(uiTasks)
    /\ UNCHANGED <<platformTasks, platformVars, isolateNumber, window, buffer, handling, draining, callsMade>>

UIStep == DropMessage \/ DispatchMessage \/ ResizeChannel \/ RunAnswer \/ ContinueDrain
          \/ \E c \in handling : HandlerResponds(c)
PlatformStep == HandleReply \/ HandleCall

MessagesNext ==
    \/ UIStep \/ PlatformStep
    \/ Send("message", 0) \/ \E size \in Capacities : Send("resize", size)
    \/ SetHandler \/ LaunchIsolate \/ Call
    \/ \E r \in held : Reply(r)

\* Both threads run their tasks, the handlers respond, as window.dart asks them
\* to, and the framework comes to set its handler.
MessagesFairness ==
    /\ WF_messageVars(UIStep) /\ WF_messageVars(PlatformStep) /\ WF_messageVars(SetHandler)
    /\ WF_messageVars(\E c \in handling : HandlerResponds(c))

MessagesSpec == MessagesInit /\ [][MessagesNext]_messageVars /\ MessagesFairness

-----------------------------------------------------------------------------
Occurrences(seq, Test(_)) == Len(SelectSeq(seq, Test))

\* A reply reaches the callback of the message it answers, and a response the
\* callback of the call it answers, though the ids start again with every window.
AnswersMatch ==
    /\ \A n \in DOMAIN replies : replies[n][1] = replies[n][2]
    /\ \A n \in DOMAIN answers : answers[n][1] = answers[n][2]

\* The callback of a call runs at most once, however often the plugin, its
\* exception handler and its kept Reply answer.
AnsweredOnce == \A c \in PlatformCalls : Occurrences(answers, LAMBDA a : a[1] = c) <= 1

\* The callback of a call runs in the isolate that made the call.
AnsweredInItsIsolate == \A n \in DOMAIN answers : answers[n][1].isolate = answers[n][3]

\* What the window has pending: a handler, the buffer or drain has the closure
\* that answers it, so no response waits for something that cannot happen; only
\* a message that came while the capacity was 0 stays unanswered with its isolate.
ResponseHasClosure ==
    \A i \in DOMAIN window.pending \ window.ignored :
        \E c \in handling \cup ToSet(buffer.queue) : c.id = i

\* No response stays pending for ever but that of a message sent to a buffer of
\* capacity 0: it is completed, or goes with its isolate.
NoResponsePendsForever ==
    (DOMAIN window.pending # window.ignored) ~> (DOMAIN window.pending = window.ignored)

\* A message from Dart to the platform and back: its answer comes once, to the
\* isolate and the call it belongs to, over restarts of the engine.
MessagesSafe ==
    /\ MessagesTypeOK
    /\ AnswersMatch /\ AnsweredOnce /\ AnsweredInItsIsolate /\ ResponseHasClosure
=============================================================================
