-------------------- MODULE PointerDataPacketConverter --------------------
(***************************************************************************)
(* PointerDataPacketConverter (lib/ui/window/pointer_data_packet_converter *)
(* .cc): it turns what an embedder reports about its pointing devices into *)
(* the stream of events the framework relies on, by adding the events that *)
(* are missing.  Convert treats the data of a packet one after the other,  *)
(* so a step here is one datum; the data are those the FML_DCHECKs of      *)
(* ConvertPointerData admit.  A location is one number.                    *)
(***************************************************************************)
EXTENDS Integers, Sequences, SequencesExt

CONSTANTS Devices, Locations,
          MaxPointers   \* bound on pointer_, the identifiers given out

ASSUME ConverterAssumption == Locations \subseteq Int /\ MaxPointers \in Nat

VARIABLES states,    \* states_, a record for every device that is added
          pointer,   \* pointer_
          converted, \* the events made of the last datum
          seen       \* what the framework knew of the devices before them

converterVars == <<states, pointer, converted, seen>>

PointerState == [id : 0..MaxPointers, isDown : BOOLEAN, x : Locations]

\* What the framework knows of a device, from the events alone.
Unseen == [added |-> FALSE, down |-> FALSE, id |-> 0, x |-> 0]

ConverterTypeOK ==
    /\ DOMAIN states \subseteq Devices
    /\ \A d \in DOMAIN states : states[d] \in PointerState
    /\ pointer \in 0..MaxPointers
    /\ Len(converted) <= 3

NoStates == [d \in {} |-> [id |-> 0, isDown |-> FALSE, x |-> 0]]

ConverterInit ==
    /\ states = NoStates /\ pointer = 0
    /\ converted = <<>> /\ seen = [d \in Devices |-> Unseen]

\* An event; delta is 0 unless UpdateDeltaAndState sets it.
Datum(d, change, x) ==
    [device |-> d, change |-> change, x |-> x, id |-> 0, delta |-> 0, synthesized |-> FALSE]

Synthesized(e, change) == [e EXCEPT !.change = change, !.synthesized = TRUE]

EnsurePointerState(x) == [id |-> 0, isDown |-> FALSE, x |-> x]

LocationNeedsUpdate(e, s) == s.x # e.x

UpdatePointerIdentifier(e, s) == [e EXCEPT !.id = s.id]

UpdateDelta(e, s) == [e EXCEPT !.delta = e.x - s.x]

\* e, made to bridge the way from the location known to the one reported.
Bridge(e, s, change) ==
    IF LocationNeedsUpdate(e, s) THEN <<UpdateDelta(Synthesized(e, change), s)>> ELSE <<>>

\* The framework applies an event.
See(view, e) ==
    [view EXCEPT ![e.device] =
        CASE e.change = "add"    -> [added |-> TRUE, down |-> FALSE, id |-> 0, x |-> e.x]
          [] e.change = "down"   -> [@ EXCEPT !.down = TRUE, !.id = e.id]
          [] e.change \in {"up", "cancel"} -> [@ EXCEPT !.down = FALSE]
          [] e.change \in {"move", "hover"} -> [@ EXCEPT !.x = e.x]
          [] e.change = "remove" -> Unseen
          [] OTHER -> @]

SeenAfter(n) == FoldLeft(See, seen, SubSeq(converted, 1, n))

Emit(events) == converted' = events /\ seen' = SeenAfter(Len(converted))

Known(d) == d \in DOMAIN states

SetState(d, s) == states' = [i \in DOMAIN states \cup {d} |-> IF i = d THEN s ELSE states[i]]

EraseState(d) == states' = [i \in DOMAIN states \ {d} |-> states[i]]

-----------------------------------------------------------------------------
\* A cancel for a pointer that is not known is dropped.
kCancel(d, x) ==
    /\ Known(d) => states[d].isDown
    /\ UNCHANGED pointer
    /\ IF ~Known(d) THEN Emit(<<>>) /\ UNCHANGED states
       ELSE LET e == UpdatePointerIdentifier(Datum(d, "cancel", x), states[d]) IN
            /\ Emit(Bridge(e, states[d], "move") \o <<e>>)
            /\ SetState(d, [states[d] EXCEPT !.isDown = FALSE, !.x = x])

kAdd(d, x) ==
    /\ ~Known(d)
    /\ SetState(d, EnsurePointerState(x))
    /\ Emit(<<Datum(d, "add", x)>>) /\ UNCHANGED pointer

kRemove(d, x) ==
    /\ Known(d)
    /\ LET e == Datum(d, "remove", x)
           cancel == UpdatePointerIdentifier(Synthesized(e, "cancel"), states[d])
       IN  Emit((IF states[d].isDown THEN <<cancel>> ELSE <<>>) \o Bridge(e, states[d], "hover") \o <<e>>)
    /\ EraseState(d) /\ UNCHANGED pointer

\* The state hovering and pressing start from, and the add event that makes it.
StateOf(d, x) == IF Known(d) THEN states[d] ELSE EnsurePointerState(x)
Adding(e) == IF Known(e.device) THEN <<>> ELSE <<Synthesized(e, "add")>>

kHover(d, x) ==
    /\ ~StateOf(d, x).isDown
    /\ LET e == Datum(d, "hover", x)
           s == StateOf(d, x)
       IN  Emit(Adding(e) \o (IF LocationNeedsUpdate(e, s) THEN <<UpdateDelta(e, s)>> ELSE <<>>))
    /\ SetState(d, [StateOf(d, x) EXCEPT !.x = x])
    /\ UNCHANGED pointer

\* Mutant: the hover to where the press happens is left out.
DownInPlace(d, x) ==
    /\ ~StateOf(d, x).isDown /\ pointer < MaxPointers
    /\ pointer' = pointer + 1
    /\ LET e == Datum(d, "down", x)
       IN  Emit(Adding(e) \o <<[e EXCEPT !.id = pointer + 1]>>)
    /\ SetState(d, [id |-> pointer + 1, isDown |-> TRUE, x |-> x])

kDown(d, x) ==
    /\ ~StateOf(d, x).isDown /\ pointer < MaxPointers
    /\ pointer' = pointer + 1
    /\ LET e == Datum(d, "down", x)
       IN  Emit(Adding(e) \o Bridge(e, StateOf(d, x), "hover") \o <<[e EXCEPT !.id = pointer + 1]>>)
    /\ SetState(d, [id |-> pointer + 1, isDown |-> TRUE, x |-> x])

\* A move to where the pointer already is is dropped.
kMove(d, x) ==
    /\ Known(d) /\ states[d].isDown
    /\ LET e == UpdatePointerIdentifier(Datum(d, "move", x), states[d])
       IN  Emit(IF LocationNeedsUpdate(e, states[d]) THEN <<UpdateDelta(e, states[d])>> ELSE <<>>)
    /\ SetState(d, [states[d] EXCEPT !.x = x]) /\ UNCHANGED pointer

kUp(d, x) ==
    /\ Known(d) /\ states[d].isDown
    /\ LET e == UpdatePointerIdentifier(Datum(d, "up", x), states[d])
       IN  Emit(Bridge(e, states[d], "move") \o <<e>>)
    /\ SetState(d, [states[d] EXCEPT !.isDown = FALSE, !.x = x]) /\ UNCHANGED pointer

\* The move or the hover of a scroll is made from the datum as it came.
kScroll(d, x) ==
    /\ Known(d)
    /\ LET e == Datum(d, "scroll", x)
       IN  Emit(Bridge(e, states[d], IF states[d].isDown THEN "move" ELSE "hover") \o <<e>>)
    /\ SetState(d, [states[d] EXCEPT !.x = x]) /\ UNCHANGED pointer

ConverterNext ==
    \E d \in Devices, x \in Locations :
        \/ kCancel(d, x) \/ kAdd(d, x) \/ kRemove(d, x) \/ kHover(d, x)
        \/ kDown(d, x) \/ kMove(d, x) \/ kUp(d, x) \/ kScroll(d, x)

ConverterSpec == ConverterInit /\ [][ConverterNext]_converterVars

-----------------------------------------------------------------------------
\* The device as the framework sees it when event n of converted arrives.
Earlier(n) == SeenAfter(n - 1)[converted[n].device]

\* The framework meets the events of a device only in a legal order: nothing
\* before it is added, moves only while it is down and hovers only while it is
\* up, removed only when it is up.
TransitionsLegal ==
    \A n \in DOMAIN converted :
        LET change == converted[n].change IN
        /\ Earlier(n).added <=> change # "add"
        /\ change \in {"move", "up", "cancel"} => Earlier(n).down
        /\ change \in {"hover", "down", "remove"} => ~Earlier(n).down

\* Nothing jumps: the deltas of the moves and the hovers lead from one location
\* to the next, and every other event is where the last one ended, except the
\* cancel made for the removal of a pointer that is down.
NothingJumps ==
    \A n \in DOMAIN converted :
        LET e == converted[n] IN
        \/ e.change = "add" \/ (e.change = "cancel" /\ e.synthesized)
        \/ Earlier(n).x + e.delta = e.x

\* The events of a press all carry the identifier its down event was given, but
\* for the move that is synthesized for a scroll: it keeps what the embedder
\* left in the scroll event.
IdentifiersMatchUnlessScrolled ==
    \A n \in DOMAIN converted :
        /\ converted[n].change \in {"move", "up", "cancel"}
        /\ Last(converted).change # "scroll"
        => converted[n].id = Earlier(n).id

\* What the converter keeps of a device is what the framework knows of it, so
\* neither can drift from the other however the devices are used.
StatesAgree ==
    LET now == SeenAfter(Len(converted)) IN
    \A d \in Devices :
        /\ now[d].added <=> Known(d)
        /\ Known(d) => /\ now[d].down = states[d].isDown /\ now[d].x = states[d].x
                       /\ states[d].isDown => now[d].id = states[d].id

\* PointerDataPacketConverter turns whatever the platform reports into a sequence
\* of events that the framework can follow.
PointersSafe ==
    /\ ConverterTypeOK /\ TransitionsLegal /\ NothingJumps
    /\ IdentifiersMatchUnlessScrolled /\ StatesAgree
=============================================================================
