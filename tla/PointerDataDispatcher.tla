----------------------- MODULE PointerDataDispatcher -----------------------
(***************************************************************************)
(* shell/common/pointer_data_dispatcher.cc: SmoothPointerDataDispatcher    *)
(* holds back a packet that arrives while another is in progress, until a  *)
(* secondary vsync callback.  Packets are numbered in order of arrival.    *)
(***************************************************************************)
EXTENDS VsyncWaiter

CONSTANT MaxPackets  \* bound on packets received

ASSUME PacketsAssumption == MaxPackets \in Nat

VARIABLES pending,     \* pending_packet_, 0 for none
          inProgress,  \* is_pointer_data_in_progress_
          received,    \* the packet DispatchPacket was last called with
          delivered    \* history: the packets dispatched to the framework

pointerVars == <<pending, inProgress, received, delivered>>

PointerTypeOK ==
    /\ pending \in 0..MaxPackets /\ received \in 0..MaxPackets
    /\ inProgress \in BOOLEAN /\ delivered \in Seq(1..MaxPackets)

PointerInit == pending = 0 /\ inProgress = FALSE /\ received = 0 /\ delivered = <<>>

\* DoDispatchPacket
Deliver(packet) == delivered' = Append(delivered, packet)

\* DispatchPendingPacket
DispatchPendingPacket ==
    /\ Deliver(pending)
    /\ pending' = 0
    /\ ScheduleSecondaryCallback

\* DispatchPacket with no packet in progress.
DispatchPacket ==
    /\ UIFree /\ received < MaxPackets /\ ~inProgress
    /\ received' = received + 1
    /\ Deliver(received + 1)
    /\ inProgress' = TRUE
    /\ ScheduleSecondaryCallback
    /\ UNCHANGED <<pending, posted, ui>>

\* Mutant: a packet in progress that finds one pending replaces it.
DispatchPacketReplaces ==
    /\ UIFree /\ received < MaxPackets /\ inProgress
    /\ received' = received + 1
    /\ ui' = "dispatch"
    /\ UNCHANGED <<pending, delivered, callback, secondary, arming, armed, firing,
                   inProgress, posted>>

\* DispatchPacket with one in progress: a pending packet is dispatched first ...
DispatchPacketInProgress ==
    /\ UIFree /\ received < MaxPackets /\ inProgress
    /\ received' = received + 1
    /\ ui' = "dispatch"
    /\ IF pending # 0
       THEN DispatchPendingPacket
       ELSE UNCHANGED <<pending, delivered, callback, secondary, arming, armed, firing>>
    /\ UNCHANGED <<inProgress, posted>>

\* ... and the packet becomes the pending one.
HoldPacket ==
    /\ ui = "dispatch" /\ ~arming
    /\ ui' = "idle"
    /\ pending' = received
    /\ ScheduleSecondaryCallback
    /\ UNCHANGED <<inProgress, received, delivered, posted>>

\* The secondary vsync callback.
SecondaryCallback ==
    /\ TakePosted("secondary")
    /\ IF inProgress /\ pending # 0
       THEN DispatchPendingPacket /\ UNCHANGED inProgress
       ELSE /\ inProgress' = FALSE
            /\ UNCHANGED <<pending, delivered, callback, secondary, arming, armed, firing>>
    /\ UNCHANGED <<received, ui>>

PointerStep ==
    DispatchPacket \/ DispatchPacketInProgress \/ HoldPacket \/ SecondaryCallback
=============================================================================
