---------------------------- MODULE BoundedFifo ----------------------------
(***************************************************************************)
(* What shell/common/pipeline.h promises its users, in two counters: the   *)
(* consumer receives the resources in the order they were sent, each once, *)
(* and the producer is never more than a bounded number of them ahead.     *)
(***************************************************************************)
EXTENDS Naturals

CONSTANT Bound
VARIABLES sent, received

Init == sent = 0 /\ received = 0

Send == sent < received + Bound /\ sent' = sent + 1 /\ received' = received

Receive == received < sent /\ received' = received + 1 /\ sent' = sent

Next == Send \/ Receive
Spec == Init /\ [][Next]_<<sent, received>>
=============================================================================
