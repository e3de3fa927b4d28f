------------------------- MODULE MCFrameScheduling -------------------------
(* FrameScheduling with the pipeline depths the Animator uses.               *)
EXTENDS FrameScheduling
=============================================================================
