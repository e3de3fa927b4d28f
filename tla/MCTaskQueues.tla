---------------------------- MODULE MCTaskQueues ----------------------------
(* TaskQueues on the queues of two loops.                                    *)
EXTENDS TaskQueues, TLC

CONSTANTS platform, gpu

Symmetry == Permutations({platform, gpu})
=============================================================================
