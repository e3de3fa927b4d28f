-------------------------- MODULE GpuThreadMerger --------------------------
(***************************************************************************)
(* fml/gpu_thread_merger.cc: merges the GPU task queue into the platform   *)
(* task queue for a number of frames, the lease.  is_merged_ and           *)
(* lease_term_ are stored after the queues were merged or unmerged, with   *)
(* no lock, so each of the three is a step of its own that the other       *)
(* thread can see.  The calls are made by Rasterizer, whose module says    *)
(* when.                                                                   *)
(***************************************************************************)
EXTENDS Integers

CONSTANTS platform, gpu,  \* the threads, and the task queues, of the two loops
          LeaseTerm       \* kDefaultMergedLeaseDuration

ASSUME ThreadsAssumption == platform # gpu
ASSUME LeaseAssumption == LeaseTerm \in Nat \ {0}

VARIABLES merged,    \* the platform queue owns the GPU queue
          isMerged,  \* is_merged_
          lease,     \* lease_term_
          step       \* where each thread is in a call of the merger

mergerVars == <<merged, isMerged, lease, step>>

Threads == {platform, gpu}
kLeaseNotSet == -1
StepState == {"out", "merged", "stored", "decremented", "unmerged", "aborted"}

MergerTypeOK ==
    /\ merged \in BOOLEAN /\ isMerged \in BOOLEAN
    /\ lease \in kLeaseNotSet..LeaseTerm
    /\ step \in [Threads -> StepState]

\* A new merger of two queues that are not merged.
MergerInit ==
    /\ merged = FALSE /\ isMerged = FALSE /\ lease = kLeaseNotSet
    /\ step = [t \in Threads |-> "out"]

\* IsOnRasterizingThread, on thread t.
IsOnRasterizingThread(t) == t = IF isMerged THEN platform ELSE gpu

\* MergeWithLease: the task queues are merged ...
MergeQueues(t) ==
    /\ step[t] = "out" /\ ~isMerged
    /\ merged' = TRUE
    /\ step' = [step EXCEPT ![t] = "merged"]
    /\ UNCHANGED <<isMerged, lease>>

\* ... is_merged_ is stored ...
StoreMerged(t) ==
    /\ step[t] = "merged"
    /\ isMerged' = TRUE
    /\ step' = [step EXCEPT ![t] = "stored"]
    /\ UNCHANGED <<merged, lease>>

\* ... and lease_term_.
StoreLease(t) ==
    /\ step[t] = "stored"
    /\ lease' = LeaseTerm
    /\ step' = [step EXCEPT ![t] = "out"]
    /\ UNCHANGED <<merged, isMerged>>

\* ExtendLeaseTo(kDefaultMergedLeaseDuration).
ExtendLeaseTo ==
    /\ lease' = IF lease # kLeaseNotSet /\ LeaseTerm > lease THEN LeaseTerm ELSE lease
    /\ UNCHANGED <<merged, isMerged, step>>

\* DecrementLease with no lease to decrement: kRemainsUnmerged.
NoLease == ~isMerged \/ lease = kLeaseNotSet

\* DecrementLease: lease_term_--.
DecrementLease(t) ==
    /\ step[t] = "out" /\ ~NoLease
    /\ lease' = lease - 1
    /\ step' = [step EXCEPT ![t] = "decremented"]
    /\ UNCHANGED <<merged, isMerged>>

\* DecrementLease: the lease goes on, kRemainsMerged.
RemainsMerged(t) ==
    /\ step[t] = "decremented" /\ lease # 0
    /\ step' = [step EXCEPT ![t] = "out"]
    /\ UNCHANGED <<merged, isMerged, lease>>

\* DecrementLease: the lease ended and the task queues are unmerged.  When they
\* are not merged FML_CHECK aborts the process.
UnmergeQueues(t) ==
    /\ step[t] = "decremented" /\ lease = 0
    /\ merged' = FALSE
    /\ step' = [step EXCEPT ![t] = IF merged THEN "unmerged" ELSE "aborted"]
    /\ UNCHANGED <<isMerged, lease>>

\* DecrementLease: is_merged_ is stored, kUnmergedNow.
StoreUnmerged(t) ==
    /\ step[t] = "unmerged"
    /\ isMerged' = FALSE
    /\ step' = [step EXCEPT ![t] = "out"]
    /\ UNCHANGED <<merged, lease>>
=============================================================================
