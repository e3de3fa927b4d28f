--------------------------- MODULE MCShellThreads ---------------------------
(* ShellThreads with the thread configurations the shell is started with:    *)
(* four threads, the GPU runner on the platform thread, and one thread.      *)
EXTENDS ShellThreads

CONSTANTS t1, t2, t3, t4

AllThreadsDiffer == [platform |-> t1, ui |-> t2, gpu |-> t3, io |-> t4]
GpuOnPlatform == [AllThreadsDiffer EXCEPT !.gpu = t1]
OneThread == [r \in {"platform", "ui", "gpu", "io"} |-> t1]

AllConfigs == {AllThreadsDiffer, GpuOnPlatform, OneThread}
FourThreads == {AllThreadsDiffer}
=============================================================================
