--------------------------- MODULE MCCpuFramePool ---------------------------
(* Two slots, three threads: one more than there are slots, so that one    *)
(* has to wait while the other two race with the encoder.                  *)
EXTENDS CpuFramePool, TLC

CONSTANTS t1, t2, t3

Symmetric == Permutations(Threads)

=============================================================================
