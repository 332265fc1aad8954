----------------------------- MODULE RecvQueueMC -----------------------------
(***************************************************************************)
(* Instances of RecvQueue for TLC: the threads are interchangeable.        *)
(***************************************************************************)
EXTENDS RecvQueue, TLC

Symmetry == Permutations(Threads)
=============================================================================
