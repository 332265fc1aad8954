----------------------------- MODULE SendQueueMC -----------------------------
(***************************************************************************)
(* Instances of SendQueue for TLC: the objects are interchangeable.        *)
(***************************************************************************)
EXTENDS SendQueue, TLC

Symmetry == Permutations(Conns)
=============================================================================
