----------------------------- MODULE ReceptionMC -----------------------------
(***************************************************************************)
(* Instances of Reception for TLC: the threads of the pool are             *)
(* interchangeable.                                                        *)
(***************************************************************************)
EXTENDS Reception, TLC

Symmetry == Permutations(Threads)
=============================================================================
