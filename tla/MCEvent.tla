------------------------------ MODULE MCEvent ------------------------------
(***************************************************************************)
(* TLC instances of KernelEvent: see the MCEvent*.cfg files.               *)
(***************************************************************************)
EXTENDS KernelEvent

Symmetry == Permutations(Threads)
=============================================================================
