------------------------------ MODULE MCMutex ------------------------------
(***************************************************************************)
(* TLC instances of KernelMutex: see the MCMutex*.cfg files.               *)
(***************************************************************************)
EXTENDS KernelMutex

Symmetry == Permutations(Threads)
=============================================================================
