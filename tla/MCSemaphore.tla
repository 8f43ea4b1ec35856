---------------------------- MODULE MCSemaphore ----------------------------
(***************************************************************************)
(* TLC instances of KernelSemaphore: see the MCSemaphore*.cfg files.       *)
(***************************************************************************)
EXTENDS KernelSemaphore

CONSTANTS t1, t2, t3

\* One thread outranks the others, which share a priority.
TwoLevels == [t \in Threads |-> IF t = t1 THEN 12 ELSE 8]
Symmetry == Permutations(Threads \ {t1})
=============================================================================
