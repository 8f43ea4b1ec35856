------------------------------ MODULE MCMemory ------------------------------
(***************************************************************************)
(* TLC instance of KernelMemory: see MCMemory.cfg.                         *)
(***************************************************************************)
EXTENDS KernelMemory

\* A region, one that follows it at once, one too small, one apart.
MCRegions == <<[start |-> 4,  size |-> 8], [start |-> 12, size |-> 3],
               [start |-> 18, size |-> 1], [start |-> 21, size |-> 5]>>
=============================================================================
