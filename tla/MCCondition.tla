---------------------------- MODULE MCCondition ----------------------------
(***************************************************************************)
(* TLC instance of KernelCondition: see MCCondition.cfg.                   *)
(***************************************************************************)
EXTENDS KernelCondition, TLC

CONSTANTS t1, t2, t3

\* One thread of higher priority, two equal ones.
MCPriority == t1 :> 1 @@ t2 :> 1 @@ t3 :> 2
Symmetry == Permutations({t1, t2})
=============================================================================
