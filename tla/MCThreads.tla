----------------------------- MODULE MCThreads -----------------------------
(* Kernel threads: two processors, two workers of equal priority on one of   *)
(* them and one of lower priority on the other.                              *)
EXTENDS KernelThreads

CONSTANTS c1, c2, i1, i2, w1, w2, w3

MCIdle == (c1 :> i1) @@ (c2 :> i2)
MCPriority == (i1 :> 0) @@ (i2 :> 0) @@ (w1 :> 2) @@ (w2 :> 2) @@ (w3 :> 1)
MCPlacement == (w1 :> {c1}) @@ (w2 :> {c1}) @@ (w3 :> {c2})
=============================================================================
