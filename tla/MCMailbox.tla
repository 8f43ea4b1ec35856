----------------------------- MODULE MCMailbox -----------------------------
(***************************************************************************)
(* TLC instances of KernelMailbox: see the MCMailbox*.cfg files.           *)
(***************************************************************************)
EXTENDS KernelMailbox

EqualPriority == [t \in Threads |-> 8]
Symmetry == Permutations(Threads) \union Permutations(Messages)
=============================================================================
