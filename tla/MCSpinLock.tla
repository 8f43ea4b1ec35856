----------------------------- MODULE MCSpinLock -----------------------------
(***************************************************************************)
(* TLC instances of SpinLockOrder: see the MCSpinLock*.cfg files.          *)
(***************************************************************************)
EXTENDS SpinLockOrder, TLC

Symmetry == Permutations(CPUs) \union Permutations(Threads)
=============================================================================
