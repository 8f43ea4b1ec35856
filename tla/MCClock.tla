------------------------------ MODULE MCClock ------------------------------
(***************************************************************************)
(* TLC instances of SystemClock: see the MCClock*.cfg files.               *)
(***************************************************************************)
EXTENDS SystemClock

Symmetry == Permutations(Timers) \union Permutations(Sleepers)
=============================================================================
