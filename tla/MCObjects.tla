----------------------------- MODULE MCObjects -----------------------------
(***************************************************************************)
(* TLC instances of ObjectManager: see the MCObjects*.cfg files.           *)
(***************************************************************************)
EXTENDS ObjectManager

Symmetry == Permutations(Types)
=============================================================================
