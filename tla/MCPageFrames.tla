---------------------------- MODULE MCPageFrames ----------------------------
(***************************************************************************)
(* TLC instance of PageFrames: see MCPageFramesBug.cfg.                    *)
(***************************************************************************)
EXTENDS PageFrames
=============================================================================
