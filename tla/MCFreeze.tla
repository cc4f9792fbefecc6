------------------------------ MODULE MCFreeze ------------------------------
(***************************************************************************)
(* The instance of Freeze for TLC.                                         *)
(***************************************************************************)
EXTENDS Freeze

CONSTANTS w1, w2, r1, r2, k1
=============================================================================
