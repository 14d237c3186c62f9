---------------------------- MODULE MCSupervision ----------------------------
(***************************************************************************)
(* Instances of Supervision for TLC.  Each line and each quit is sent      *)
(* once; MaxGeneration bounds the connections.                             *)
(***************************************************************************)
EXTENDS Supervision, TLC
=============================================================================
