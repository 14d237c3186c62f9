---------------------------- MODULE MCGroupRest ----------------------------
(* Instances of GroupRest for TLC. *)
EXTENDS GroupRest

CONSTANT f1
=============================================================================
