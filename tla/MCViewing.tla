----------------------------- MODULE MCViewing -----------------------------
(***************************************************************************)
(* An instance of Viewing for TLC: the bounds are given in its cfg.        *)
(***************************************************************************)
EXTENDS Viewing, TLC
=============================================================================
