---------------------------- MODULE MCRoundTrips ----------------------------
(***************************************************************************)
(* Instances of RoundTrips for TLC.  Each line is submitted once, so the   *)
(* sets of lines bound every queue, ledger and wire; InboxBound and        *)
(* MostOwed are set by each configuration.                                 *)
(***************************************************************************)
EXTENDS RoundTrips, TLC

(* The player's own lines, beside a behavior's, are interchangeable.       *)
AlikeTyped == Permutations(Commands \ Held)
=============================================================================
