--------------------------- MODULE MCAuthorityCell ---------------------------
(***************************************************************************)
(* Instances of AuthorityCell for TLC: a hunt, a character sync and a      *)
(* takeover, under the tokens the binary gives them                        *)
(* (cena/src/perform.rs, learn.rs, cena-session/src/agent/takeover.rs).    *)
(***************************************************************************)
EXTENDS AuthorityCell, TLC

CONSTANTS hunt, sync, takeover

TokensOfTheBinary == 2..7

(* HUNT_TOKEN and SYNC_TOKEN are one number; then the takeover's TOKEN.    *)
TokenOfTheBinary ==
    [r \in Runs |-> IF r \in {hunt, sync} THEN 3 ELSE 7]
=============================================================================
