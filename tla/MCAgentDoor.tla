---------------------------- MODULE MCAgentDoor ----------------------------
(* Instances of AgentDoor for TLC. *)
EXTENDS AgentDoor

CONSTANTS l1, t1, t2, r1, s1, k1, k2
=============================================================================
