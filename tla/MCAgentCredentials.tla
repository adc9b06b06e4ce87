------------------------- MODULE MCAgentCredentials -------------------------
(* AgentCredentials for TLC: a configuration file has no negative numbers. *)
EXTENDS AgentCredentials

MCSkews == {-4, -1, 0, 1, 4}
=============================================================================
