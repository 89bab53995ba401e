------------------------------ MODULE MCAgentTurn ------------------------------
(* AgentTurn for TLC. *)
EXTENDS AgentTurn

CONSTANT c1
MCClients == {c1}
MCNoTool  == {1}
MCLossyTypes == {"stream_end"}
=============================================================================
