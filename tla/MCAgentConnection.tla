-------------------------- MODULE MCAgentConnection --------------------------
(***************************************************************************)
(* A small instance of AgentConnection for TLC.                            *)
(***************************************************************************)
EXTENDS AgentConnection
=============================================================================
