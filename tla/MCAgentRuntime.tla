--------------------------- MODULE MCAgentRuntime ---------------------------
(* AgentRuntime on a small instance: see MCAgentRuntime.cfg for the bounds.*)
EXTENDS AgentRuntime
=============================================================================
