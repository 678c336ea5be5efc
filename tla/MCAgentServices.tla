--------------------------- MODULE MCAgentServices ---------------------------
(* The services of an agent for TLC, with three processes that start up.     *)
EXTENDS AgentServices
=============================================================================
