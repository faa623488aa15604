-------------------------- MODULE MCAgentPipeline --------------------------
(* AgentPipeline for TLC; its bounds are given in the configuration.       *)
EXTENDS AgentPipeline
=============================================================================
