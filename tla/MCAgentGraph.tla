---------------------------- MODULE MCAgentGraph ----------------------------
(***************************************************************************)
(* Instances of AgentGraph for TLC: a read and a write, of medium risk in  *)
(* one instance and of high risk in the other.                             *)
(***************************************************************************)
EXTENDS AgentGraph

MCTools == {"search_logs", "create_pull_request"}
MCHighRisk == {"search_logs", "scale_deployment"}
=============================================================================
