-------------------------- MODULE MCAgentRecovery --------------------------
(* AgentRecovery on the instances of MCAgentSync. *)
EXTENDS MCAgentSync, AgentRecovery
=============================================================================
