---------------------------- MODULE MCAgentWidget ----------------------------
(* AgentWidget with one guild. *)
EXTENDS AgentWidget, TLC
=============================================================================
