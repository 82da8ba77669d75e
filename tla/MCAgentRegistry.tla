--------------------------- MODULE MCAgentRegistry ---------------------------
(* Finite instances of AgentRegistry for TLC. *)
EXTENDS AgentRegistry, TLC

Symmetry == Permutations(Agent) \cup Permutations(Guild) \cup Permutations(Saver)
=============================================================================
