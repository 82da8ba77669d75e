------------------------------ MODULE MCPairing ------------------------------
(* Pairing on a few agents, guilds, codes and commands. *)
EXTENDS Pairing, TLC

Symmetry == Permutations(Agent) \cup Permutations(Guild) \cup Permutations(Code)
              \cup Permutations(Sharer) \cup Permutations(Pairer)
=============================================================================
