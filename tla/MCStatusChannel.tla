--------------------------- MODULE MCStatusChannel ---------------------------
(* Finite instances of StatusChannel for TLC. *)
EXTENDS StatusChannel, TLC

Symmetry == Permutations(Command) \cup Permutations(Channel)
=============================================================================
