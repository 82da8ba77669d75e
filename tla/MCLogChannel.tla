----------------------------- MODULE MCLogChannel -----------------------------
(* LogChannel with a few commands, channels and log messages. *)
EXTENDS LogChannel, TLC

Symmetry == Permutations(Command) \cup Permutations(Channel) \cup Permutations(Other)
=============================================================================
