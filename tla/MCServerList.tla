----------------------------- MODULE MCServerList -----------------------------
(* ServerList with a few servers, buttons and handlers. *)
EXTENDS ServerList, TLC

Symmetry == Permutations(Server) \cup Permutations(Button)
              \cup Permutations(Handler) \cup Permutations(Config)
              \cup Permutations(Message)
=============================================================================
