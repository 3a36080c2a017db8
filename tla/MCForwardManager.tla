--------------------------- MODULE MCForwardManager ---------------------------
(* Forwards, tunnels and terminals over a few transports. *)
EXTENDS ForwardManager, TLC

Symmetry == Permutations(Conn) \union Permutations(Fwd) \union Permutations(Terminal)
=============================================================================
