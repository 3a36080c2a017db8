------------------------------- MODULE MCSshMux -------------------------------
(* One host: with one route, or with a primary route and a fallback. *)
EXTENDS SshMux

CONSTANTS r1, r2

OneRoute == <<r1>>
TwoRoutes == <<r1, r2>>

Symmetry == Permutations(Conn) \union Permutations(Holder)
=============================================================================
