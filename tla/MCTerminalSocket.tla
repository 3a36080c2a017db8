--------------------------- MODULE MCTerminalSocket ---------------------------
(* Three windows one terminal session moves between. *)
EXTENDS TerminalSocket
=============================================================================
