--------------------------- MODULE MCSessionHistory ---------------------------
(* One record of one terminal; parts of one event, one part kept. *)
EXTENDS SessionHistory
=============================================================================
