------------------------------ MODULE MCJumpHops ------------------------------
(* Two chains through one or two jump hosts. *)
EXTENDS JumpHops
=============================================================================
