--------------------------- MODULE MCToolApproval ---------------------------
(* Instances of ToolApproval for TLC. *)
EXTENDS ToolApproval

CONSTANTS t1, t2

=============================================================================
