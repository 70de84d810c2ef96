----------------------------- MODULE MCToolCall -----------------------------
(* Instances of ToolCall for TLC. *)
EXTENDS ToolCall

\* Two nested calls meet a restart or a trouble, one nested call meets both.
OneUpsetForTwo ==
  budget.crashes + budget.troubles > 1 => rec[2].status = "absent"
=============================================================================
