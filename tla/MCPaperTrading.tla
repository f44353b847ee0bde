--------------------------- MODULE MCPaperTrading ---------------------------
(* One coroutine runs check_and_fill_pending; callers place and cancel. *)
EXTENDS PaperTrading
=============================================================================
