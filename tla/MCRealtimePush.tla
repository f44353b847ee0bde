--------------------------- MODULE MCRealtimePush ---------------------------
(* Two codes, and a poll thread that may outlive its join beside a new one. *)
EXTENDS RealtimePush
=============================================================================
