----------------------------- MODULE MCFwdQueue -----------------------------
(* Small instances of the forward queue. *)
EXTENDS FwdQueue

CONSTANTS r1, r2

=============================================================================
