--------------------------- MODULE MCLiveContext ---------------------------
(* Model-checking instance of LiveContext. *)
EXTENDS LiveContext
=============================================================================
