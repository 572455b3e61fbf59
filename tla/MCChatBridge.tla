---------------------------- MODULE MCChatBridge ----------------------------
(* Model-checking instance of ChatBridge. *)
EXTENDS ChatBridge
=============================================================================
