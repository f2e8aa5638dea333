--------------------------- MODULE MCAuthConversation ---------------------------
(* AuthConversation for TLC; its bounds are in the configurations. *)
EXTENDS AuthConversation
==============================================================================
