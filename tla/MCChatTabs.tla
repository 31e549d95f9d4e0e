----------------------------- MODULE MCChatTabs -----------------------------
(* ChatTabs with one agent at a time. *)
EXTENDS ChatTabs
=============================================================================
