--------------------------- MODULE MCRunConsumer ---------------------------
(* Instances of RunConsumer for TLC. *)
EXTENDS RunConsumer
=============================================================================
