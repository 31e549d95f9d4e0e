------------------------- MODULE MCMemoryProjection -------------------------
(* MemoryProjection with an agent and its subagent on one store, and an agent *)
(* of another tab or process on a second one.                                 *)
EXTENDS MemoryProjection

MCStoreOf == [w \in Writers |-> IF w = "other" THEN "store2" ELSE "store1"]
=============================================================================
