------------------------- MODULE MCPendingOutbound -------------------------
(* Small instance of the pending outbound store. *)
EXTENDS PendingOutbound, TLC

Symmetry == Permutations(Requests) \cup Permutations(Texts)
=============================================================================
