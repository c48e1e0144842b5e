------------------------ MODULE MCProactiveDelivery -------------------------
(* Small instances of the proactive path. *)
EXTENDS ProactiveDelivery
=============================================================================
