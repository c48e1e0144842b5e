------------------------ MODULE MCTransportLifecycle ------------------------
(* Two clients, with and without a message limit. *)
EXTENDS TransportLifecycle

AllClasses == {"QUICK", "PASSIVE", "ACTIVE", "CHAT"}
WithAndWithout == {0, 2}
=============================================================================
