-------------------------- MODULE MCOwnerAliasWake --------------------------
(* Small instances of the alias wake.  The budget is longer than the cooldown,
   as in production (50 s and 30 s), so SINGLE_FLIGHT is reachable. *)
EXTENDS OwnerAliasWake
=============================================================================
