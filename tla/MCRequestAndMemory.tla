------------------------- MODULE MCRequestAndMemory -------------------------
(***************************************************************************)
(* Small instances of a request and of the memory store.  The models share *)
(* nothing, so in a behaviour one of them is used and the other one stays  *)
(* as it began.                                                            *)
(***************************************************************************)
EXTENDS MCRequestPipeline, MCMemoryStore

VARIABLE used

Using(part) == used = part /\ UNCHANGED used

BothInit ==
  /\ RequestInit /\ Init /\ used \in {"request", "memory"}
  /\ used = "memory" => kind = "DIRECT" /\ stage = "draft" /\ left = 1

BothNext ==
  \/ Using("request") /\ RequestNext /\ UNCHANGED vars
  \/ Using("memory") /\ Next /\ UNCHANGED requestVars

BothSpec == BothInit /\ [][BothNext]_<<requestVars, vars, used>>
=============================================================================
