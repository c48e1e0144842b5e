----------------------------- MODULE MCReceiver -----------------------------
(***************************************************************************)
(* Small instances of what the receiver works between: the connections its *)
(* lines come from, and the short-term context of a group.  The models     *)
(* share nothing, so in a behaviour one of them is used and the other one  *)
(* stays as it began.                                                      *)
(***************************************************************************)
EXTENDS MCTransportLifecycle, MCGroupContext

VARIABLE used

Using(part) == used = part /\ UNCHANGED used

ReceiverInit ==
  /\ Init /\ ContextInit /\ used \in {"connections", "context"}
  /\ used = "context" => limit = 0

ReceiverNext ==
  \/ Using("connections") /\ Next /\ UNCHANGED contextVars
  \/ Using("context") /\ ContextNext /\ UNCHANGED vars

\* Without a client, and without a line, there is nothing to be fair to.
ReceiverSpec ==
  /\ ReceiverInit /\ [][ReceiverNext]_<<vars, contextVars, used>>
  /\ Fairness /\ ContextFairness
=============================================================================
