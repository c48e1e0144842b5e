------------------------------ MODULE MCQueues ------------------------------
(***************************************************************************)
(* Small instances of two queues of the Agent, the proactive queue and the *)
(* memory buffers.  They share nothing, so in a behaviour one of them is   *)
(* used and the other one stays empty.  Payloads do not steer the proactive*)
(* queue, so one of each is enough.                                        *)
(***************************************************************************)
EXTENDS ProactiveQueue, MCMemoryBuffer

VARIABLE used

Using(part) == used = part /\ UNCHANGED used

QueuesInit == Init /\ BufferInit /\ used \in {"tasks", "messages"}

QueuesNext ==
  \/ Using("tasks") /\ Next /\ UNCHANGED bufferVars
  \/ Using("messages") /\ BufferNext /\ UNCHANGED vars

\* An empty queue has nothing to be fair to, so both conditions can be asked for.
QueuesSpec ==
  /\ QueuesInit /\ [][QueuesNext]_<<vars, bufferVars, used>>
  /\ ClaimFairness /\ Fairness
=============================================================================
