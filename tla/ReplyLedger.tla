---------------------------- MODULE ReplyLedger ----------------------------
(***************************************************************************)
(* What the pending outbound store promises the rest of the Agent, without *)
(* capacities, clocks or forgotten history: every reply handed to the      *)
(* store is numbered once, stays open until it gets its single outcome or  *)
(* is lost, and nothing that has left the open set ever gets an outcome.   *)
(* PendingOutbound implements this specification.                          *)
(***************************************************************************)
EXTENDS Naturals, Sequences

VARIABLES
  issued,    \* number of replies staged so far; reply i is the i-th staged
  open,      \* replies still waiting for a delivery acknowledgement
  outcomes   \* the outcomes in the order they were settled

ledgerVars == <<issued, open, outcomes>>

Outcomes == {"SENT", "FAILED"}

LedgerInit == issued = 0 /\ open = {} /\ outcomes = <<>>

\* A new reply is opened; the store may lose older ones in the same step.
Issue ==
  /\ issued' = issued + 1
  /\ \E lost \in SUBSET open : open' = (open \ lost) \cup {issued + 1}
  /\ UNCHANGED outcomes

\* One open reply gets its outcome and is closed with it.
Close ==
  /\ \E i \in open, s \in Outcomes :
       /\ outcomes' = Append(outcomes, [id |-> i, status |-> s])
       /\ \E lost \in SUBSET open : open' = open \ (lost \cup {i})
  /\ UNCHANGED issued

\* Open replies are lost: expired, never to get an outcome.
Lose == open' \in SUBSET open /\ UNCHANGED <<issued, outcomes>>

LedgerNext == Issue \/ Close \/ Lose

LedgerSpec == LedgerInit /\ [][LedgerNext]_ledgerVars
=============================================================================
