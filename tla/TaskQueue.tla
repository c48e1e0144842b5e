------------------------------ MODULE TaskQueue -----------------------------
(***************************************************************************)
(* What the proactive queue promises its producers and its poller, without *)
(* the split between the item map and the ready list, capacities or the    *)
(* clock: a task is taken at most once, always the oldest of those still   *)
(* waiting, or it is dropped and never taken.  ProactiveQueue implements   *)
(* this specification.                                                     *)
(***************************************************************************)
EXTENDS Naturals, Sequences

VARIABLES
  submitted,  \* number of tasks accepted; task i is the i-th accepted
  waiting,    \* tasks that may still be taken
  taken       \* tasks handed to the poller, in order

taskVars == <<submitted, waiting, taken>>

TaskInit == submitted = 0 /\ waiting = {} /\ taken = <<>>

\* A task is accepted; older ones may be found too old in the same step.
Submit ==
  /\ submitted' = submitted + 1
  /\ \E dropped \in SUBSET waiting : waiting' = (waiting \ dropped) \cup {submitted + 1}
  /\ UNCHANGED taken

\* The oldest task that is not dropped in this step is handed out.
Take ==
  /\ \E dropped \in SUBSET waiting : \E t \in waiting \ dropped :
       /\ \A u \in waiting \ dropped : t <= u
       /\ waiting' = waiting \ (dropped \cup {t})
       /\ taken' = Append(taken, t)
  /\ UNCHANGED submitted

Drop == waiting' \in SUBSET waiting /\ UNCHANGED <<submitted, taken>>

TaskNext == Submit \/ Take \/ Drop

TaskSpec == TaskInit /\ [][TaskNext]_taskVars
=============================================================================
