--------------------------- MODULE ProactiveQueue ---------------------------
(***************************************************************************)
(* The queue of proactive group messages                                   *)
(* (src/src/proactive-group-queue.ts): producers enqueue, the external     *)
(* runtime polls, and one poll claims and finalizes one task.  The queue   *)
(* keeps an item map and, separately, the list of ids that became ready;   *)
(* an expired item leaves the map at once and the list only when a claim   *)
(* reaches its id.                                                         *)
(*                                                                         *)
(* Abstractions.  The random task id is the acceptance number, so the Map  *)
(* order is the order of its keys; Date.now never runs backwards and no    *)
(* producer supplies createdAt.  `claims` and `done` are history variables.*)
(***************************************************************************)
EXTENDS Integers, Sequences, FiniteSets, Functions

CONSTANTS
  Groups,      \* conversationId values
  Texts,       \* message texts
  Intents,     \* PROACTIVE_OUTBOUND_INTENTS
  MaxEntries,  \* options.maxEntries
  Ttl,         \* options.ttlMs, in clock units
  MaxTasks,    \* bound of the model: tasks accepted in one behaviour
  MaxClock     \* bound of the model: last clock reading

ASSUME QueueAssumption ==
  /\ MaxEntries \in Nat \ {0}
  /\ Ttl \in Nat \ {0}
  /\ MaxTasks \in Nat
  /\ MaxClock \in Nat

VARIABLES
  items,     \* task id -> stored item
  ready,     \* ids in the order they became ready
  accepted,  \* tasks accepted so far
  clock,     \* Date.now()
  claims,    \* history: claimed tasks in order, with the age they had
  done       \* history: finalized tasks

vars == <<items, ready, accepted, clock, claims, done>>

Item == [group : Groups, text : Texts, intent : Intents,
         createdAt : 0 .. MaxClock, status : {"READY", "CLAIMED"}]

Init ==
  /\ items = <<>>
  /\ ready = <<>>
  /\ accepted = 0
  /\ clock = 0
  /\ claims = <<>>
  /\ done = {}

-----------------------------------------------------------------------------
(* Helpers.                                                                *)

IsReady(t) == t \in DOMAIN items /\ items[t].status = "READY"

\* pruneExpired drops a READY item at its time to live, never a CLAIMED one.
Kept == {t \in DOMAIN items : IsReady(t) => clock < items[t].createdAt + Ttl}

\* Mutant: the claim gives up at the first stale id.
ClaimableHead == {k \in DOMAIN ready : k = 1 /\ ready[k] \in Kept /\ IsReady(ready[k])}

\* Positions of the ready list that claimReady would not skip.
Claimable == {k \in DOMAIN ready : ready[k] \in Kept /\ IsReady(ready[k])}

\* Mutant: the newest task first.
LastClaimable == CHOOSE k \in Claimable : \A l \in Claimable : k >= l

\* claimReady stops at the first of them.
FirstClaimable == CHOOSE k \in Claimable : \A l \in Claimable : k <= l

-----------------------------------------------------------------------------
(* Operations.                                                             *)

Prune ==
  /\ items' = Restrict(items, Kept)
  /\ UNCHANGED <<ready, accepted, clock, claims, done>>

EnqueueAccepted(group, text, intent) ==
  LET id == accepted + 1
      item == [group |-> group, text |-> text, intent |-> intent,
               createdAt |-> clock, status |-> "READY"]
  IN  /\ accepted < MaxTasks
      /\ Cardinality(Kept) < MaxEntries
      /\ items' = [t \in Kept \cup {id} |-> IF t = id THEN item ELSE items[t]]
      /\ ready' = Append(ready, id)
      /\ accepted' = accepted + 1
      /\ UNCHANGED <<clock, claims, done>>

\* QUEUE_FULL: only the pruning shows.
EnqueueRefused ==
  /\ Cardinality(Kept) >= MaxEntries
  /\ Prune

\* claimReady finds a task and leaves the ready list from this position on.
ClaimLeavingFrom(rest) ==
  LET t == ready[FirstClaimable]
  IN  /\ Claimable # {}
      /\ items' = [u \in Kept |-> IF u = t THEN [items[u] EXCEPT !.status = "CLAIMED"] ELSE items[u]]
      /\ ready' = SubSeq(ready, rest, Len(ready))
      /\ claims' = Append(claims, [task |-> t, age |-> clock - items[t].createdAt])
      /\ UNCHANGED <<accepted, clock, done>>

\* Mutant: the id is looked at, not shifted.
ClaimPeeking == ClaimLeavingFrom(FirstClaimable)

\* The ids before the claimed one are skipped for good.
ClaimTask == ClaimLeavingFrom(FirstClaimable + 1)

\* claimReady finds none and has emptied the list.
ClaimNothing ==
  /\ Claimable = {}
  /\ items' = Restrict(items, Kept)
  /\ ready' = <<>>
  /\ UNCHANGED <<accepted, clock, claims, done>>

Claim == ClaimTask \/ ClaimNothing

Finalize(t) ==
  /\ t \in DOMAIN items /\ items[t].status = "CLAIMED"
  /\ items' = Restrict(items, DOMAIN items \ {t})
  /\ done' = done \cup {t}
  /\ UNCHANGED <<ready, accepted, clock, claims>>

Tick ==
  /\ clock < MaxClock
  /\ clock' = clock + 1
  /\ UNCHANGED <<items, ready, accepted, claims, done>>

Next ==
  \/ Prune
  \/ \E group \in Groups, text \in Texts, intent \in Intents : EnqueueAccepted(group, text, intent)
  \/ EnqueueRefused
  \/ Claim
  \/ \E t \in DOMAIN items : Finalize(t)
  \/ Tick

Spec == Init /\ [][Next]_vars

\* The runtime polls for as long as it is connected.
ClaimFairness == WF_vars(Claim)

-----------------------------------------------------------------------------
(* Properties.                                                             *)

TypeOK ==
  /\ accepted \in 0 .. MaxTasks
  /\ clock \in 0 .. MaxClock
  /\ DOMAIN items \subseteq 1 .. accepted
  /\ items \in [DOMAIN items -> Item]
  /\ ready \in Seq(1 .. accepted)
  /\ claims \in Seq([task : 1 .. accepted, age : 0 .. MaxClock])
  /\ done \subseteq 1 .. accepted

\* The ready list and the item map agree although each is updated alone: an item
\* of the map is READY exactly when its id is in the list, and the list is in the
\* order of acceptance without repetitions.
ReadyListAgrees ==
  /\ \A t \in DOMAIN items : items[t].status = "READY" <=> \E k \in DOMAIN ready : ready[k] = t
  /\ \A k, l \in DOMAIN ready : k < l => ready[k] < ready[l]

\* A poller that keeps polling never leaves a task behind: ids of expired tasks
\* in front of it are skipped, so every ready task is claimed or expires.
ReadyTaskIsServed == \A t \in 1 .. MaxTasks : IsReady(t) ~> ~IsReady(t)

\* The queue implements the abstract task queue: oldest first, at most once, and
\* what was dropped is never handed out.
Queue == INSTANCE TaskQueue WITH
  submitted <- accepted,
  waiting <- {t \in DOMAIN items : IsReady(t)},
  taken <- [k \in DOMAIN claims |-> claims[k].task]

ImplementsTaskQueue == Queue!TaskSpec
=============================================================================
