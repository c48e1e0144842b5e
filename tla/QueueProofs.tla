------------------------------ MODULE QueueProofs ------------------------------
(***************************************************************************)
(* Proofs about the two places where work waits, for every limit; they have*)
(* no state in common.                                                     *)
(*                                                                         *)
(* The proactive queue: the item map and the ready list agree, and the     *)
(* queue implements TaskQueue.  Agreement is what makes the refinement     *)
(* work: the claim takes the first id of the list that is still good, the  *)
(* abstract queue the oldest task that waits.                              *)
(*                                                                         *)
(* The buffers of the memory service: batches and buffers stay in the order*)
(* of admission, each admission is extracted at most once, a message is    *)
(* admitted again only when its id was forgotten, and what is lost without *)
(* being extracted was pushed out by Cap newer messages.                   *)
(***************************************************************************)
EXTENDS ProactiveQueue, MemoryBuffer, ListProofs

-----------------------------------------------------------------------------
(* The proactive queue.                                                    *)

\* No item is stamped with a clock reading still to come.
CreatedInThePast == \A t \in DOMAIN items : items[t].createdAt <= clock

QueueInv == TypeOK /\ ReadyListAgrees /\ CreatedInThePast

-----------------------------------------------------------------------------
(* Facts about the helpers.                                                *)

\* Where the claim stops: a position of the ready list whose task is good, and
\* no good task is older.
LEMMA FirstIsOldest ==
  ASSUME QueueInv, Claimable # {}
  PROVE  /\ FirstClaimable \in DOMAIN ready
         /\ ready[FirstClaimable] \in Kept /\ IsReady(ready[FirstClaimable])
         /\ \A t \in Kept : IsReady(t) =>
              \E l \in DOMAIN ready : l >= FirstClaimable /\ ready[l] = t /\ ready[FirstClaimable] <= t
<1>1. ready \in Seq(1 .. accepted) /\ DOMAIN ready = 1 .. Len(ready) /\ Len(ready) \in Nat
  BY DEF QueueInv, TypeOK
<1>2. Claimable \in SUBSET Nat
  BY <1>1 DEF Claimable
<1>3. \E k \in Claimable : \A l \in Claimable : k <= l
  BY <1>2, LeastElement
<1>4. FirstClaimable \in Claimable /\ \A l \in Claimable : FirstClaimable <= l
  BY <1>3 DEF FirstClaimable
<1>5. FirstClaimable \in DOMAIN ready /\ ready[FirstClaimable] \in Kept
      /\ IsReady(ready[FirstClaimable])
  BY <1>4 DEF Claimable
<1>6. ASSUME NEW t \in Kept, IsReady(t)
      PROVE  \E l \in DOMAIN ready : l >= FirstClaimable /\ ready[l] = t /\ ready[FirstClaimable] <= t
  <2>1. PICK l \in DOMAIN ready : ready[l] = t
    BY <1>6 DEF QueueInv, ReadyListAgrees, IsReady
  <2>2. l \in Claimable /\ FirstClaimable <= l
    BY <1>4, <1>6, <2>1 DEF Claimable
  <2>3. FirstClaimable = l \/ FirstClaimable < l
    BY <1>1, <1>5, <2>2
  <2>4. ready[FirstClaimable] \in 1 .. accepted /\ ready[l] \in 1 .. accepted
    BY <1>1, <1>5, SeqElement
  <2>5. ready[FirstClaimable] <= ready[l]
    BY <1>5, <2>3, <2>4 DEF QueueInv, ReadyListAgrees
  <2> QED BY <1>1, <1>5, <2>1, <2>2, <2>5
<1> QED BY <1>5, <1>6

\* A tail of the ready list.
LEMMA TailOfReady ==
  ASSUME ready \in Seq(1 .. accepted), NEW k \in DOMAIN ready
  PROVE  /\ SubSeq(ready, k + 1, Len(ready)) \in Seq(1 .. accepted)
         /\ DOMAIN SubSeq(ready, k + 1, Len(ready)) = 1 .. Len(ready) - k
         /\ \A i \in 1 .. Len(ready) - k : SubSeq(ready, k + 1, Len(ready))[i] = ready[k + i]
<1>1. DOMAIN ready = 1 .. Len(ready) /\ Len(ready) \in Nat /\ k \in Nat
  OBVIOUS
<1>2. ASSUME NEW i \in k + 1 .. Len(ready) PROVE ready[i] \in 1 .. accepted
  <2>1. i \in DOMAIN ready
    BY <1>1
  <2> QED BY <2>1, SeqElement
<1> QED BY <1>1, <1>2, SubSeqProperties, SMTT(20)

-----------------------------------------------------------------------------
(* Preservation of the invariant.                                          *)

\* A step that only prunes.
LEMMA PruneInv == ASSUME QueueInv, Prune PROVE QueueInv'
<1>1. /\ DOMAIN items' = Kept /\ Kept \subseteq DOMAIN items
      /\ \A t \in Kept : items'[t] = items[t]
      /\ UNCHANGED <<ready, accepted, clock, claims, done>>
  BY DEF Prune, Restrict, Kept
<1>2. TypeOK'
  BY <1>1 DEF QueueInv, TypeOK, Prune, Restrict
<1>3. ReadyListAgrees' /\ CreatedInThePast'
  BY <1>1 DEF QueueInv, ReadyListAgrees, CreatedInThePast
<1> QED BY <1>2, <1>3 DEF QueueInv

\* A new task gets an id above every id of the list.
LEMMA EnqueueInv ==
  ASSUME QueueInv, NEW group \in Groups, NEW text \in Texts, NEW intent \in Intents,
         EnqueueAccepted(group, text, intent)
  PROVE  QueueInv'
<1> DEFINE id == accepted + 1
           item == [group |-> group, text |-> text, intent |-> intent,
                    createdAt |-> clock, status |-> "READY"]
<1>1. /\ items' = [t \in Kept \cup {id} |-> IF t = id THEN item ELSE items[t]]
      /\ ready' = Append(ready, id) /\ accepted' = id /\ accepted < MaxTasks
      /\ UNCHANGED <<clock, claims, done>>
  BY DEF EnqueueAccepted
<1>2. /\ accepted \in Nat /\ id \in 0 .. MaxTasks /\ clock \in 0 .. MaxClock
      /\ DOMAIN items \subseteq 1 .. accepted /\ items \in [DOMAIN items -> Item]
      /\ ready \in Seq(1 .. accepted) /\ done \subseteq 1 .. accepted
      /\ claims \in Seq([task : 1 .. accepted, age : 0 .. MaxClock])
  BY <1>1, QueueAssumption, SMTT(20) DEF QueueInv, TypeOK
<1>3. Kept \subseteq DOMAIN items /\ item \in Item /\ item.status = "READY" /\ item.createdAt = clock
  BY <1>2 DEF Kept, Item
<1>4. 1 .. accepted \subseteq 1 .. id /\ id \in 1 .. id /\ id \notin 1 .. accepted
  BY <1>2
<1>5. DOMAIN items' = Kept \cup {id} /\ items'[id] = item /\ \A t \in Kept : items'[t] = items[t]
  BY <1>1, <1>2, <1>3, <1>4
<1> HIDE DEF item
<1>6. TypeOK'
  <2>1. items' \in [DOMAIN items' -> Item]
    BY <1>1, <1>2, <1>3, <1>5
  <2>2. DOMAIN items' \subseteq 1 .. id /\ done' \subseteq 1 .. id
    BY <1>1, <1>2, <1>3, <1>4, <1>5
  <2>3. ready \in Seq(1 .. id)
    BY <1>2, <1>4
  <2>4. ready' \in Seq(1 .. id)
    BY <1>1, <1>4, <2>3
  <2>5. claims' \in Seq([task : 1 .. id, age : 0 .. MaxClock])
    <3>1. [task : 1 .. accepted, age : 0 .. MaxClock] \subseteq [task : 1 .. id, age : 0 .. MaxClock]
      BY <1>4
    <3> QED BY <1>1, <1>2, <3>1, SeqWiden
  <2> QED BY <1>1, <1>2, <2>1, <2>2, <2>4, <2>5 DEF TypeOK
<1>7. ReadyListAgrees'
  <2>1. /\ DOMAIN ready = 1 .. Len(ready) /\ Len(ready) \in Nat
        /\ DOMAIN ready' = 1 .. Len(ready) + 1 /\ ready'[Len(ready) + 1] = id
        /\ \A k \in 1 .. Len(ready) : ready'[k] = ready[k] /\ ready[k] \in 1 .. accepted
    BY <1>1, <1>2
  <2>2. \A k \in DOMAIN ready' : k \in DOMAIN ready \/ k = Len(ready) + 1
    BY <2>1
  <2>3. \A t \in DOMAIN items' : items'[t].status = "READY" <=> \E k \in DOMAIN ready' : ready'[k] = t
    <3>1. ASSUME NEW t \in Kept
          PROVE  items'[t].status = "READY" <=> \E k \in DOMAIN ready' : ready'[k] = t
      <4>1. items[t].status = "READY" <=> \E k \in DOMAIN ready : ready[k] = t
        BY <1>3 DEF QueueInv, ReadyListAgrees
      <4>2. t # id
        BY <1>2, <1>3, <1>4
      <4>3. (\E k \in DOMAIN ready' : ready'[k] = t) <=> (\E k \in DOMAIN ready : ready[k] = t)
        BY <2>1, <2>2, <4>2
      <4> QED BY <1>5, <4>1, <4>3
    <3>2. items'[id].status = "READY" /\ \E k \in DOMAIN ready' : ready'[k] = id
      BY <1>3, <1>5, <2>1
    <3> QED BY <1>5, <3>1, <3>2
  <2>4. \A k, l \in DOMAIN ready' : k < l => ready'[k] < ready'[l]
    <3>1. ASSUME NEW k \in DOMAIN ready', NEW l \in DOMAIN ready', k < l PROVE ready'[k] < ready'[l]
      <4>1. k \in DOMAIN ready
        BY <2>1, <3>1
      <4>2. CASE l \in DOMAIN ready
        BY <2>1, <3>1, <4>1, <4>2 DEF QueueInv, ReadyListAgrees
      <4>3. CASE l = Len(ready) + 1
        BY <1>2, <2>1, <4>1, <4>3
      <4> QED BY <2>2, <4>2, <4>3
    <3> QED BY <3>1
  <2> QED BY <2>3, <2>4 DEF ReadyListAgrees
<1>8. CreatedInThePast'
  BY <1>1, <1>2, <1>3, <1>5 DEF QueueInv, CreatedInThePast
<1> QED BY <1>6, <1>7, <1>8 DEF QueueInv

\* What a claim does, in terms of the position it stops at.
LEMMA ClaimFacts ==
  ASSUME QueueInv, ClaimTask
  PROVE  LET first == FirstClaimable
             task == ready[first]
         IN  /\ first \in DOMAIN ready /\ task \in Kept /\ IsReady(task)
             /\ DOMAIN items' = Kept
             /\ items'[task] = [items[task] EXCEPT !.status = "CLAIMED"]
             /\ \A t \in Kept \ {task} : items'[t] = items[t]
             /\ ready' = SubSeq(ready, first + 1, Len(ready))
             /\ claims' = Append(claims, [task |-> task, age |-> clock - items[task].createdAt])
             /\ UNCHANGED <<accepted, clock, done>>
  BY FirstIsOldest DEF ClaimTask, ClaimLeavingFrom

\* claimReady, when it finds a task: the skipped ids leave the list with it.
LEMMA ClaimTaskInv == ASSUME QueueInv, ClaimTask PROVE QueueInv'
<1> DEFINE first == FirstClaimable
           task == ready[first]
           age == clock - items[task].createdAt
<1>1. /\ first \in DOMAIN ready /\ task \in Kept /\ IsReady(task)
      /\ DOMAIN items' = Kept
      /\ items'[task] = [items[task] EXCEPT !.status = "CLAIMED"]
      /\ \A t \in Kept \ {task} : items'[t] = items[t]
      /\ ready' = SubSeq(ready, first + 1, Len(ready))
      /\ claims' = Append(claims, [task |-> task, age |-> age])
      /\ UNCHANGED <<accepted, clock, done>>
  BY ClaimFacts
<1>2. /\ ready \in Seq(1 .. accepted) /\ clock \in 0 .. MaxClock
      /\ DOMAIN items \subseteq 1 .. accepted /\ items \in [DOMAIN items -> Item]
      /\ claims \in Seq([task : 1 .. accepted, age : 0 .. MaxClock])
  BY DEF QueueInv, TypeOK
<1>3. Kept \subseteq DOMAIN items
  BY DEF Kept
<1>4. items[task] \in Item /\ items[task].createdAt \in 0 .. MaxClock /\ items[task].createdAt <= clock
  BY <1>1, <1>2, <1>3 DEF QueueInv, CreatedInThePast, Item
<1>5. age \in 0 .. MaxClock
  <2> DEFINE at == items[task].createdAt
  <2>1. clock \in 0 .. MaxClock /\ at \in 0 .. MaxClock /\ at <= clock /\ MaxClock \in Nat
    BY <1>2, <1>4, QueueAssumption
  <2> HIDE DEF at
  <2>2. clock - at \in 0 .. MaxClock
    BY <2>1
  <2> QED BY <2>2 DEF at
<1>6. items'[task] \in Item /\ items'[task].status = "CLAIMED"
      /\ items'[task].createdAt = items[task].createdAt
  BY <1>1, <1>4 DEF Item
<1>7. /\ ready' \in Seq(1 .. accepted) /\ DOMAIN ready' = 1 .. Len(ready) - first
      /\ \A i \in 1 .. Len(ready) - first : ready'[i] = ready[first + i]
  BY <1>1, <1>2, TailOfReady
<1>8. DOMAIN ready = 1 .. Len(ready) /\ Len(ready) \in Nat /\ first \in 1 .. Len(ready)
  BY <1>1, <1>2
<1> HIDE DEF first
<1>9. TypeOK'
  <2>1. items' \in [DOMAIN items' -> Item]
    <3>1. \A t \in Kept : items'[t] \in Item
      BY <1>1, <1>2, <1>3, <1>6
    <3>2. items' = [t \in Kept |-> items'[t]]
      BY DEF ClaimTask, ClaimLeavingFrom
    <3> QED BY <1>1, <3>1, <3>2
  <2>2. claims' \in Seq([task : 1 .. accepted, age : 0 .. MaxClock])
    <3>1. [task |-> task, age |-> age] \in [task : 1 .. accepted, age : 0 .. MaxClock]
      BY <1>1, <1>2, <1>3, <1>5
    <3> HIDE DEF age, task
    <3> QED BY <1>1, <1>2, <3>1
  <2> QED BY <1>1, <1>3, <1>7, <2>1, <2>2 DEF QueueInv, TypeOK
<1>10. ReadyListAgrees'
  <2>1. \A k, l \in DOMAIN ready : k < l => ready[k] < ready[l]
    BY DEF QueueInv, ReadyListAgrees
  <2>2. \A i \in DOMAIN ready' : first + i \in DOMAIN ready /\ first < first + i
    BY <1>7, <1>8
  <2>3. \A i, j \in DOMAIN ready' : i < j => ready'[i] < ready'[j]
    <3>1. ASSUME NEW i \in DOMAIN ready', NEW j \in DOMAIN ready', i < j PROVE ready'[i] < ready'[j]
      <4>1. first + i < first + j
        BY <1>7, <1>8, <3>1
      <4> QED BY <1>7, <2>1, <2>2, <4>1
    <3> QED BY <3>1
  <2>4. \A i \in DOMAIN ready' : ready'[i] # task
    <3>1. ASSUME NEW i \in DOMAIN ready' PROVE ready'[i] # task
      <4>1. ready[first] < ready'[i]
        BY <1>1, <1>7, <2>1, <2>2
      <4>2. ready'[i] \in 1 .. accepted
        BY <1>7, SeqElement
      <4> QED BY <4>1, <4>2
    <3> QED BY <3>1
  <2>5. ASSUME NEW t \in Kept, t # task
        PROVE  items'[t].status = "READY" <=> \E i \in DOMAIN ready' : ready'[i] = t
    <3>1. items'[t] = items[t] /\ (items[t].status = "READY" <=> \E k \in DOMAIN ready : ready[k] = t)
      BY <1>1, <1>3, <2>5 DEF QueueInv, ReadyListAgrees
    <3>2. ASSUME items[t].status = "READY" PROVE \E i \in DOMAIN ready' : ready'[i] = t
      <4>1. IsReady(t)
        BY <1>3, <3>2 DEF IsReady
      <4>2. Claimable # {}
        BY DEF ClaimTask, ClaimLeavingFrom
      <4>3. PICK l \in DOMAIN ready : l >= first /\ ready[l] = t
        BY <4>1, <4>2, FirstIsOldest DEF first
      <4>4. l # first /\ l - first \in 1 .. Len(ready) - first /\ first + (l - first) = l
        BY <1>8, <2>5, <4>3
      <4> QED BY <1>7, <4>3, <4>4
    <3>3. (\E i \in DOMAIN ready' : ready'[i] = t) => \E k \in DOMAIN ready : ready[k] = t
      BY <1>7, <2>2
    <3> QED BY <3>1, <3>2, <3>3
  <2> QED BY <1>1, <1>6, <2>3, <2>4, <2>5, ZenonT(30) DEF ReadyListAgrees
<1>11. CreatedInThePast'
  BY <1>1, <1>3, <1>6 DEF QueueInv, CreatedInThePast
<1> QED BY <1>9, <1>10, <1>11 DEF QueueInv

\* When nothing can be claimed, no item that is kept is still ready.
LEMMA NothingWaits ==
  ASSUME QueueInv, Claimable = {}, NEW t \in Kept
  PROVE  ~IsReady(t)
  BY DEF QueueInv, ReadyListAgrees, Claimable, IsReady

\* claimReady, when it finds none: no item of the map is READY any more.
LEMMA ClaimNothingInv == ASSUME QueueInv, ClaimNothing PROVE QueueInv'
<1>1. /\ DOMAIN items' = Kept /\ Kept \subseteq DOMAIN items /\ Claimable = {} /\ ready' = <<>>
      /\ \A t \in Kept : items'[t] = items[t]
      /\ UNCHANGED <<accepted, clock, claims, done>>
  BY DEF ClaimNothing, Restrict, Kept
<1>2. TypeOK'
  BY <1>1 DEF QueueInv, TypeOK, ClaimNothing, Restrict
<1>3. \A t \in DOMAIN items' : items'[t].status # "READY"
  BY <1>1, NothingWaits DEF IsReady
<1>4. ReadyListAgrees' /\ CreatedInThePast'
  BY <1>1, <1>3 DEF QueueInv, ReadyListAgrees, CreatedInThePast
<1> QED BY <1>2, <1>4 DEF QueueInv

\* finalize takes an item that is in the list no longer.
LEMMA FinalizeInv == ASSUME QueueInv, NEW t \in DOMAIN items, Finalize(t) PROVE QueueInv'
<1>1. /\ DOMAIN items' = DOMAIN items \ {t} /\ done' = done \cup {t}
      /\ \A u \in DOMAIN items \ {t} : items'[u] = items[u]
      /\ UNCHANGED <<ready, accepted, clock, claims>>
  BY DEF Finalize, Restrict
<1>2. TypeOK'
  BY <1>1 DEF QueueInv, TypeOK, Finalize, Restrict
<1>3. ReadyListAgrees' /\ CreatedInThePast'
  BY <1>1 DEF QueueInv, ReadyListAgrees, CreatedInThePast
<1> QED BY <1>2, <1>3 DEF QueueInv

\* Time passes.
LEMMA TickInv == ASSUME QueueInv, Tick PROVE QueueInv'
<1>1. clock \in 0 .. MaxClock /\ clock' = clock + 1 /\ clock' \in 0 .. MaxClock
      /\ UNCHANGED <<items, ready, accepted, claims, done>>
  BY QueueAssumption DEF QueueInv, TypeOK, Tick
<1>2. TypeOK' /\ ReadyListAgrees'
  BY <1>1 DEF QueueInv, TypeOK, ReadyListAgrees
<1>3. \A t \in DOMAIN items : items[t].createdAt \in 0 .. MaxClock
  BY DEF QueueInv, TypeOK, Item
<1>4. CreatedInThePast'
  BY <1>1, <1>3 DEF QueueInv, CreatedInThePast
<1> QED BY <1>2, <1>4 DEF QueueInv

\* Map and list are empty.
LEMMA InitInv == ASSUME Init PROVE QueueInv
<1>1. DOMAIN items = {} /\ DOMAIN ready = {}
  BY DEF Init
<1>2. TypeOK
  BY <1>1, QueueAssumption DEF Init, TypeOK
<1> QED BY <1>1, <1>2 DEF QueueInv, ReadyListAgrees, CreatedInThePast

\* Every step, whatever operation it is, keeps the invariant.
LEMMA NextInv == ASSUME QueueInv, [Next]_vars PROVE QueueInv'
<1>1. CASE Prune \/ EnqueueRefused
  BY <1>1, PruneInv DEF EnqueueRefused
<1>2. ASSUME NEW group \in Groups, NEW text \in Texts, NEW intent \in Intents,
             EnqueueAccepted(group, text, intent)
      PROVE  QueueInv'
  BY <1>2, EnqueueInv
<1>3. CASE Claim
  BY <1>3, ClaimTaskInv, ClaimNothingInv DEF Claim
<1>4. ASSUME NEW t \in DOMAIN items, Finalize(t) PROVE QueueInv'
  BY <1>4, FinalizeInv
<1>5. CASE Tick
  BY <1>5, TickInv
<1>6. CASE UNCHANGED vars
  BY <1>6 DEF vars, QueueInv, TypeOK, ReadyListAgrees, CreatedInThePast
<1> QED BY <1>1, <1>2, <1>3, <1>4, <1>5, <1>6 DEF Next

-----------------------------------------------------------------------------
(* The theorems.                                                           *)

\* The inductive invariant holds in every behaviour of the queue.
THEOREM QueueInvariance == Spec => []QueueInv
<1>1. Init => QueueInv
  BY InitInv
<1>2. QueueInv /\ [Next]_vars => QueueInv'
  BY NextInv
<1> QED BY <1>1, <1>2, PTL DEF Spec

\* Type correctness of the queue.
THEOREM TypeCorrectness == Spec => []TypeOK
<1>1. QueueInv => TypeOK
  BY DEF QueueInv
<1> QED BY <1>1, QueueInvariance, PTL

\* Whatever was enqueued, claimed, finalized or expired, the ready list holds
\* exactly the READY items of the map, oldest first.
THEOREM ListAndMapAgree == Spec => []ReadyListAgrees
<1>1. QueueInv => ReadyListAgrees
  BY DEF QueueInv
<1> QED BY <1>1, QueueInvariance, PTL

-----------------------------------------------------------------------------
(* Refinement.                                                             *)

Waiting == {t \in DOMAIN items : IsReady(t)}
Taken(history) == [k \in DOMAIN history |-> history[k].task]

\* Appending a claim appends its task.
LEMMA AppendTaken ==
  ASSUME NEW S, NEW s \in Seq(S), NEW e
  PROVE  Taken(Append(s, e)) = Append(Taken(s), e.task)
<1> DEFINE tasks == {s[k].task : k \in DOMAIN s}
<1>1. Len(s) \in Nat /\ DOMAIN s = 1 .. Len(s) /\ DOMAIN Append(s, e) = 1 .. Len(s) + 1
  OBVIOUS
<1>2. Taken(s) \in Seq(tasks) /\ Len(Taken(s)) = Len(s)
  BY <1>1 DEF Taken
<1>3. DOMAIN Append(Taken(s), e.task) = 1 .. Len(s) + 1
  BY <1>1, <1>2
<1>4. ASSUME NEW k \in 1 .. Len(s) + 1
      PROVE  Taken(Append(s, e))[k] = Append(Taken(s), e.task)[k]
  <2>1. CASE k = Len(s) + 1
    BY <1>1, <1>2, <2>1 DEF Taken
  <2>2. CASE k # Len(s) + 1
    BY <1>1, <1>2, <2>2 DEF Taken
  <2> QED BY <2>1, <2>2
<1>5. /\ Taken(Append(s, e)) = [k \in 1 .. Len(s) + 1 |-> Taken(Append(s, e))[k]]
      /\ Append(Taken(s), e.task) = [k \in 1 .. Len(s) + 1 |-> Append(Taken(s), e.task)[k]]
  BY <1>1, <1>3 DEF Taken
<1> QED BY <1>4, <1>5

\* The queue's steps are the abstract queue's.
LEMMA StepRefines ==
  ASSUME QueueInv, [Next]_vars
  PROVE  [Queue!TaskNext]_(Queue!taskVars)
<1> DEFINE lost == {t \in DOMAIN items : IsReady(t)} \ Kept
<1> USE DEF Queue!TaskNext, Queue!taskVars
<1>1. ASSUME NEW group \in Groups, NEW text \in Texts, NEW intent \in Intents,
             EnqueueAccepted(group, text, intent)
      PROVE  Queue!Submit
  <2>1. /\ DOMAIN items' = Kept \cup {accepted + 1} /\ items'[accepted + 1].status = "READY"
        /\ \A t \in Kept : t # accepted + 1 => items'[t] = items[t]
        /\ accepted' = accepted + 1 /\ claims' = claims
    BY <1>1 DEF EnqueueAccepted
  <2>2. Kept \subseteq DOMAIN items /\ accepted + 1 \notin Kept
    BY DEF QueueInv, TypeOK, Kept
  <2>3. Waiting' = (Waiting \ lost) \cup {accepted + 1}
    BY <2>1, <2>2 DEF IsReady, Waiting
  <2> QED BY <2>1, <2>3 DEF Queue!Submit, Waiting
<1>2. CASE ClaimTask
  <2> DEFINE first == FirstClaimable
             task == ready[first]
  <2>1. /\ first \in DOMAIN ready /\ task \in Kept /\ IsReady(task)
        /\ DOMAIN items' = Kept
        /\ items'[task] = [items[task] EXCEPT !.status = "CLAIMED"]
        /\ \A t \in Kept \ {task} : items'[t] = items[t]
        /\ claims' = Append(claims, [task |-> task, age |-> clock - items[task].createdAt])
        /\ accepted' = accepted
    BY <1>2, ClaimFacts
  <2>2. Kept \subseteq DOMAIN items /\ items[task] \in Item
    BY <2>1 DEF QueueInv, TypeOK, Kept
  <2>3. items'[task].status = "CLAIMED"
    BY <2>1, <2>2 DEF Item
  <2>4. task \in Waiting \ lost
    BY <2>1, <2>2 DEF Waiting
  <2>5. \A u \in Waiting \ lost : task <= u
    <3>1. Claimable # {}
      BY <1>2 DEF ClaimTask, ClaimLeavingFrom
    <3> QED BY <3>1, FirstIsOldest DEF Waiting
  <2>6. Waiting' = Waiting \ (lost \cup {task})
    <3>1. \A t \in Kept : IsReady(t)' <=> t # task /\ IsReady(t)
      BY <2>1, <2>2, <2>3 DEF IsReady
    <3>2. Waiting' = {t \in Kept : t # task /\ IsReady(t)}
      BY <2>1, <3>1 DEF Waiting
    <3> QED BY <2>2, <3>2 DEF Waiting
  <2>7. Taken(claims)' = Append(Taken(claims), task)
    <3>1. claims \in Seq([task : 1 .. accepted, age : 0 .. MaxClock])
      BY DEF QueueInv, TypeOK
    <3>2. Taken(claims)' = Taken(claims')
      BY DEF Taken
    <3> QED BY <2>1, <3>1, <3>2, AppendTaken
  <2>8. lost \in SUBSET Waiting
    BY DEF Waiting
  <2> QED BY <2>1, <2>4, <2>5, <2>6, <2>7, <2>8 DEF Queue!Take, Waiting, Taken
<1>3. ASSUME DOMAIN items' \subseteq DOMAIN items, \A t \in DOMAIN items' : items'[t] = items[t],
             UNCHANGED <<accepted, claims>>
      PROVE  Queue!Drop
  BY <1>3 DEF Queue!Drop, IsReady
<1>4. CASE Prune \/ EnqueueRefused \/ ClaimNothing
  BY <1>3, <1>4 DEF Prune, EnqueueRefused, ClaimNothing, Restrict, Kept
<1>5. ASSUME NEW t \in DOMAIN items, Finalize(t) PROVE Queue!Drop
  BY <1>3, <1>5 DEF Finalize, Restrict
<1>6. CASE Tick
  BY <1>3, <1>6 DEF Tick
<1>7. CASE UNCHANGED vars
  BY <1>3, <1>7 DEF vars
<1> QED BY <1>1, <1>2, <1>4, <1>5, <1>6, <1>7 DEF Next, Claim

\* Every behaviour of the queue, with its list, capacity and clock, is one of the
\* abstract queue: no task is handed out twice, or after it was dropped, or before
\* an older one that still waits.
THEOREM QueueImplementsTaskQueue == Spec => ImplementsTaskQueue
<1>1. Init => Queue!TaskInit
  BY DEF Init, Queue!TaskInit
<1>2. QueueInv /\ [Next]_vars => [Queue!TaskNext]_(Queue!taskVars)
  BY StepRefines
<1> QED BY <1>1, <1>2, QueueInvariance, PTL DEF Spec, ImplementsTaskQueue, Queue!TaskSpec

-----------------------------------------------------------------------------
(* The buffers of the memory service.                                      *)

Increasing(s) == \A i, j \in DOMAIN s : i < j => s[i] < s[j]

\* t is s without its first d elements.
IsTail(s, t, d) ==
  /\ d \in 0 .. Len(s) /\ Len(t) = Len(s) - d
  /\ \A j \in 1 .. Len(s) - d : t[j] = s[j + d]

\* The list of seen ids is no independent state: it holds the last admissions, all
\* of them or SeenLimit.
SeenIsTheNewest ==
  \E d \in 0 .. Len(admitted) : IsTail(admitted, seen, d) /\ (d > 0 => Len(seen) >= SeenLimit)

\* What a flush works on came before all that was buffered since.
BatchIsOlder(r) ==
  /\ Increasing(batch[r]) /\ Increasing(entries[r])
  /\ \A m \in Range(batch[r]), n \in Range(entries[r]) : m < n

HeldIsOwn(r) ==
  \A n \in Range(batch[r]) \cup Range(entries[r]) : Sender[admitted[n]] = r /\ n \notin extracted

BufferIsBounded(r) == Len(entries[r]) <= Cap

BufferInv ==
  /\ BufferTypeOK
  /\ SeenIsTheNewest
  /\ RepeatedOnlyWhenForgotten
  /\ \A r \in Requesters : BatchIsOlder(r) /\ HeldIsOwn(r) /\ BufferIsBounded(r)

-----------------------------------------------------------------------------
(* Facts about the helpers.                                                *)

\* Newest gives up as many of the first elements as are too many.
LEMMA NewestIsTail ==
  ASSUME NEW S, NEW s \in Seq(S), NEW n \in Nat
  PROVE  /\ Newest(s, n) \in Seq(S)
         /\ \E d \in Nat : /\ IsTail(s, Newest(s, n), d)
                           /\ d = IF Len(s) > n THEN Len(s) - n ELSE 0
<1> DEFINE d == IF Len(s) > n THEN Len(s) - n ELSE 0
<1>1. Len(s) \in Nat /\ d \in 0 .. Len(s) /\ d \in Nat
  OBVIOUS
<1>2. Newest(s, n) = SubSeq(s, d + 1, Len(s))
  BY <1>1 DEF Newest
<1>3. \A i \in d + 1 .. Len(s) : s[i] \in S
  BY <1>1, ElementOfSeq
<1> HIDE DEF d
<1>4. /\ SubSeq(s, d + 1, Len(s)) \in Seq(S)
      /\ Len(SubSeq(s, d + 1, Len(s))) = Len(s) - d
      /\ \A i \in 1 .. Len(s) - d : SubSeq(s, d + 1, Len(s))[i] = s[d + i]
  BY <1>1, <1>3, SubSeqProperties
<1>5. \A i \in 1 .. Len(s) - d : SubSeq(s, d + 1, Len(s))[i] = s[i + d]
  BY <1>1, <1>4
<1>6. IsTail(s, Newest(s, n), d)
  BY <1>1, <1>2, <1>4, <1>5 DEF IsTail
<1> QED BY <1>1, <1>2, <1>4, <1>6 DEF d

\* Where an element of a tail stands in the whole.
LEMMA TailPosition ==
  ASSUME NEW S, NEW s \in Seq(S), NEW t \in Seq(S), NEW d \in Nat, IsTail(s, t, d), NEW j \in DOMAIN t
  PROVE  j \in Nat /\ j + d \in DOMAIN s /\ t[j] = s[j + d]
<1>1. /\ Len(s) \in Nat /\ Len(t) = Len(s) - d
      /\ DOMAIN s = 1 .. Len(s) /\ DOMAIN t = 1 .. Len(t)
  BY DEF IsTail
<1>2. j \in 1 .. Len(s) - d
  BY <1>1
<1>3. t[j] = s[j + d]
  BY <1>2 DEF IsTail
<1>4. j \in Nat /\ 1 <= j + d /\ j + d <= Len(s)
  BY <1>1, <1>2
<1>5. j + d \in DOMAIN s
  BY <1>1, <1>4
<1> QED BY <1>3, <1>4, <1>5

\* A tail of an ordered sequence is ordered.
LEMMA TailIncreasing ==
  ASSUME NEW s \in Seq(Nat), NEW t \in Seq(Nat), NEW d \in Nat, IsTail(s, t, d), Increasing(s)
  PROVE  Increasing(t)
<1> SUFFICES ASSUME NEW i \in DOMAIN t, NEW j \in DOMAIN t, i < j PROVE t[i] < t[j]
  BY DEF Increasing
<1>1. i \in Nat /\ i + d \in DOMAIN s /\ t[i] = s[i + d]
  BY TailPosition
<1>2. j \in Nat /\ j + d \in DOMAIN s /\ t[j] = s[j + d]
  BY TailPosition
<1>3. i + d < j + d
  BY <1>1, <1>2
<1>4. s[i + d] < s[j + d]
  BY <1>1, <1>2, <1>3 DEF Increasing
<1> QED BY <1>1, <1>2, <1>4

\* Its elements are elements of the whole, and what it leaves out is smaller.
LEMMA TailElements ==
  ASSUME NEW s \in Seq(Nat), NEW t \in Seq(Nat), NEW d \in Nat, IsTail(s, t, d), Increasing(s)
  PROVE  /\ Range(t) \subseteq Range(s)
         /\ \A n \in Range(s) \ Range(t) : \A k \in Range(t) : n < k
<1>1. /\ Len(s) \in Nat /\ d <= Len(s) /\ Len(t) = Len(s) - d
      /\ DOMAIN s = 1 .. Len(s) /\ DOMAIN t = 1 .. Len(t)
  BY DEF IsTail
<1>2. Range(t) \subseteq Range(s)
  BY TailPosition DEF Range
<1>3. ASSUME NEW n \in Range(s) \ Range(t), NEW k \in Range(t) PROVE n < k
  <2>1. PICK i \in DOMAIN s : n = s[i]
    BY DEF Range
  <2>2. PICK j \in DOMAIN t : k = t[j]
    BY DEF Range
  <2>3. i \in Nat /\ 1 <= i /\ i <= Len(s) /\ 1 <= j
    BY <1>1
  <2>4. i <= d
    <3>1. CASE i > d
      <4>1. i - d \in Nat /\ 1 <= i - d /\ i - d <= Len(t)
        BY <1>1, <2>3, <3>1
      <4>2. i - d \in DOMAIN t
        BY <1>1, <4>1
      <4>3. t[i - d] = s[(i - d) + d]
        BY <4>2, TailPosition
      <4>4. (i - d) + d = i
        BY <2>3
      <4> QED BY <2>1, <4>2, <4>3, <4>4 DEF Range
    <3> QED BY <2>3, <3>1
  <2>5. j \in Nat /\ j + d \in DOMAIN s /\ k = s[j + d]
    BY <2>2, TailPosition
  <2>6. i < j + d
    BY <2>3, <2>4, <2>5
  <2> QED BY <2>1, <2>5, <2>6 DEF Increasing
<1> QED BY <1>2, <1>3

\* A tail without loss has every element.
LEMMA WholeTail ==
  ASSUME NEW S, NEW s \in Seq(S), NEW t \in Seq(S), IsTail(s, t, 0)
  PROVE  Range(s) \subseteq Range(t)
<1>1. /\ Len(s) \in Nat /\ DOMAIN s = 1 .. Len(s) /\ Len(t) = Len(s) - 0
      /\ DOMAIN t = 1 .. Len(t) /\ \A j \in 1 .. Len(s) - 0 : t[j] = s[j + 0]
  BY DEF IsTail
<1>2. Len(s) - 0 = Len(s) /\ \A j \in 1 .. Len(s) : j + 0 = j
  BY <1>1
<1>3. ASSUME NEW j \in DOMAIN s PROVE j \in DOMAIN t /\ t[j] = s[j]
  BY <1>1, <1>2
<1> QED BY <1>3 DEF Range

\* A sequence in order has as many elements as positions.
LEMMA IncreasingCount ==
  ASSUME NEW s \in Seq(Nat), Increasing(s)
  PROVE  IsFiniteSet(Range(s)) /\ Cardinality(Range(s)) = Len(s)
<1>1. Len(s) \in Nat /\ DOMAIN s = 1 .. Len(s) /\ s \in [1 .. Len(s) -> Nat]
  OBVIOUS
<1>2. ASSUME NEW i \in DOMAIN s, NEW j \in DOMAIN s, s[i] = s[j] PROVE i = j
  <2>1. i < j => s[i] < s[j]
    BY DEF Increasing
  <2>2. j < i => s[j] < s[i]
    BY DEF Increasing
  <2>3. s[i] \in Nat /\ s[j] \in Nat /\ i \in Nat /\ j \in Nat
    BY <1>1
  <2> QED BY <1>2, <2>1, <2>2, <2>3
<1>3. s \in Bijection(1 .. Len(s), Range(s))
  <2>1. s \in [1 .. Len(s) -> Range(s)]
    BY <1>1 DEF Range
  <2> QED BY <1>1, <1>2, <2>1 DEF Bijection, Injection, Surjection, IsInjective, Range
<1>4. ExistsBijection(1 .. Len(s), Range(s))
  BY <1>3 DEF ExistsBijection
<1>5. IsFiniteSet(1 .. Len(s)) /\ Cardinality(1 .. Len(s)) = Len(s)
  <2>1. IsFiniteSet(1 .. Len(s))
        /\ Cardinality(1 .. Len(s)) = IF 1 > Len(s) THEN 0 ELSE Len(s) - 1 + 1
    BY <1>1, FS_Interval, SMTT(20)
  <2> QED BY <1>1, <2>1
<1> QED BY <1>4, <1>5, FS_Bijection

\* One sequence after another, the first all older than the second.
LEMMA ConcatIncreasing ==
  ASSUME NEW s \in Seq(Nat), NEW t \in Seq(Nat), Increasing(s), Increasing(t),
         \A m \in Range(s), n \in Range(t) : m < n
  PROVE  /\ s \o t \in Seq(Nat) /\ Len(s \o t) = Len(s) + Len(t)
         /\ Increasing(s \o t)
         /\ Range(s \o t) = Range(s) \cup Range(t)
<1>1. /\ Len(s) \in Nat /\ DOMAIN s = 1 .. Len(s)
      /\ Len(t) \in Nat /\ DOMAIN t = 1 .. Len(t)
  OBVIOUS
<1>2. PICK u \in Seq(Nat) : u = s \o t
  BY ConcatProperties
<1>3. /\ Len(u) = Len(s) + Len(t)
      /\ \A i \in 1 .. Len(s) + Len(t) : u[i] = IF i <= Len(s) THEN s[i] ELSE t[i - Len(s)]
  BY <1>2, ConcatProperties
<1>4. DOMAIN u = 1 .. Len(s) + Len(t)
  BY <1>3
<1>5. ASSUME NEW i \in DOMAIN u
      PROVE  \/ i \in DOMAIN s /\ u[i] = s[i]
             \/ i > Len(s) /\ i - Len(s) \in DOMAIN t /\ u[i] = t[i - Len(s)]
  BY <1>1, <1>3, <1>4
<1>6. Increasing(u)
  <2> SUFFICES ASSUME NEW i \in DOMAIN u, NEW j \in DOMAIN u, i < j PROVE u[i] < u[j]
    BY DEF Increasing
  <2>1. CASE i \in DOMAIN s /\ u[i] = s[i] /\ j \in DOMAIN s /\ u[j] = s[j]
    BY <2>1 DEF Increasing
  <2>2. CASE i \in DOMAIN s /\ u[i] = s[i] /\ j - Len(s) \in DOMAIN t /\ u[j] = t[j - Len(s)]
    BY <2>2 DEF Range
  <2>3. CASE /\ i > Len(s) /\ i - Len(s) \in DOMAIN t /\ u[i] = t[i - Len(s)]
             /\ j - Len(s) \in DOMAIN t /\ u[j] = t[j - Len(s)]
    <3>1. i - Len(s) < j - Len(s)
      BY <1>1, <1>4, <2>3
    <3> QED BY <2>3, <3>1 DEF Increasing
  <2>4. CASE i > Len(s) /\ j \in DOMAIN s
    BY <1>1, <1>4, <2>4
  <2> QED BY <1>5, <2>1, <2>2, <2>3, <2>4
<1>7. Range(u) = Range(s) \cup Range(t)
  <2>1. Range(u) \subseteq Range(s) \cup Range(t)
    BY <1>5 DEF Range
  <2>2. ASSUME NEW i \in DOMAIN s PROVE s[i] \in Range(u)
    <3>1. i \in DOMAIN u /\ u[i] = s[i]
      BY <1>1, <1>3, <1>4
    <3> QED BY <3>1 DEF Range
  <2>3. ASSUME NEW j \in DOMAIN t PROVE t[j] \in Range(u)
    <3>1. j + Len(s) \in DOMAIN u /\ ~(j + Len(s) <= Len(s)) /\ (j + Len(s)) - Len(s) = j
      BY <1>1, <1>4, SMTT(20)
    <3>2. u[j + Len(s)] = t[j]
      BY <1>3, <1>4, <3>1
    <3> QED BY <3>1, <3>2 DEF Range
  <2> QED BY <2>1, <2>2, <2>3 DEF Range
<1> QED BY <1>2, <1>3, <1>6, <1>7

\* A newer element behind a sequence in order.
LEMMA AppendIncreasing ==
  ASSUME NEW s \in Seq(Nat), NEW x \in Nat, Increasing(s), \A m \in Range(s) : m < x
  PROVE  /\ Append(s, x) \in Seq(Nat) /\ Len(Append(s, x)) = Len(s) + 1
         /\ Increasing(Append(s, x))
         /\ Range(Append(s, x)) = Range(s) \cup {x}
<1>1. Len(s) \in Nat /\ DOMAIN s = 1 .. Len(s)
  OBVIOUS
<1>2. PICK u \in Seq(Nat) : u = Append(s, x)
  BY AppendProperties
<1>3. /\ Len(u) = Len(s) + 1
      /\ \A i \in 1 .. Len(s) : u[i] = s[i]
      /\ u[Len(s) + 1] = x
  BY <1>2, AppendProperties
<1>4. DOMAIN u = 1 .. Len(s) + 1
  BY <1>3
<1>5. ASSUME NEW i \in DOMAIN u PROVE (i \in DOMAIN s /\ u[i] = s[i]) \/ (i = Len(s) + 1 /\ u[i] = x)
  BY <1>1, <1>3, <1>4
<1>6. Increasing(u)
  <2> SUFFICES ASSUME NEW i \in DOMAIN u, NEW j \in DOMAIN u, i < j PROVE u[i] < u[j]
    BY DEF Increasing
  <2>1. i \in DOMAIN s /\ u[i] = s[i]
    BY <1>1, <1>4, <1>5
  <2>2. CASE j \in DOMAIN s /\ u[j] = s[j]
    BY <2>1, <2>2 DEF Increasing
  <2>3. CASE u[j] = x
    BY <2>1, <2>3 DEF Range
  <2> QED BY <1>5, <2>2, <2>3
<1>7. Range(u) = Range(s) \cup {x}
  <2>1. Range(u) \subseteq Range(s) \cup {x}
    BY <1>5 DEF Range
  <2>2. ASSUME NEW i \in DOMAIN s PROVE s[i] \in Range(u)
    <3>1. i \in DOMAIN u /\ u[i] = s[i]
      BY <1>1, <1>3, <1>4
    <3> QED BY <3>1 DEF Range
  <2>3. x \in Range(u)
    <3>1. Len(s) + 1 \in DOMAIN u
      BY <1>1, <1>4
    <3> QED BY <1>3, <3>1 DEF Range
  <2> QED BY <2>1, <2>2, <2>3 DEF Range
<1> QED BY <1>2, <1>3, <1>6, <1>7


\* A tail of a tail.
LEMMA TailOfTail ==
  ASSUME NEW S, NEW s \in Seq(S), NEW t \in Seq(S), NEW u \in Seq(S), NEW d \in Nat, NEW e \in Nat,
         IsTail(s, t, d), IsTail(t, u, e)
  PROVE  IsTail(s, u, d + e)
<1>1. /\ Len(s) \in Nat /\ Len(t) = Len(s) - d /\ Len(u) = Len(t) - e
      /\ d <= Len(s) /\ e <= Len(t)
      /\ DOMAIN t = 1 .. Len(t) /\ DOMAIN u = 1 .. Len(u)
  BY DEF IsTail
<1>2. d + e \in 0 .. Len(s) /\ Len(u) = Len(s) - (d + e)
  BY <1>1
<1>3. ASSUME NEW j \in 1 .. Len(s) - (d + e) PROVE u[j] = s[j + (d + e)]
  <2>1. j \in DOMAIN u
    BY <1>1, <1>3
  <2>2. j \in Nat /\ j + e \in DOMAIN t /\ u[j] = t[j + e]
    BY <2>1, TailPosition
  <2>3. t[j + e] = s[(j + e) + d]
    BY <2>2, TailPosition
  <2>4. (j + e) + d = j + (d + e)
    BY <2>2
  <2> QED BY <2>2, <2>3, <2>4
<1> QED BY <1>2, <1>3 DEF IsTail

\* The same element behind both.
LEMMA TailAppend ==
  ASSUME NEW S, NEW s \in Seq(S), NEW t \in Seq(S), NEW d \in Nat, IsTail(s, t, d), NEW x \in S
  PROVE  /\ Append(s, x) \in Seq(S) /\ Append(t, x) \in Seq(S)
         /\ IsTail(Append(s, x), Append(t, x), d)
<1>1. /\ Len(s) \in Nat /\ Len(t) = Len(s) - d /\ d <= Len(s)
      /\ DOMAIN s = 1 .. Len(s) /\ DOMAIN t = 1 .. Len(t)
  BY DEF IsTail
<1>2. /\ Append(s, x) \in Seq(S) /\ Len(Append(s, x)) = Len(s) + 1
      /\ \A i \in 1 .. Len(s) : Append(s, x)[i] = s[i]
      /\ Append(s, x)[Len(s) + 1] = x
  BY AppendProperties
<1>3. /\ Append(t, x) \in Seq(S) /\ Len(Append(t, x)) = Len(t) + 1
      /\ \A i \in 1 .. Len(t) : Append(t, x)[i] = t[i]
      /\ Append(t, x)[Len(t) + 1] = x
  BY AppendProperties
<1>4. ASSUME NEW j \in 1 .. Len(s) + 1 - d PROVE Append(t, x)[j] = Append(s, x)[j + d]
  <2>1. CASE j \in 1 .. Len(t)
    <3>1. j \in DOMAIN t
      BY <1>1, <2>1
    <3>2. j + d \in DOMAIN s
      BY <3>1, TailPosition
    <3>3. t[j] = s[j + d]
      BY <3>1, TailPosition
    <3> QED BY <1>1, <1>2, <1>3, <2>1, <3>2, <3>3
  <2>2. CASE j = Len(t) + 1
    <3>1. j + d = Len(s) + 1
      BY <1>1, <2>2
    <3> QED BY <1>2, <1>3, <2>2, <3>1
  <2>3. j \in 1 .. Len(t) \/ j = Len(t) + 1
    BY <1>1, <1>4
  <2> QED BY <2>1, <2>2, <2>3
<1>5. d \in 0 .. Len(s) + 1 /\ Len(t) + 1 = Len(s) + 1 - d
  BY <1>1
<1>6. d \in 0 .. Len(Append(s, x)) /\ Len(Append(t, x)) = Len(Append(s, x)) - d
  BY <1>2, <1>3, <1>5
<1>7. \A j \in 1 .. Len(Append(s, x)) - d : Append(t, x)[j] = Append(s, x)[j + d]
  <2>1. Len(Append(s, x)) - d = Len(s) + 1 - d
    BY <1>2
  <2> QED BY <1>4, <2>1
<1>8. IsTail(Append(s, x), Append(t, x), d)
  BY ONLY <1>6, <1>7 DEF IsTail
<1> QED BY <1>2, <1>3, <1>8

-----------------------------------------------------------------------------
(* The seen ids.                                                           *)

\* rememberMessage keeps the list what it is, and a message it does not hold was
\* admitted long ago or never.
LEMMA SeenInv ==
  ASSUME BufferTypeOK, SeenIsTheNewest, RepeatedOnlyWhenForgotten, NEW message \in Messages,
         ~Contains(seen, message),
         seen' = Remember(message), admitted' = Append(admitted, message)
  PROVE  /\ seen' \in Seq(Messages) /\ admitted' \in Seq(Messages)
         /\ Len(admitted') = Len(admitted) + 1 /\ Len(admitted) \in Nat
         /\ \A n \in 1 .. Len(admitted) : admitted'[n] = admitted[n]
         /\ admitted'[Len(admitted) + 1] = message
         /\ SeenIsTheNewest'
         /\ RepeatedOnlyWhenForgotten'
<1>1. /\ seen \in Seq(Messages) /\ admitted \in Seq(Messages)
      /\ Len(admitted) \in Nat /\ DOMAIN admitted = 1 .. Len(admitted)
      /\ Len(seen) \in Nat /\ DOMAIN seen = 1 .. Len(seen)
  BY DEF BufferTypeOK
<1>2. PICK d \in Nat : IsTail(admitted, seen, d) /\ (d > 0 => Len(seen) >= SeenLimit)
  BY <1>1 DEF SeenIsTheNewest
<1>3. /\ admitted' \in Seq(Messages) /\ Len(admitted') = Len(admitted) + 1
      /\ \A n \in 1 .. Len(admitted) : admitted'[n] = admitted[n]
      /\ admitted'[Len(admitted) + 1] = message
  BY <1>1, AppendProperties
<1>4. /\ Append(seen, message) \in Seq(Messages)
      /\ IsTail(admitted', Append(seen, message), d)
  BY <1>1, <1>2, TailAppend
<1>5. PICK t \in Seq(Messages) : t = Append(seen, message) /\ Len(t) = Len(seen) + 1
  BY <1>1, <1>4, AppendProperties
<1>6. /\ seen' \in Seq(Messages)
      /\ \E e \in Nat : IsTail(t, seen', e) /\ e = IF Len(t) > SeenLimit THEN Len(t) - SeenLimit ELSE 0
  BY <1>5, NewestIsTail, BufferAssumption DEF Remember
<1>7. SeenIsTheNewest'
  <2>1. PICK e \in Nat :
          IsTail(t, seen', e) /\ e = IF Len(t) > SeenLimit THEN Len(t) - SeenLimit ELSE 0
    BY <1>6
  <2>2. IsTail(admitted', seen', d + e)
    BY <1>3, <1>4, <1>5, <1>6, <2>1, TailOfTail
  <2>3. d + e > 0 => Len(seen') >= SeenLimit
    <3>1. Len(seen') = Len(t) - e
      BY <2>1 DEF IsTail
    <3> QED BY <1>1, <1>2, <1>5, <2>1, <3>1, BufferAssumption
  <2>4. d + e \in 0 .. Len(admitted')
    BY <2>2 DEF IsTail
  <2> QED BY <2>2, <2>3, <2>4 DEF SeenIsTheNewest
<1>8. RepeatedOnlyWhenForgotten'
  <2> SUFFICES ASSUME NEW i \in 1 .. Len(admitted'), NEW j \in 1 .. Len(admitted'),
                      i < j, admitted'[i] = admitted'[j]
               PROVE  j - i > SeenLimit
    BY DEF RepeatedOnlyWhenForgotten, Admission
  <2>1. CASE j \in 1 .. Len(admitted)
    <3>1. i \in 1 .. Len(admitted)
      BY <1>1, <1>3, <2>1
    <3>2. admitted[i] = admitted[j]
      BY <1>3, <2>1, <3>1
    <3> QED BY <2>1, <3>1, <3>2 DEF RepeatedOnlyWhenForgotten, Admission
  <2>2. CASE j = Len(admitted) + 1
    <3>1. i \in 1 .. Len(admitted) /\ admitted[i] = message
      BY <1>1, <1>3, <2>2
    <3>2. Len(seen) = Len(admitted) - d /\ d <= Len(admitted)
      BY <1>1, <1>2 DEF IsTail
    <3>3. i <= d
      <4>1. CASE i > d
        <5>1. i - d \in 1 .. Len(seen) /\ (i - d) + d = i
          BY <1>1, <3>1, <3>2, <4>1
        <5>2. seen[i - d] = admitted[(i - d) + d]
          BY <1>1, <1>2, <5>1, TailPosition
        <5> QED BY <3>1, <5>1, <5>2 DEF Contains
      <4> QED BY <3>1, <4>1
    <3>4. Len(seen) >= SeenLimit
      BY <1>2, <3>1, <3>3
    <3> QED BY <1>1, <2>2, <3>1, <3>2, <3>3, <3>4, BufferAssumption
  <2> QED BY <1>1, <1>3, <2>1, <2>2
<1> QED BY <1>1, <1>3, <1>6, <1>7, <1>8

-----------------------------------------------------------------------------
(* The buffer of a requester.                                              *)

\* What BufferTypeOK and the invariant say of one requester.
LEMMA OfOneRequester ==
  ASSUME BufferInv, NEW r \in Requesters
  PROVE  /\ entries[r] \in Seq(Admission) /\ batch[r] \in Seq(Admission)
         /\ entries[r] \in Seq(Nat) /\ batch[r] \in Seq(Nat)
         /\ Range(entries[r]) \subseteq Admission /\ Range(batch[r]) \subseteq Admission
         /\ Increasing(batch[r]) /\ Increasing(entries[r])
         /\ \A m \in Range(batch[r]), n \in Range(entries[r]) : m < n
         /\ HeldIsOwn(r) /\ Len(entries[r]) <= Cap
         /\ (flushing[r] <=> batch[r] # <<>>)
<1>1. entries[r] \in Seq(Admission) /\ batch[r] \in Seq(Admission)
      /\ (flushing[r] <=> batch[r] # <<>>)
  BY DEF BufferInv, BufferTypeOK
<1>2. Admission \subseteq Nat
  <2>1. Len(admitted) \in Nat
    BY DEF BufferInv, BufferTypeOK
  <2> QED BY <2>1 DEF Admission
<1> DEFINE A == Admission
<1>3. entries[r] \in Seq(A) /\ batch[r] \in Seq(A) /\ A \subseteq Nat
  BY <1>1, <1>2
<1> HIDE DEF A
<1>4. entries[r] \in Seq(Nat) /\ batch[r] \in Seq(Nat)
  BY <1>3, SeqWiden
<1>5. Range(entries[r]) \subseteq A /\ Range(batch[r]) \subseteq A
  BY <1>3 DEF Range
<1> QED BY <1>1, <1>4, <1>5 DEF A, BufferInv, BatchIsOlder, BufferIsBounded

\* A buffer takes the newest admission, and gives up its oldest one when Cap are in it.
LEMMA AddInv ==
  ASSUME BufferInv, NEW r \in Requesters, NEW x \in Nat, x = Len(admitted) + 1
  PROVE  /\ Add(r, x) \in Seq(Nat) /\ Len(Add(r, x)) <= Cap /\ Len(Add(r, x)) \in Nat
         /\ Increasing(Add(r, x))
         /\ Range(Add(r, x)) \subseteq Range(entries[r]) \cup {x} /\ x \in Range(Add(r, x))
         /\ \A n \in Range(entries[r]) \ Range(Add(r, x)) :
              Len(Add(r, x)) = Cap /\ \A k \in Range(Add(r, x)) : n < k
<1> DEFINE s == entries[r]
<1>1. /\ s \in Seq(Nat) /\ Increasing(s) /\ Len(s) <= Cap /\ Len(s) \in Nat
      /\ \A m \in Range(s) : m \in Nat /\ m < x
  <2>1. s \in Seq(Nat) /\ Increasing(s) /\ Len(s) <= Cap /\ Range(s) \subseteq Admission
    BY OfOneRequester
  <2>2. Len(admitted) \in Nat
    BY DEF BufferInv, BufferTypeOK
  <2> QED BY <2>1, <2>2 DEF Admission
<1>2. Cap - 1 \in Nat /\ Cap \in Nat
  BY BufferAssumption
<1>3. PICK t \in Seq(Nat) : t = Newest(s, Cap - 1)
  BY <1>1, <1>2, NewestIsTail
<1>4. PICK d \in Nat : IsTail(s, t, d) /\ d = IF Len(s) > Cap - 1 THEN Len(s) - (Cap - 1) ELSE 0
  BY <1>1, <1>2, <1>3, NewestIsTail
<1>5. Len(t) = Len(s) - d /\ Len(t) \in Nat /\ (d > 0 => Len(t) + 1 = Cap) /\ Len(t) + 1 <= Cap
  <2>1. Len(t) = Len(s) - d /\ Len(t) \in Nat
    BY <1>4 DEF IsTail
  <2> QED BY <1>1, <1>2, <1>4, <2>1
<1>6. Increasing(t)
  BY <1>1, <1>4, TailIncreasing
<1>7. Range(t) \subseteq Range(s)
  BY <1>1, <1>4, TailElements
<1>8. \A n \in Range(s) \ Range(t) : \A k \in Range(t) : n < k
  BY <1>1, <1>4, TailElements
<1>9. PICK u \in Seq(Nat) : u = Append(t, x)
  BY AppendProperties
<1>10. \A m \in Range(t) : m < x
  BY <1>1, <1>7
<1>11. Len(u) = Len(t) + 1
  BY <1>6, <1>9, <1>10, AppendIncreasing
<1>12. Increasing(u)
  BY <1>6, <1>9, <1>10, AppendIncreasing
<1>13. Range(u) = Range(t) \cup {x}
  BY <1>6, <1>9, <1>10, AppendIncreasing
<1>14. ASSUME NEW n \in Range(s) \ Range(u) PROVE Len(u) = Cap /\ \A k \in Range(u) : n < k
  <2>1. n \in Range(s) \ Range(t)
    BY <1>13, <1>14
  <2>2. \A k \in Range(u) : n < k
    BY <1>1, <1>8, <1>13, <2>1
  <2>3. d > 0
    <3>1. CASE d = 0
      <4>1. IsTail(s, t, 0)
        BY <1>4, <3>1
      <4>2. Range(s) \subseteq Range(t)
        BY <1>1, <4>1, WholeTail
      <4> QED BY <2>1, <4>2
    <3> QED BY <3>1
  <2> QED BY <1>5, <1>11, <2>2, <2>3
<1>15. u = Add(r, x)
  BY <1>3, <1>9 DEF Add
<1> QED BY <1>5, <1>7, <1>11, <1>12, <1>13, <1>14, <1>15, SMTT(20)

\* A failed batch comes back in front of what arrived meanwhile; of more than Cap
\* the newest stay.
LEMMA RestoredInv ==
  ASSUME BufferInv, NEW r \in Requesters
  PROVE  /\ Restored(r) \in Seq(Nat) /\ Len(Restored(r)) <= Cap /\ Len(Restored(r)) \in Nat
         /\ Increasing(Restored(r))
         /\ Range(Restored(r)) \subseteq Range(batch[r]) \cup Range(entries[r])
         /\ \A n \in (Range(batch[r]) \cup Range(entries[r])) \ Range(Restored(r)) :
              Len(Restored(r)) = Cap /\ \A k \in Range(Restored(r)) : n < k
<1>1. /\ batch[r] \in Seq(Nat) /\ entries[r] \in Seq(Nat)
      /\ Increasing(batch[r]) /\ Increasing(entries[r])
      /\ \A m \in Range(batch[r]), n \in Range(entries[r]) : m < n
  BY OfOneRequester
<1>2. PICK s \in Seq(Nat) : s = batch[r] \o entries[r]
  BY <1>1, ConcatProperties
<1>3. Increasing(s)
  BY <1>1, <1>2, ConcatIncreasing
<1>4. Range(s) = Range(batch[r]) \cup Range(entries[r])
  BY <1>1, <1>2, ConcatIncreasing
<1>5. Cap \in Nat /\ Len(s) \in Nat
  BY BufferAssumption
<1>6. PICK t \in Seq(Nat) : t = Newest(s, Cap)
  BY <1>5, NewestIsTail
<1>7. PICK d \in Nat : IsTail(s, t, d) /\ d = IF Len(s) > Cap THEN Len(s) - Cap ELSE 0
  BY <1>5, <1>6, NewestIsTail
<1>8. Len(t) = Len(s) - d /\ Len(t) \in Nat /\ (d > 0 => Len(t) = Cap) /\ Len(t) <= Cap
  <2>1. Len(t) = Len(s) - d /\ Len(t) \in Nat
    BY <1>7 DEF IsTail
  <2> QED BY <1>5, <1>7, <2>1
<1>9. Increasing(t)
  BY <1>3, <1>7, TailIncreasing
<1>10. Range(t) \subseteq Range(s)
  BY <1>3, <1>7, TailElements
<1>11. \A n \in Range(s) \ Range(t) : \A k \in Range(t) : n < k
  BY <1>3, <1>7, TailElements
<1>12. ASSUME NEW n \in Range(s) \ Range(t) PROVE Len(t) = Cap
  <2>1. CASE d = 0
    BY <1>7, <1>12, <2>1, WholeTail
  <2> QED BY <1>8, <2>1
<1>13. t = Restored(r)
  BY <1>2, <1>6 DEF Restored
<1> QED BY <1>4, <1>8, <1>9, <1>10, <1>11, <1>12, <1>13

-----------------------------------------------------------------------------
(* Preservation of the invariant, action by action.                        *)

\* A sequence of naturals whose elements are all admissions.
LEMMA OfAdmissions ==
  ASSUME NEW s \in Seq(Nat), NEW A, Range(s) \subseteq A
  PROVE  s \in Seq(A)
<1>1. \A i \in 1 .. Len(s) : s[i] \in A
  BY DEF Range
<1> QED BY <1>1

\* A message comes in: its requester's buffer takes it, and a flush takes the buffer
\* when it is long enough and none is running.
LEMMA ObserveInv ==
  ASSUME BufferInv, NEW message \in Messages, NEW chatTriggered \in BOOLEAN,
         Observe(message, chatTriggered)
  PROVE  BufferInv'
<1> DEFINE r == Sender[message]
<1>1. r \in Requesters
  BY BufferAssumption
<1>2. PICK x \in Nat : x = Len(admitted) + 1
  BY DEF BufferInv, BufferTypeOK
<1>3. PICK p \in Seq(Nat) :
        /\ p = Add(r, x) /\ Len(p) <= Cap /\ Increasing(p)
        /\ Range(p) \subseteq Range(entries[r]) \cup {x}
  BY <1>1, <1>2, AddInv
<1>4. /\ \/ /\ ~flushing[r] /\ flushing' = [flushing EXCEPT ![r] = TRUE] /\ p # <<>>
            /\ batch' = [batch EXCEPT ![r] = p] /\ entries' = [entries EXCEPT ![r] = <<>>]
         \/ entries' = [entries EXCEPT ![r] = p] /\ UNCHANGED <<flushing, batch>>
      /\ seen' = Remember(message) /\ admitted' = Append(admitted, message)
      /\ ~Contains(seen, message) /\ UNCHANGED extracted
  <2>1. (IF chatTriggered THEN Minimum ELSE BatchSize) \in Nat \ {0}
    BY BufferAssumption
  <2>2. ASSUME NEW n \in Nat \ {0}, Len(p) >= n PROVE p # <<>>
    BY <2>2, EmptySeq
  <2> QED BY <1>2, <1>3, <2>1, <2>2 DEF Observe, MayFlush
<1> HIDE DEF r
<1>5. /\ seen' \in Seq(Messages) /\ admitted' \in Seq(Messages)
      /\ Len(admitted') = x /\ x - 1 = Len(admitted)
      /\ \A n \in 1 .. Len(admitted) : admitted'[n] = admitted[n]
      /\ admitted'[x] = message
      /\ SeenIsTheNewest' /\ RepeatedOnlyWhenForgotten'
  BY <1>2, <1>4, SeenInv DEF BufferInv
<1>6. /\ Admission' = 1 .. x /\ Admission = 1 .. x - 1 /\ Admission \subseteq Admission'
      /\ x \in Admission' /\ x \notin Admission
  BY <1>5 DEF Admission
<1>7. x \notin extracted /\ extracted \subseteq Admission /\ Sender[message] = r
  BY <1>6 DEF BufferInv, BufferTypeOK, r
<1>8. /\ Range(entries[r]) \subseteq Admission /\ Range(batch[r]) \subseteq Admission
      /\ \A m \in Range(batch[r]), n \in Range(entries[r]) : m < n
      /\ HeldIsOwn(r) /\ (flushing[r] <=> batch[r] # <<>>)
  BY <1>1, OfOneRequester
<1>9. p \in Seq(Admission')
  <2>1. Range(p) \subseteq Admission'
    BY <1>3, <1>6, <1>8
  <2> QED BY <2>1, OfAdmissions
<1>10. BufferTypeOK'
  <2>1. /\ entries \in [Requesters -> Seq(Admission)] /\ batch \in [Requesters -> Seq(Admission)]
        /\ flushing \in [Requesters -> BOOLEAN]
        /\ \A q \in Requesters : flushing[q] <=> batch[q] # <<>>
    BY DEF BufferInv, BufferTypeOK
  <2>2. \A q \in Requesters : entries[q] \in Seq(Admission') /\ batch[q] \in Seq(Admission')
    BY <1>6, <2>1, SeqWiden
  <2>3. <<>> \in Seq(Admission')
    OBVIOUS
  <2>4. entries' \in [Requesters -> Seq(Admission')]
    BY <1>4, <1>9, <2>1, <2>2, <2>3
  <2>5. batch' \in [Requesters -> Seq(Admission')]
    BY <1>4, <1>9, <2>1, <2>2
  <2>6. flushing' \in [Requesters -> BOOLEAN]
        /\ \A q \in Requesters : flushing'[q] <=> batch'[q] # <<>>
    BY <1>4, <2>1
  <2>7. extracted' \subseteq Admission'
    BY <1>4, <1>6, <1>7
  <2> QED BY <1>5, <2>4, <2>5, <2>6, <2>7 DEF BufferTypeOK
<1>11. ASSUME NEW q \in Requesters PROVE BatchIsOlder(q)' /\ HeldIsOwn(q)' /\ BufferIsBounded(q)'
  <2>1. /\ BatchIsOlder(q) /\ HeldIsOwn(q) /\ BufferIsBounded(q)
        /\ Range(entries[q]) \subseteq Admission /\ Range(batch[q]) \subseteq Admission
    BY OfOneRequester DEF BufferInv
  <2>2. /\ entries \in [Requesters -> Seq(Admission)] /\ batch \in [Requesters -> Seq(Admission)]
    BY DEF BufferInv, BufferTypeOK
  <2>3. \A n \in Admission : admitted'[n] = admitted[n]
    BY <1>5 DEF Admission
  <2>4. Range(<<>>) = {} /\ Increasing(<<>>) /\ Len(<<>>) = 0 /\ Cap \in Nat
    BY BufferAssumption DEF Range, Increasing
  <2>5. CASE q # r
    <3>1. entries'[q] = entries[q] /\ batch'[q] = batch[q]
      BY <1>4, <2>2, <2>5
    <3>2. BatchIsOlder(q)' /\ BufferIsBounded(q)'
      BY <2>1, <3>1 DEF BatchIsOlder, BufferIsBounded
    <3>3. HeldIsOwn(q)'
      BY <1>4, <2>1, <2>3, <3>1 DEF HeldIsOwn
    <3> QED BY <3>2, <3>3
  <2>6. CASE q = r /\ entries'[q] = p /\ batch'[q] = batch[q]
    <3>1. BatchIsOlder(q)'
      <4>1. \A m \in Range(batch[q]), n \in Range(p) : m < n
        <5>1. \A m \in Range(batch[q]) : m < x
          BY <1>6, <2>1
        <5> QED BY <1>3, <1>8, <2>6, <5>1
      <4> QED BY <1>3, <2>1, <2>6, <4>1 DEF BatchIsOlder
    <3>2. BufferIsBounded(q)'
      BY <1>3, <2>6 DEF BufferIsBounded
    <3>3. HeldIsOwn(q)'
      <4>1. ASSUME NEW n \in Range(batch'[q]) \cup Range(entries'[q])
            PROVE  Sender[admitted'[n]] = q /\ n \notin extracted'
        <5>1. n \in Range(batch[q]) \cup Range(entries[q]) \/ n = x
          BY <1>3, <2>6
        <5> QED BY <1>4, <1>5, <1>7, <2>1, <2>3, <2>6, <5>1 DEF HeldIsOwn
      <4> QED BY <4>1 DEF HeldIsOwn
    <3> QED BY <3>1, <3>2, <3>3
  <2>7. CASE q = r /\ entries'[q] = <<>> /\ batch'[q] = p /\ ~flushing[r]
    <3>1. BatchIsOlder(q)'
      BY <1>3, <2>4, <2>7 DEF BatchIsOlder
    <3>2. BufferIsBounded(q)'
      BY <2>4, <2>7 DEF BufferIsBounded
    <3>3. HeldIsOwn(q)'
      <4>1. ASSUME NEW n \in Range(batch'[q]) \cup Range(entries'[q])
            PROVE  Sender[admitted'[n]] = q /\ n \notin extracted'
        <5>1. n \in Range(batch[q]) \cup Range(entries[q]) \/ n = x
          BY <1>3, <2>4, <2>7
        <5> QED BY <1>4, <1>5, <1>7, <2>1, <2>3, <2>7, <5>1 DEF HeldIsOwn
      <4> QED BY <4>1 DEF HeldIsOwn
    <3> QED BY <3>1, <3>2, <3>3
  <2>8. q = r => \/ entries'[q] = p /\ batch'[q] = batch[q]
                 \/ entries'[q] = <<>> /\ batch'[q] = p /\ ~flushing[r]
    BY <1>4, <2>2
  <2> QED BY <2>5, <2>6, <2>7, <2>8
<1> QED BY <1>5, <1>10, <1>11 DEF BufferInv


\* A step that leaves the ids and the history of admissions alone.
LEMMA SameAdmissions ==
  ASSUME BufferInv, UNCHANGED <<seen, admitted>>
  PROVE  /\ seen' \in Seq(Messages) /\ admitted' \in Seq(Messages)
         /\ SeenIsTheNewest' /\ RepeatedOnlyWhenForgotten' /\ Admission' = Admission
  BY DEF BufferInv, BufferTypeOK, SeenIsTheNewest, RepeatedOnlyWhenForgotten, Admission

\* The invariant of one requester goes on if nothing of it changes.
LEMMA SameRequester ==
  ASSUME BufferInv, NEW q \in Requesters, UNCHANGED admitted,
         entries'[q] = entries[q], batch'[q] = batch[q],
         \A n \in Range(batch[q]) \cup Range(entries[q]) : n \notin extracted => n \notin extracted'
  PROVE  BatchIsOlder(q)' /\ HeldIsOwn(q)' /\ BufferIsBounded(q)'
<1>1. BatchIsOlder(q) /\ HeldIsOwn(q) /\ BufferIsBounded(q)
  BY DEF BufferInv
<1>2. BatchIsOlder(q)'
  BY <1>1 DEF BatchIsOlder
<1>3. HeldIsOwn(q)'
  BY <1>1 DEF HeldIsOwn
<1>4. BufferIsBounded(q)'
  BY <1>1 DEF BufferIsBounded
<1> QED BY <1>2, <1>3, <1>4

\* Nothing is in order and belongs to everyone.
LEMMA EmptyBuffer == Range(<<>>) = {} /\ Increasing(<<>>) /\ Len(<<>>) = 0
  BY DEF Range, Increasing

\* The timer: every buffer that is due becomes a batch.
LEMMA TimerFlushInv == ASSUME BufferInv, TimerFlush PROVE BufferInv'
<1> DEFINE due == {r \in Requesters : MayFlush(r, entries[r], Minimum)}
<1>1. /\ flushing' = [r \in Requesters |-> r \in due \/ flushing[r]]
      /\ batch' = [r \in Requesters |-> IF r \in due THEN entries[r] ELSE batch[r]]
      /\ entries' = [r \in Requesters |-> IF r \in due THEN <<>> ELSE entries[r]]
      /\ UNCHANGED <<seen, admitted, extracted>>
  BY DEF TimerFlush
<1>2. ASSUME NEW r \in due
      PROVE  /\ ~flushing[r] /\ entries[r] # <<>> /\ batch[r] = <<>>
             /\ entries'[r] = <<>> /\ batch'[r] = entries[r] /\ flushing'[r]
  <2>1. ~flushing[r] /\ Len(entries[r]) >= Minimum
    BY DEF MayFlush
  <2>2. entries[r] # <<>>
    BY <2>1, BufferAssumption, EmptyBuffer
  <2> QED BY <1>1, <2>1, <2>2 DEF BufferInv, BufferTypeOK
<1>3. ASSUME NEW r \in Requesters, r \notin due
      PROVE  entries'[r] = entries[r] /\ batch'[r] = batch[r] /\ flushing'[r] = flushing[r]
  <2>1. flushing[r] \in BOOLEAN
    BY DEF BufferInv, BufferTypeOK
  <2> HIDE DEF due
  <2> QED BY <1>1, <1>3, <2>1
<1>4. /\ seen' \in Seq(Messages) /\ admitted' \in Seq(Messages)
      /\ SeenIsTheNewest' /\ RepeatedOnlyWhenForgotten' /\ Admission' = Admission
  BY <1>1, SameAdmissions
<1> HIDE DEF due
<1>5. BufferTypeOK'
  <2>1. /\ entries \in [Requesters -> Seq(Admission)] /\ batch \in [Requesters -> Seq(Admission)]
        /\ flushing \in [Requesters -> BOOLEAN] /\ extracted \subseteq Admission
        /\ \A r \in Requesters : flushing[r] <=> batch[r] # <<>>
    BY DEF BufferInv, BufferTypeOK
  <2>2. entries' \in [Requesters -> Seq(Admission')]
    BY <1>1, <1>4, <2>1
  <2>3. batch' \in [Requesters -> Seq(Admission')]
    BY <1>1, <1>4, <2>1
  <2>4. flushing' \in [Requesters -> BOOLEAN]
    BY <1>1, <2>1
  <2>5. ASSUME NEW r \in Requesters PROVE flushing'[r] <=> batch'[r] # <<>>
    BY <1>2, <1>3, <2>1
  <2>6. extracted' \subseteq Admission'
    BY <1>1, <1>4, <2>1
  <2> QED BY <1>4, <2>2, <2>3, <2>4, <2>5, <2>6 DEF BufferTypeOK
<1>6. ASSUME NEW q \in Requesters PROVE BatchIsOlder(q)' /\ HeldIsOwn(q)' /\ BufferIsBounded(q)'
  <2>1. CASE q \notin due
    BY <1>1, <1>3, <2>1, SameRequester
  <2>2. CASE q \in due
    <3>1. BatchIsOlder(q) /\ HeldIsOwn(q) /\ Cap \in Nat
      BY BufferAssumption DEF BufferInv
    <3>2. entries'[q] = <<>> /\ batch'[q] = entries[q]
      BY <1>2, <2>2
    <3>3. BatchIsOlder(q)'
      BY <3>1, <3>2, EmptyBuffer DEF BatchIsOlder
    <3>4. HeldIsOwn(q)'
      BY <1>1, <3>1, <3>2, EmptyBuffer DEF HeldIsOwn
    <3>5. BufferIsBounded(q)'
      BY <3>1, <3>2, EmptyBuffer DEF BufferIsBounded
    <3> QED BY <3>3, <3>4, <3>5
  <2> QED BY <2>1, <2>2
<1> QED BY <1>4, <1>5, <1>6 DEF BufferInv

\* A batch is done: its admissions are no one else's, and older than what its
\* requester's buffer holds.
LEMMA FlushSucceedsInv == ASSUME BufferInv, NEW r \in Requesters, FlushSucceeds(r) PROVE BufferInv'
<1>1. /\ extracted' = extracted \cup Range(batch[r])
      /\ flushing' = [flushing EXCEPT ![r] = FALSE]
      /\ batch' = [batch EXCEPT ![r] = <<>>]
      /\ UNCHANGED <<entries, seen, admitted>>
  BY DEF FlushSucceeds
<1>2. /\ seen' \in Seq(Messages) /\ admitted' \in Seq(Messages)
      /\ SeenIsTheNewest' /\ RepeatedOnlyWhenForgotten' /\ Admission' = Admission
  BY <1>1, SameAdmissions
<1>3. BufferTypeOK'
  <2>1. /\ entries \in [Requesters -> Seq(Admission)] /\ batch \in [Requesters -> Seq(Admission)]
        /\ flushing \in [Requesters -> BOOLEAN] /\ extracted \subseteq Admission
        /\ \A q \in Requesters : flushing[q] <=> batch[q] # <<>>
    BY DEF BufferInv, BufferTypeOK
  <2>2. Range(batch[r]) \subseteq Admission
    BY OfOneRequester
  <2>3. <<>> \in Seq(Admission')
    OBVIOUS
  <2>4. batch' \in [Requesters -> Seq(Admission')]
    BY <1>1, <1>2, <2>1, <2>3
  <2> QED BY <1>1, <1>2, <2>1, <2>2, <2>4 DEF BufferTypeOK
<1>4. ASSUME NEW q \in Requesters PROVE BatchIsOlder(q)' /\ HeldIsOwn(q)' /\ BufferIsBounded(q)'
  <2>1. /\ BatchIsOlder(q) /\ HeldIsOwn(q) /\ BufferIsBounded(q) /\ HeldIsOwn(r)
        /\ Range(entries[q]) \subseteq Admission /\ Admission \subseteq Nat
    <3>1. Len(admitted) \in Nat
      BY DEF BufferInv, BufferTypeOK
    <3> QED BY <3>1, OfOneRequester DEF BufferInv, Admission
  <2>2. batch \in [Requesters -> Seq(Admission)]
    BY DEF BufferInv, BufferTypeOK
  <2>3. CASE q # r
    <3>1. \A n \in Range(batch[q]) \cup Range(entries[q]) : n \notin Range(batch[r])
      BY <2>1, <2>3 DEF HeldIsOwn
    <3>2. entries'[q] = entries[q] /\ batch'[q] = batch[q]
      BY <1>1, <2>2, <2>3
    <3> QED BY <1>1, <3>1, <3>2, SameRequester
  <2>4. CASE q = r
    <3>1. entries'[q] = entries[q] /\ batch'[q] = <<>>
      BY <1>1, <2>2, <2>4
    <3>2. ASSUME NEW n \in Range(entries[q]), n \in Range(batch[q]) PROVE FALSE
      <4>1. n < n
        BY <2>1, <3>2 DEF BatchIsOlder
      <4>2. n \in Nat
        BY <2>1
      <4> QED BY <4>1, <4>2
    <3>3. BatchIsOlder(q)'
      BY <2>1, <3>1, EmptyBuffer DEF BatchIsOlder
    <3>4. HeldIsOwn(q)'
      BY <1>1, <2>1, <2>4, <3>1, <3>2, EmptyBuffer DEF HeldIsOwn
    <3>5. BufferIsBounded(q)'
      BY <2>1, <3>1 DEF BufferIsBounded
    <3> QED BY <3>3, <3>4, <3>5
  <2> QED BY <2>3, <2>4
<1> QED BY <1>2, <1>3, <1>4 DEF BufferInv

\* A batch that failed is part of the buffer again.
LEMMA FlushFailsInv == ASSUME BufferInv, NEW r \in Requesters, FlushFails(r) PROVE BufferInv'
<1>1. /\ entries' = [entries EXCEPT ![r] = Restored(r)]
      /\ flushing' = [flushing EXCEPT ![r] = FALSE]
      /\ batch' = [batch EXCEPT ![r] = <<>>]
      /\ UNCHANGED <<seen, admitted, extracted>>
  BY DEF FlushFails
<1>2. /\ seen' \in Seq(Messages) /\ admitted' \in Seq(Messages)
      /\ SeenIsTheNewest' /\ RepeatedOnlyWhenForgotten' /\ Admission' = Admission
  BY <1>1, SameAdmissions
<1>3. PICK p \in Seq(Nat) :
        /\ p = Restored(r) /\ Len(p) <= Cap /\ Increasing(p)
        /\ Range(p) \subseteq Range(batch[r]) \cup Range(entries[r])
  BY RestoredInv
<1>4. /\ Range(entries[r]) \subseteq Admission /\ Range(batch[r]) \subseteq Admission /\ HeldIsOwn(r)
  BY OfOneRequester
<1>5. p \in Seq(Admission)
  BY <1>3, <1>4, OfAdmissions
<1>6. BufferTypeOK'
  <2>1. /\ entries \in [Requesters -> Seq(Admission)] /\ batch \in [Requesters -> Seq(Admission)]
        /\ flushing \in [Requesters -> BOOLEAN] /\ extracted \subseteq Admission
        /\ \A q \in Requesters : flushing[q] <=> batch[q] # <<>>
    BY DEF BufferInv, BufferTypeOK
  <2>2. <<>> \in Seq(Admission')
    OBVIOUS
  <2>3. batch' \in [Requesters -> Seq(Admission')]
    BY <1>1, <1>2, <2>1, <2>2
  <2>4. entries' \in [Requesters -> Seq(Admission')]
    BY <1>1, <1>2, <1>3, <1>5, <2>1
  <2> QED BY <1>1, <1>2, <2>1, <2>3, <2>4 DEF BufferTypeOK
<1>7. ASSUME NEW q \in Requesters PROVE BatchIsOlder(q)' /\ HeldIsOwn(q)' /\ BufferIsBounded(q)'
  <2>1. entries \in [Requesters -> Seq(Admission)] /\ batch \in [Requesters -> Seq(Admission)]
    BY DEF BufferInv, BufferTypeOK
  <2>2. CASE q # r
    <3>1. entries'[q] = entries[q] /\ batch'[q] = batch[q]
      BY <1>1, <2>1, <2>2
    <3> QED BY <1>1, <3>1, SameRequester
  <2>3. CASE q = r
    <3>1. entries'[q] = p /\ batch'[q] = <<>>
      BY <1>1, <1>3, <2>1, <2>3
    <3>2. BatchIsOlder(q)'
      BY <1>3, <3>1, EmptyBuffer DEF BatchIsOlder
    <3>3. HeldIsOwn(q)'
      BY <1>1, <1>3, <1>4, <2>3, <3>1, EmptyBuffer DEF HeldIsOwn
    <3>4. BufferIsBounded(q)'
      BY <1>3, <3>1 DEF BufferIsBounded
    <3> QED BY <3>2, <3>3, <3>4
  <2> QED BY <2>2, <2>3
<1> QED BY <1>2, <1>6, <1>7 DEF BufferInv

\* Nothing has been observed.
LEMMA BufferInitInv == BufferInit => BufferInv
<1> SUFFICES ASSUME BufferInit PROVE BufferInv
  OBVIOUS
<1>1. BufferTypeOK
  BY DEF BufferInit, BufferTypeOK
<1>2. SeenIsTheNewest
  <2>1. Len(<<>>) = 0
    OBVIOUS
  <2>2. IsTail(<<>>, <<>>, 0)
    BY <2>1 DEF IsTail
  <2> QED BY <2>1, <2>2 DEF BufferInit, SeenIsTheNewest
<1>3. RepeatedOnlyWhenForgotten
  BY DEF BufferInit, RepeatedOnlyWhenForgotten, Admission
<1>4. ASSUME NEW r \in Requesters PROVE BatchIsOlder(r) /\ HeldIsOwn(r) /\ BufferIsBounded(r)
  <2>1. entries[r] = <<>> /\ batch[r] = <<>>
    BY DEF BufferInit
  <2> QED BY <2>1, EmptyBuffer, BufferAssumption DEF BatchIsOlder, HeldIsOwn, BufferIsBounded
<1> QED BY <1>1, <1>2, <1>3, <1>4 DEF BufferInv

-----------------------------------------------------------------------------
(* What is held, and what is lost.                                         *)

\* Batch and buffer of a requester as one sequence.
LEMMA HeldInOrder ==
  ASSUME NEW b \in Seq(Nat), NEW e \in Seq(Nat), Increasing(b), Increasing(e),
         \A m \in Range(b), n \in Range(e) : m < n
  PROVE  /\ Increasing(b \o e)
         /\ Range(b \o e) = Range(b) \cup Range(e) /\ IsFiniteSet(Range(b \o e))
<1>1. PICK h \in Seq(Nat) : h = b \o e
  BY ConcatProperties
<1>2. Increasing(h)
  BY <1>1, ConcatIncreasing
<1>3. Range(h) = Range(b) \cup Range(e)
  BY <1>1, ConcatIncreasing
<1>4. IsFiniteSet(Range(h))
  BY <1>2, IncreasingCount
<1> QED BY <1>1, <1>2, <1>3, <1>4

\* The same after a step.
LEMMA HeldAfterwards ==
  ASSUME BufferInv', NEW r \in Requesters
  PROVE  /\ batch'[r] \in Seq(Nat) /\ entries'[r] \in Seq(Nat)
         /\ Range(Held(r)') = Range(batch'[r]) \cup Range(entries'[r])
         /\ IsFiniteSet(Range(Held(r)'))
<1>1. /\ entries'[r] \in Seq(Admission') /\ batch'[r] \in Seq(Admission')
      /\ Increasing(batch'[r]) /\ Increasing(entries'[r])
      /\ \A m \in Range(batch'[r]), n \in Range(entries'[r]) : m < n
  BY DEF BufferInv, BufferTypeOK, BatchIsOlder
<1>2. Admission' \subseteq Nat
  <2>1. Len(admitted') \in Nat
    BY DEF BufferInv, BufferTypeOK
  <2> QED BY <2>1 DEF Admission
<1>3. entries'[r] \in Seq(Nat) /\ batch'[r] \in Seq(Nat)
  BY <1>1, <1>2, SeqWiden
<1>4. Held(r)' = batch'[r] \o entries'[r]
  BY DEF Held
<1>5. Range(batch'[r] \o entries'[r]) = Range(batch'[r]) \cup Range(entries'[r])
  BY <1>1, <1>3, HeldInOrder
<1>6. IsFiniteSet(Range(batch'[r] \o entries'[r]))
  BY <1>1, <1>3, HeldInOrder
<1> QED BY <1>3, <1>4, <1>5, <1>6

\* Cap newer ones in order are Cap newer ones held.
LEMMA CapNewer ==
  ASSUME BufferInv', NEW r \in Requesters, NEW p \in Seq(Nat), Increasing(p), Len(p) = Cap,
         Range(p) \subseteq Range(Held(r)'), NEW n, \A k \in Range(p) : n < k
  PROVE  Cardinality({k \in Range(Held(r)') : n < k}) >= Cap
<1>1. Cap \in Nat
  BY BufferAssumption
<1>2. IsFiniteSet(Range(Held(r)'))
  BY HeldAfterwards
<1>3. PICK H : H = Range(Held(r)')
  OBVIOUS
<1>4. IsFiniteSet({k \in H : n < k})
  BY <1>2, <1>3, FS_Subset
<1>5. Range(p) \in SUBSET {k \in H : n < k}
  BY <1>3
<1>6. Cardinality(Range(p)) = Cap
  BY IncreasingCount
<1>7. Cardinality(Range(p)) <= Cardinality({k \in H : n < k})
  BY <1>4, <1>5, FS_Subset
<1>8. Cardinality({k \in H : n < k}) \in Nat
  BY <1>4, FS_CardinalityType
<1> QED BY <1>1, <1>3, <1>6, <1>7, <1>8

\* One step, one requester: what goes was extracted, or Cap newer ones stay.
LEMMA LossStep ==
  ASSUME BufferInv, BufferInv', BufferNext, NEW r \in Requesters,
         NEW n, n \in Range(Held(r)) \/ (n = Len(admitted) + 1 /\ admitted # admitted'
                                         /\ n \in DOMAIN admitted' /\ Sender[admitted'[n]] = r),
         n \notin Range(Held(r)'), n \notin extracted'
  PROVE  Cardinality({k \in Range(Held(r)') : n < k}) >= Cap
<1>1. Range(Held(r)') = Range(batch'[r]) \cup Range(entries'[r])
  BY HeldAfterwards
<1>2. Range(Held(r)) = Range(batch[r]) \cup Range(entries[r])
  BY OfOneRequester, HeldInOrder DEF Held
<1>3. entries \in [Requesters -> Seq(Admission)] /\ batch \in [Requesters -> Seq(Admission)]
  BY DEF BufferInv, BufferTypeOK
<1>4. ASSUME UNCHANGED admitted, entries'[r] = entries[r], batch'[r] = batch[r] PROVE FALSE
  BY <1>1, <1>2, <1>4
<1>5. ASSUME NEW message \in Messages, NEW chatTriggered \in BOOLEAN, Observe(message, chatTriggered)
      PROVE  Cardinality({k \in Range(Held(r)') : n < k}) >= Cap
  <2>1. PICK x \in Nat : x = Len(admitted) + 1
    BY DEF BufferInv, BufferTypeOK
  <2>2. admitted'[x] = message
    <3>1. admitted' = Append(admitted, message) /\ admitted \in Seq(Messages)
      BY <1>5 DEF Observe, BufferInv, BufferTypeOK
    <3> QED BY <2>1, <3>1, AppendProperties
  <2>3. CASE r # Sender[message]
    <3>1. entries'[r] = entries[r] /\ batch'[r] = batch[r]
      BY <1>3, <1>5, <2>3 DEF Observe
    <3> QED BY <1>1, <1>2, <2>1, <2>2, <2>3, <3>1
  <2>4. CASE r = Sender[message]
    <3>1. PICK p \in Seq(Nat) :
            /\ p = Add(r, x) /\ Increasing(p) /\ x \in Range(p)
            /\ \A m \in Range(entries[r]) \ Range(p) : Len(p) = Cap /\ \A k \in Range(p) : m < k
      BY <2>1, AddInv
    <3>2. \/ entries'[r] = p /\ batch'[r] = batch[r]
          \/ batch'[r] = p /\ batch[r] = <<>>
      BY <1>3, <1>5, <2>1, <2>4, <3>1, OfOneRequester DEF Observe, MayFlush
    <3>3. Range(p) \cup Range(batch[r]) \subseteq Range(Held(r)')
      BY <1>1, <3>2, EmptyBuffer
    <3>4. n \in Range(entries[r]) \ Range(p)
      BY <1>2, <2>1, <3>1, <3>3
    <3> QED BY <3>1, <3>3, <3>4, CapNewer
  <2> QED BY <2>3, <2>4
<1>6. CASE TimerFlush
  <2>1. UNCHANGED admitted
    BY <1>6 DEF TimerFlush
  <2>2. \/ entries'[r] = entries[r] /\ batch'[r] = batch[r]
        \/ batch'[r] = entries[r] /\ batch[r] = <<>>
    BY <1>6, OfOneRequester DEF TimerFlush, MayFlush
  <2> QED BY <1>1, <1>2, <2>1, <2>2, EmptyBuffer
<1>7. ASSUME NEW q \in Requesters, FlushSucceeds(q) PROVE FALSE
  <2>1. /\ UNCHANGED admitted /\ entries'[r] = entries[r]
        /\ batch'[r] = IF r = q THEN <<>> ELSE batch[r]
        /\ Range(batch[q]) \subseteq extracted'
    BY <1>3, <1>7 DEF FlushSucceeds
  <2> QED BY <1>1, <1>2, <2>1
<1>8. ASSUME NEW q \in Requesters, FlushFails(q)
      PROVE  Cardinality({k \in Range(Held(r)') : n < k}) >= Cap
  <2>1. CASE q # r
    <3>1. UNCHANGED admitted /\ entries'[r] = entries[r] /\ batch'[r] = batch[r]
      BY <1>3, <1>8, <2>1 DEF FlushFails
    <3> QED BY <1>4, <3>1
  <2>2. CASE q = r
    <3>1. UNCHANGED admitted /\ entries'[r] = Restored(r) /\ batch'[r] = <<>>
      BY <1>3, <1>8, <2>2 DEF FlushFails
    <3>2. PICK p \in Seq(Nat) :
            /\ p = Restored(r) /\ Increasing(p)
            /\ \A m \in (Range(batch[r]) \cup Range(entries[r])) \ Range(p) :
                 Len(p) = Cap /\ \A k \in Range(p) : m < k
      BY RestoredInv
    <3>3. Range(p) \subseteq Range(Held(r)')
      BY <1>1, <3>1, <3>2
    <3>4. n \in (Range(batch[r]) \cup Range(entries[r])) \ Range(p)
      BY <1>2, <3>1, <3>3
    <3> QED BY <3>2, <3>3, <3>4, CapNewer
  <2> QED BY <2>1, <2>2
<1> QED BY <1>5, <1>6, <1>7, <1>8 DEF BufferNext

-----------------------------------------------------------------------------
(* The theorems.                                                           *)

\* The invariant is inductive.
LEMMA BufferNextInv == BufferInv /\ [BufferNext]_bufferVars => BufferInv'
<1> SUFFICES ASSUME BufferInv, [BufferNext]_bufferVars PROVE BufferInv'
  OBVIOUS
<1>1. ASSUME NEW message \in Messages, NEW chatTriggered \in BOOLEAN, Observe(message, chatTriggered)
      PROVE  BufferInv'
  BY <1>1, ObserveInv
<1>2. CASE TimerFlush
  BY <1>2, TimerFlushInv
<1>3. ASSUME NEW r \in Requesters, FlushSucceeds(r) PROVE BufferInv'
  BY <1>3, FlushSucceedsInv
<1>4. ASSUME NEW r \in Requesters, FlushFails(r) PROVE BufferInv'
  BY <1>4, FlushFailsInv
<1>5. CASE UNCHANGED bufferVars
  <2>1. BufferTypeOK' /\ SeenIsTheNewest' /\ RepeatedOnlyWhenForgotten'
    BY <1>5 DEF bufferVars, BufferInv, BufferTypeOK, Admission, SeenIsTheNewest, RepeatedOnlyWhenForgotten
  <2>2. ASSUME NEW r \in Requesters PROVE BatchIsOlder(r)' /\ HeldIsOwn(r)' /\ BufferIsBounded(r)'
    BY <1>5, SameRequester DEF bufferVars
  <2> QED BY <2>1, <2>2 DEF BufferInv
<1> QED BY <1>1, <1>2, <1>3, <1>4, <1>5 DEF BufferNext

\* The inductive invariant holds of every behaviour of the buffers.
THEOREM BufferInvariance == BufferSpec => []BufferInv
<1> QED BY BufferInitInv, BufferNextInv, PTL DEF BufferSpec

\* The variables keep their types: a flush runs exactly while it has a batch, and
\* buffers and batches hold numbers of admissions.
THEOREM BufferTypeCorrectness == BufferSpec => []BufferTypeOK
<1>1. BufferInv => BufferTypeOK
  BY DEF BufferInv
<1> QED BY <1>1, BufferInvariance, PTL

\* PendingBuffer and its flushes: the extractor reads a requester's own messages
\* in the order they came, each once.
THEOREM ExtractedInOrder == BufferSpec => []InOrder
<1>1. BufferInv => InOrder
  <2> SUFFICES ASSUME BufferInv, NEW r \in Requesters
               PROVE  /\ \A i, j \in DOMAIN Held(r) : i < j => Held(r)[i] < Held(r)[j]
                      /\ \A n \in Range(Held(r)) : Sender[admitted[n]] = r /\ n \notin extracted
    BY DEF InOrder
  <2>1. Increasing(Held(r))
    BY OfOneRequester, HeldInOrder DEF Held
  <2>2. Range(Held(r)) = Range(batch[r]) \cup Range(entries[r])
    BY OfOneRequester, HeldInOrder DEF Held
  <2>3. HeldIsOwn(r)
    BY OfOneRequester
  <2> QED BY <2>1, <2>2, <2>3 DEF Increasing, HeldIsOwn
<1> QED BY <1>1, BufferInvariance, PTL

\* rememberMessage: a message is buffered again only after SeenLimit others.
THEOREM RememberedLongEnough == BufferSpec => []RepeatedOnlyWhenForgotten
<1>1. BufferInv => RepeatedOnlyWhenForgotten
  BY DEF BufferInv
<1> QED BY <1>1, BufferInvariance, PTL

\* add and complete: what is neither held nor extracted any more was pushed out by
\* Cap newer messages of its requester.
THEOREM LossIsNamed == BufferSpec => OnlyOverflowIsLost
<1>1. BufferInv /\ BufferInv' /\ [BufferNext]_bufferVars => [LossIsOverflow]_bufferVars
  <2> SUFFICES ASSUME BufferInv, BufferInv', BufferNext PROVE LossIsOverflow
    OBVIOUS
  <2>1. ASSUME NEW r \in Requesters,
               NEW n \in (Range(Held(r))
                            \cup {m \in DOMAIN admitted' : m \notin DOMAIN admitted /\ Sender[admitted'[m]] = r})
                         \ (Range(Held(r)') \cup extracted')
        PROVE  Cardinality({k \in Range(Held(r)') : n < k}) >= Cap
    <3>1. \/ UNCHANGED admitted
          \/ \E message \in Messages : admitted' = Append(admitted, message)
      BY DEF BufferNext, Observe, TimerFlush, FlushSucceeds, FlushFails
    <3>2. admitted \in Seq(Messages)
      BY DEF BufferInv, BufferTypeOK
    <3>3. ASSUME n \in DOMAIN admitted', n \notin DOMAIN admitted
          PROVE  n = Len(admitted) + 1 /\ admitted # admitted'
      <4>1. PICK message \in Messages : admitted' = Append(admitted, message)
        BY <3>1, <3>3
      <4>2. DOMAIN admitted' = 1 .. Len(admitted) + 1 /\ DOMAIN admitted = 1 .. Len(admitted)
            /\ Len(admitted) \in Nat
        BY <3>2, <4>1, AppendProperties
      <4> QED BY <3>3, <4>2
    <3> QED BY <2>1, <3>3, LossStep
  <2> QED BY <2>1 DEF LossIsOverflow
<1> QED BY <1>1, BufferInvariance, PTL DEF BufferSpec, OnlyOverflowIsLost
================================================================================
