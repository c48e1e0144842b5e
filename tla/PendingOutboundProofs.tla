----------------------- MODULE PendingOutboundProofs -----------------------
(***************************************************************************)
(* Proofs about the pending outbound store and the reply path that is      *)
(* built on it, for every capacity, time to live and number of replies,    *)
(* calls, sockets and restarts.  The inductive invariant of the store,     *)
(* StoreInv, adds two facts to the checked invariants: a settled reply is  *)
(* no longer pending, and no entry is stamped with a clock reading still   *)
(* to come.  On the reply path every step but a restart is a step of the   *)
(* store, and a restart keeps its invariant; ReplyInv adds that a line of  *)
(* a transcript is the text of a command that was sent.                    *)
(***************************************************************************)
EXTENDS ReplyDelivery, ListProofs

\* A reply that has its outcome is not waiting for another one.
SettledIsClosed == \A k \in DOMAIN settled : settled[k].id \notin DOMAIN pending

\* No entry is stamped with a clock reading still to come.
StagedInThePast == \A i \in DOMAIN pending : pending[i].stagedAt <= clock

StoreInv ==
  /\ TypeOK
  /\ OneMemoryPerReply
  /\ WithinCapacity
  /\ SettledOnce
  /\ NeverSettledLate
  /\ SettledIsClosed
  /\ StagedInThePast

-----------------------------------------------------------------------------
(* Facts about the helpers.                                                *)

\* Newest never invents an id.
LEMMA NewestSubset == ASSUME NEW S, NEW n PROVE Newest(S, n) \subseteq S
  BY DEF Newest

\* Newest keeps at most n ids: the smallest one kept has fewer than n above it.
LEMMA NewestBound ==
  ASSUME NEW S \in SUBSET Nat, IsFiniteSet(S), NEW n \in Nat
  PROVE  IsFiniteSet(Newest(S, n)) /\ Cardinality(Newest(S, n)) <= n
<1> DEFINE T == Newest(S, n)
<1>1. T \subseteq S /\ IsFiniteSet(T)
  BY NewestSubset, FS_Subset
<1>2. CASE T = {}
  BY <1>2, FS_EmptySet
<1>3. CASE T # {}
  <2>1. PICK m \in T : \A j \in T : m <= j
    BY <1>1, <1>3, LeastElement
  <2> DEFINE Above == {j \in S : j > m}
  <2>2. T \ {m} \subseteq Above
    <3>1. ASSUME NEW j \in T, j # m PROVE j \in S /\ j > m
      <4>1. j \in Nat /\ m \in Nat /\ j \in S
        BY <1>1
      <4> QED BY <2>1, <3>1, <4>1
    <3> QED BY <3>1
  <2>3. IsFiniteSet(Above) /\ Cardinality(Above) < n
    BY <1>1, FS_Subset DEF Newest
  <2>4. Cardinality(T \ {m}) <= Cardinality(Above)
    BY <2>2, <2>3, FS_Subset
  <2>5. Cardinality(T \ {m}) = Cardinality(T) - 1
    BY <1>1, FS_RemoveElement
  <2>6. Cardinality(T) \in Nat /\ Cardinality(Above) \in Nat
    BY <1>1, <2>3, FS_CardinalityType
  <2> QED BY <1>1, <2>3, <2>4, <2>5, <2>6
<1> QED BY <1>2, <1>3

-----------------------------------------------------------------------------
(* Preservation of the invariant.                                          *)

\* What prune() leaves: entries it keeps, ids it remembers, within capacity.
LEMMA PruneFacts ==
  ASSUME StoreInv
  PROVE  /\ Live \subseteq DOMAIN pending
         /\ DOMAIN pending \in SUBSET Nat /\ IsFiniteSet(DOMAIN pending)
         /\ Live \in SUBSET Nat /\ IsFiniteSet(Live)
         /\ Cardinality(Live) <= MaxEntries /\ Cardinality(Live) \in Nat
         /\ ExpiredNow \subseteq expired \cup (DOMAIN pending \ Live)
         /\ Cardinality(ExpiredNow) <= MaxEntries
<1>1. Live \subseteq DOMAIN pending
  BY DEF Live
<1>2. DOMAIN pending \subseteq 1 .. issued /\ expired \subseteq 1 .. issued /\ issued \in Nat
  BY DEF StoreInv, TypeOK
<1>3. IsFiniteSet(1 .. issued)
  BY <1>2, FS_Interval
<1>4. IsFiniteSet(DOMAIN pending) /\ IsFiniteSet(Live) /\ IsFiniteSet(expired)
  BY <1>1, <1>2, <1>3, FS_Subset
<1>5. IsFiniteSet(expired \cup (DOMAIN pending \ Live))
  BY <1>2, <1>3, FS_Subset
<1>6. expired \cup (DOMAIN pending \ Live) \in SUBSET Nat
  <2>1. \A i \in 1 .. issued : i \in Nat
    BY <1>2
  <2> QED BY <1>2, <2>1
<1>7. MaxEntries \in Nat
  BY StoreAssumption
<1>8. Cardinality(ExpiredNow) <= MaxEntries
  BY <1>5, <1>6, <1>7, NewestBound DEF ExpiredNow
<1>9. ExpiredNow \subseteq expired \cup (DOMAIN pending \ Live)
  BY NewestSubset DEF ExpiredNow
<1>10. Cardinality(Live) <= MaxEntries /\ Cardinality(Live) \in Nat
  <2>1. Cardinality(Live) <= Cardinality(DOMAIN pending)
    BY <1>1, <1>4, FS_Subset
  <2>2. Cardinality(DOMAIN pending) <= MaxEntries
    BY DEF StoreInv, WithinCapacity
  <2>3. Cardinality(Live) \in Nat /\ Cardinality(DOMAIN pending) \in Nat
    BY <1>4, FS_CardinalityType
  <2> QED BY <1>7, <2>1, <2>2, <2>3
<1> QED BY <1>1, <1>2, <1>4, <1>8, <1>9, <1>10

\* A step that only prunes keeps the invariant.
LEMMA PruneInv ==
  ASSUME StoreInv, Lookup
  PROVE  StoreInv'
<1> USE DEF StoreInv, Lookup, Restrict
<1>1. TypeOK'
  BY PruneFacts DEF TypeOK
<1>2. OneMemoryPerReply'
  BY PruneFacts DEF OneMemoryPerReply, FinalizedIds
<1>3. WithinCapacity'
  BY PruneFacts DEF WithinCapacity
<1>4. SettledOnce' /\ NeverSettledLate' /\ SettledIsClosed' /\ StagedInThePast'
  BY PruneFacts DEF SettledOnce, NeverSettledLate, SettledIsClosed, StagedInThePast
<1> QED BY <1>1, <1>2, <1>3, <1>4

\* Staging keeps the invariant: the new id is above every id seen before.
LEMMA StageInv ==
  ASSUME StoreInv, NEW request \in Requests, NEW text \in Texts, Stage(request, text)
  PROVE  StoreInv'
<1> DEFINE kept == Newest(Live, MaxEntries - 1)
           id == issued + 1
           reply == [request |-> request, text |-> text, stagedAt |-> clock]
<1>1. /\ pending' = [i \in kept \cup {id} |-> IF i = id THEN reply ELSE pending[i]]
      /\ expired' = ExpiredNow
      /\ issued' = id
      /\ finalized' = finalized /\ clock' = clock /\ settled' = settled
      /\ issued < MaxIssued
  BY DEF Stage, StageKeeping
<1>2. kept \subseteq Live
  BY NewestSubset
<1>3. IsFiniteSet(kept) /\ Cardinality(kept) <= MaxEntries - 1
  BY PruneFacts, NewestBound, StoreAssumption
<1>4. issued \in Nat /\ id \in 1 .. MaxIssued /\ issued \in 0 .. MaxIssued
  BY <1>1, StoreAssumption DEF StoreInv, TypeOK
<1>5. DOMAIN pending \subseteq 1 .. issued /\ pending \in [DOMAIN pending -> Reply]
      /\ expired \subseteq 1 .. issued
  BY DEF StoreInv, TypeOK
<1>6. reply \in Reply
  BY DEF StoreInv, TypeOK, Reply
<1>7. DOMAIN pending' = kept \cup {id}
  BY <1>1
<1> HIDE DEF kept, id, reply
<1>8. TypeOK'
  <2>1. issued' \in 0 .. MaxIssued /\ clock' \in 0 .. MaxClock
    BY <1>1, <1>4 DEF StoreInv, TypeOK
  <2>2. 1 .. issued \subseteq 1 .. issued' /\ id \in 1 .. issued'
    BY <1>1, <1>4 DEF id
  <2>3. DOMAIN pending' \subseteq 1 .. issued'
    BY <1>2, <1>5, <1>7, <2>2, PruneFacts
  <2>4. pending' \in [DOMAIN pending' -> Reply]
    BY <1>1, <1>2, <1>5, <1>6, <1>7, PruneFacts
  <2>5. finalized' \in Seq([id : 1 .. issued', status : {"SENT", "FAILED"}])
    <3>1. finalized \in Seq([id : 1 .. issued, status : {"SENT", "FAILED"}])
      BY DEF StoreInv, TypeOK
    <3>2. [id : 1 .. issued, status : {"SENT", "FAILED"}]
            \subseteq [id : 1 .. issued', status : {"SENT", "FAILED"}]
      BY <2>2
    <3>3. finalized \in Seq([id : 1 .. issued', status : {"SENT", "FAILED"}])
      BY <3>1, <3>2, SeqWiden
    <3> QED BY <1>1, <3>3
  <2>6. expired' \subseteq 1 .. issued'
    BY <1>1, <1>5, <2>2, PruneFacts
  <2>7. settled' \in Seq([id : 1 .. issued', status : {"SENT", "FAILED"}, age : 0 .. MaxClock])
    <3>1. settled \in Seq([id : 1 .. issued, status : {"SENT", "FAILED"}, age : 0 .. MaxClock])
      BY DEF StoreInv, TypeOK
    <3>2. [id : 1 .. issued, status : {"SENT", "FAILED"}, age : 0 .. MaxClock]
            \subseteq [id : 1 .. issued', status : {"SENT", "FAILED"}, age : 0 .. MaxClock]
      BY <2>2
    <3>3. settled \in Seq([id : 1 .. issued', status : {"SENT", "FAILED"}, age : 0 .. MaxClock])
      BY <3>1, <3>2, SeqWiden
    <3> QED BY <1>1, <3>3
  <2> QED BY <2>1, <2>3, <2>4, <2>5, <2>6, <2>7 DEF TypeOK
<1>9. OneMemoryPerReply'
  <2>1. id \notin 1 .. issued
    BY <1>4 DEF id
  <2>2. FinalizedIds \subseteq 1 .. issued
    <3>1. finalized \in Seq([id : 1 .. issued, status : {"SENT", "FAILED"}])
      BY DEF StoreInv, TypeOK
    <3>2. \A k \in DOMAIN finalized : finalized[k] \in [id : 1 .. issued, status : {"SENT", "FAILED"}]
      BY <3>1, SeqElement
    <3> QED BY <3>2 DEF FinalizedIds
  <2>3. FinalizedIds' = FinalizedIds
    BY <1>1 DEF FinalizedIds
  <2> QED BY <1>1, <1>2, <1>5, <1>7, <2>1, <2>2, <2>3, PruneFacts DEF StoreInv, OneMemoryPerReply
<1>10. WithinCapacity'
  <2>1. id \notin kept
    BY <1>2, <1>4, <1>5, PruneFacts DEF id
  <2>2. Cardinality(kept \cup {id}) = Cardinality(kept) + 1 /\ Cardinality(kept) \in Nat
    BY <1>3, <2>1, FS_AddElement, FS_CardinalityType
  <2>3. Cardinality(DOMAIN pending') <= MaxEntries
    BY <1>3, <1>7, <2>2, StoreAssumption
  <2> QED BY <1>1, <2>3, PruneFacts DEF StoreInv, WithinCapacity
<1>11. SettledOnce' /\ NeverSettledLate'
  BY <1>1 DEF StoreInv, SettledOnce, NeverSettledLate
<1>12. SettledIsClosed'
  <2>1. \A k \in DOMAIN settled : settled[k].id \in 1 .. issued
    <3>1. settled \in Seq([id : 1 .. issued, status : {"SENT", "FAILED"}, age : 0 .. MaxClock])
      BY DEF StoreInv, TypeOK
    <3>2. \A k \in DOMAIN settled :
            settled[k] \in [id : 1 .. issued, status : {"SENT", "FAILED"}, age : 0 .. MaxClock]
      BY <3>1, SeqElement
    <3> QED BY <3>2
  <2>2. id \notin 1 .. issued
    BY <1>4 DEF id
  <2> QED BY <1>1, <1>2, <1>7, <2>1, <2>2, PruneFacts DEF StoreInv, SettledIsClosed
<1>13. StagedInThePast'
  BY <1>1, <1>2, <1>4, <1>5, PruneFacts DEF StoreInv, StagedInThePast, TypeOK, reply
<1> QED BY <1>8, <1>9, <1>10, <1>11, <1>12, <1>13 DEF StoreInv

\* An accepted acknowledgement names a live reply in neither history.
LEMMA AcceptedFacts ==
  ASSUME NEW ack, Verdict(ack) \in Accepted
  PROVE  ack.id \in Live /\ ack.id \notin FinalizedIds /\ ack.id \notin ExpiredNow
  BY DEF Verdict, Accepted

\* Settling keeps the invariant.
LEMMA SettleInv ==
  ASSUME StoreInv, NEW ack \in Ack, SettleAccepted(ack)
  PROVE  StoreInv'
<1> DEFINE entry == [id |-> ack.id, status |-> ack.status]
           outcome == Outcome(ack)
<1>1. /\ pending' = Restrict(pending, Live \ {ack.id})
      /\ finalized' = Trim(Append(finalized, entry))
      /\ settled' = Append(settled, outcome)
      /\ expired' = ExpiredNow
      /\ issued' = issued /\ clock' = clock
  BY DEF SettleAccepted, SettleLeaving
<1>2. ack.id \in Live /\ ack.id \notin FinalizedIds /\ ack.id \notin ExpiredNow
  BY AcceptedFacts DEF SettleAccepted, SettleLeaving
<1>3. DOMAIN pending' = Live \ {ack.id}
  BY <1>1 DEF Restrict
<1>4. ack.id \in 1 .. issued /\ ack.id \in DOMAIN pending
  BY <1>2, PruneFacts DEF StoreInv, TypeOK
<1>5. entry \in [id : 1 .. issued, status : {"SENT", "FAILED"}]
  BY <1>4 DEF Ack
<1>6. outcome \in [id : 1 .. issued, status : {"SENT", "FAILED"}, age : 0 .. MaxClock]
      /\ outcome.id = ack.id /\ outcome.age < Ttl
  <2>1. pending[ack.id].stagedAt \in 0 .. MaxClock /\ clock \in 0 .. MaxClock
    BY <1>4 DEF StoreInv, TypeOK, Reply
  <2>2. clock < pending[ack.id].stagedAt + Ttl
    BY <1>2 DEF Live
  <2>3. pending[ack.id].stagedAt <= clock
    BY <1>4 DEF StoreInv, StagedInThePast
  <2> DEFINE age == clock - pending[ack.id].stagedAt
  <2>4. age \in 0 .. MaxClock /\ age < Ttl
    BY <2>1, <2>2, <2>3, StoreAssumption
  <2>5. outcome = [id |-> ack.id, status |-> ack.status, age |-> age]
    BY DEF Outcome
  <2>6. ack.status \in {"SENT", "FAILED"}
    BY DEF Ack
  <2> HIDE DEF outcome, age
  <2> QED BY <1>4, <2>4, <2>5, <2>6
<1> HIDE DEF entry, outcome
<1>7. /\ finalized' \in Seq([id : 1 .. issued, status : {"SENT", "FAILED"}])
      /\ Len(finalized') <= MaxEntries
      /\ FinalizedIds' \subseteq FinalizedIds \cup {ack.id}
  <2>1. finalized \in Seq([id : 1 .. issued, status : {"SENT", "FAILED"}])
        /\ Len(finalized) <= MaxEntries
    BY DEF StoreInv, TypeOK, WithinCapacity
  <2>2. Append(finalized, entry) \in Seq([id : 1 .. issued, status : {"SENT", "FAILED"}])
        /\ Len(Append(finalized, entry)) = Len(finalized) + 1
    BY <1>5, <2>1
  <2>3. entry.id = ack.id
    BY DEF entry
  <2>4. \A k \in DOMAIN Append(finalized, entry) :
          Append(finalized, entry)[k].id \in FinalizedIds \cup {ack.id}
    BY <2>1, <2>3 DEF FinalizedIds
  <2>5. CASE Len(Append(finalized, entry)) > MaxEntries
    BY <1>1, <2>1, <2>2, <2>4, <2>5, StoreAssumption DEF Trim, FinalizedIds
  <2>6. CASE ~(Len(Append(finalized, entry)) > MaxEntries)
    BY <1>1, <2>1, <2>2, <2>4, <2>6, StoreAssumption DEF Trim, FinalizedIds
  <2> QED BY <2>5, <2>6
<1>8. TypeOK'
  <2>1. settled' \in Seq([id : 1 .. issued, status : {"SENT", "FAILED"}, age : 0 .. MaxClock])
    BY <1>1, <1>6 DEF StoreInv, TypeOK
  <2>2. pending' \in [DOMAIN pending' -> Reply]
    BY <1>1, <1>3, PruneFacts DEF StoreInv, TypeOK, Restrict
  <2> QED BY <1>1, <1>3, <1>7, <2>1, <2>2, PruneFacts DEF StoreInv, TypeOK
<1>9. OneMemoryPerReply'
  BY <1>1, <1>2, <1>3, <1>4, <1>7, PruneFacts DEF StoreInv, OneMemoryPerReply
<1>10. WithinCapacity'
  <2>1. IsFiniteSet(Live \ {ack.id}) /\ Cardinality(Live \ {ack.id}) <= Cardinality(Live)
    BY PruneFacts, FS_Subset
  <2>2. Cardinality(Live \ {ack.id}) \in Nat
    BY <2>1, FS_CardinalityType
  <2>3. Cardinality(DOMAIN pending') <= MaxEntries
    BY <1>3, <2>1, <2>2, PruneFacts, StoreAssumption
  <2> QED BY <1>1, <1>7, <2>3, PruneFacts DEF WithinCapacity
<1>11. SettledOnce' /\ NeverSettledLate' /\ SettledIsClosed'
  <2>1. /\ DOMAIN settled' = 1 .. Len(settled) + 1
        /\ DOMAIN settled = 1 .. Len(settled)
        /\ settled'[Len(settled) + 1] = outcome
        /\ \A k \in 1 .. Len(settled) : settled'[k] = settled[k]
    BY <1>1, <1>6 DEF StoreInv, TypeOK
  <2>2. \A k \in DOMAIN settled : settled[k].id \notin DOMAIN pending
    BY DEF StoreInv, SettledIsClosed
  <2>3. Len(settled) \in Nat
    BY DEF StoreInv, TypeOK
  <2>4. \A k \in 1 .. Len(settled) + 1 : k \in 1 .. Len(settled) \/ k = Len(settled) + 1
    BY <2>3
  <2>5. SettledOnce'
    BY <1>4, <1>6, <2>1, <2>2, <2>4 DEF StoreInv, SettledOnce
  <2>6. NeverSettledLate'
    BY <1>6, <2>1, <2>4 DEF StoreInv, NeverSettledLate
  <2>7. SettledIsClosed'
    BY <1>3, <1>6, <2>1, <2>2, <2>4, PruneFacts DEF SettledIsClosed
  <2> QED BY <2>5, <2>6, <2>7
<1>12. StagedInThePast'
  BY <1>1, <1>3, PruneFacts DEF StoreInv, StagedInThePast, Restrict
<1> QED BY <1>8, <1>9, <1>10, <1>11, <1>12 DEF StoreInv

\* A reading of the clock keeps the invariant.
LEMMA TickInv ==
  ASSUME StoreInv, Tick
  PROVE  StoreInv'
<1> USE DEF StoreInv, Tick
<1>1. TypeOK' /\ StagedInThePast'
  <2>1. clock \in 0 .. MaxClock /\ clock' = clock + 1 /\ clock < MaxClock
    BY DEF TypeOK
  <2>2. clock' \in 0 .. MaxClock
    BY <2>1, StoreAssumption
  <2>3. TypeOK'
    BY <2>2 DEF TypeOK
  <2>4. \A i \in DOMAIN pending : pending[i].stagedAt \in 0 .. MaxClock
    BY DEF TypeOK, Reply
  <2>5. StagedInThePast'
    BY <2>1, <2>4 DEF StagedInThePast
  <2> QED BY <2>3, <2>5
<1>2. OneMemoryPerReply' /\ WithinCapacity'
  BY DEF OneMemoryPerReply, WithinCapacity, FinalizedIds
<1>3. SettledOnce' /\ NeverSettledLate' /\ SettledIsClosed'
  BY DEF SettledOnce, NeverSettledLate, SettledIsClosed
<1> QED BY <1>1, <1>2, <1>3

\* The empty store satisfies the invariant.
LEMMA InitInv ==
  ASSUME Init
  PROVE  StoreInv
<1>1. DOMAIN pending = {} /\ DOMAIN finalized = {} /\ DOMAIN settled = {} /\ Len(finalized) = 0
  BY DEF Init
<1>2. TypeOK
  BY <1>1, StoreAssumption DEF Init, TypeOK
<1>3. WithinCapacity
  BY <1>1, FS_EmptySet, StoreAssumption DEF Init, WithinCapacity
<1> QED
  BY <1>1, <1>2, <1>3 DEF StoreInv, OneMemoryPerReply, FinalizedIds, SettledOnce,
     NeverSettledLate, SettledIsClosed, StagedInThePast, Init

\* Every step, whatever operation it is, keeps the invariant.
LEMMA NextInv ==
  ASSUME StoreInv, [Next]_vars
  PROVE  StoreInv'
<1>1. ASSUME NEW request \in Requests, NEW text \in Texts, Stage(request, text)
      PROVE  StoreInv'
  BY <1>1, StageInv
<1>2. CASE Lookup
  BY <1>2, PruneInv
<1>3. ASSUME NEW ack \in Ack, SettleAccepted(ack) PROVE StoreInv'
  BY <1>3, SettleInv
<1>4. ASSUME NEW ack \in Ack, SettleRejected(ack) PROVE StoreInv'
  <2>1. Lookup
    BY <1>4 DEF SettleRejected, Lookup
  <2> QED BY <2>1, PruneInv
<1>5. CASE Tick
  BY <1>5, TickInv
<1>6. CASE UNCHANGED vars
  <2> USE <1>6 DEF vars, StoreInv
  <2>1. TypeOK' /\ OneMemoryPerReply' /\ WithinCapacity'
    BY DEF TypeOK, OneMemoryPerReply, WithinCapacity, FinalizedIds
  <2>2. SettledOnce' /\ NeverSettledLate' /\ SettledIsClosed' /\ StagedInThePast'
    BY DEF SettledOnce, NeverSettledLate, SettledIsClosed, StagedInThePast
  <2> QED BY <2>1, <2>2
<1> QED BY <1>1, <1>2, <1>3, <1>4, <1>5, <1>6 DEF Next, Settle

-----------------------------------------------------------------------------
(* The theorems.                                                           *)

\* The inductive invariant holds in every behaviour of the store.
THEOREM StoreInvariance == Spec => []StoreInv
<1>1. Init => StoreInv
  BY InitInv
<1>2. StoreInv /\ [Next]_vars => StoreInv'
  BY NextInv
<1> QED BY <1>1, <1>2, PTL DEF Spec

\* Type correctness of the store.
THEOREM TypeCorrectness == Spec => []TypeOK
<1>1. StoreInv => TypeOK
  BY DEF StoreInv
<1> QED BY <1>1, StoreInvariance, PTL

\* A reply gets at most one outcome, however often and however late its
\* acknowledgement is repeated: settle() removes the pending entry first.
THEOREM AtMostOneOutcome == Spec => []SettledOnce
<1>1. StoreInv => SettledOnce
  BY DEF StoreInv
<1> QED BY <1>1, StoreInvariance, PTL

\* The pending map and the two histories never name the same reply.
THEOREM MemoriesDisjoint == Spec => []OneMemoryPerReply
<1>1. StoreInv => OneMemoryPerReply
  BY DEF StoreInv
<1> QED BY <1>1, StoreInvariance, PTL

\* The pending map and the two histories stay within maxEntries.
THEOREM CapacityRespected == Spec => []WithinCapacity
<1>1. StoreInv => WithinCapacity
  BY DEF StoreInv
<1> QED BY <1>1, StoreInvariance, PTL

\* Every outcome is given to a reply younger than the time to live.
THEOREM NoLateOutcome == Spec => []NeverSettledLate
<1>1. StoreInv => NeverSettledLate
  BY DEF StoreInv
<1> QED BY <1>1, StoreInvariance, PTL

-----------------------------------------------------------------------------
(* No silent loss.                                                         *)

\* An id that Newest refuses, out of at most n + 1 candidates, is the oldest
\* of exactly n + 1.
LEMMA RefusedIsOldest ==
  ASSUME NEW S \in SUBSET Nat, IsFiniteSet(S), NEW n \in Nat, Cardinality(S) <= n + 1,
         NEW i \in S, i \notin Newest(S, n)
  PROVE  Cardinality(S) = n + 1 /\ \A j \in S : i <= j
<1> DEFINE Above == {j \in S : j > i}
<1>1. IsFiniteSet(Above) /\ Cardinality(Above) >= n /\ Cardinality(Above) \in Nat
  BY FS_Subset, FS_CardinalityType DEF Newest
<1>2. i \notin Above /\ Above \cup {i} \subseteq S
  OBVIOUS
<1>3. IsFiniteSet(Above \cup {i}) /\ Cardinality(Above \cup {i}) = Cardinality(Above) + 1
  BY <1>1, <1>2, FS_AddElement
<1>4. Cardinality(S) \in Nat /\ Cardinality(Above \cup {i}) <= Cardinality(S)
  BY <1>2, FS_Subset, FS_CardinalityType
<1>5. Cardinality(S) = n + 1 /\ Cardinality(Above \cup {i}) = Cardinality(S)
  BY <1>1, <1>3, <1>4
<1>6. Above \cup {i} = S
  BY <1>2, <1>5, FS_Subset
<1>7. ASSUME NEW j \in S PROVE i <= j
  <2>1. i \in Nat /\ j \in Nat
    OBVIOUS
  <2>2. j > i \/ j = i
    BY <1>6
  <2> QED BY <2>1, <2>2
<1> QED BY <1>5, <1>7

\* A reply leaves the store settled, too old, or as the oldest of a full store.
THEOREM OnlyNamedLosses == Spec => NoSilentLoss
<1>1. ASSUME StoreInv, [Next]_vars PROVE [LossIsNamed]_vars
  <2>1. ASSUME NEW request \in Requests, NEW text \in Texts, Stage(request, text)
        PROVE  LossIsNamed
    <3>1. DOMAIN pending' = Newest(Live, MaxEntries - 1) \cup {issued + 1}
      BY <2>1 DEF Stage, StageKeeping
    <3>2. ASSUME NEW i \in DOMAIN pending, i \notin DOMAIN pending', i \in Live
          PROVE  Cardinality(Live) = MaxEntries /\ \A j \in Live : i <= j
      <4>1. i \notin Newest(Live, MaxEntries - 1)
        BY <3>1, <3>2
      <4>2. MaxEntries - 1 \in Nat /\ (MaxEntries - 1) + 1 = MaxEntries
        BY StoreAssumption
      <4> QED BY <1>1, <3>2, <4>1, <4>2, PruneFacts, RefusedIsOldest
    <3> QED BY <3>2 DEF LossIsNamed
  <2>2. CASE Lookup
    BY <2>2 DEF Lookup, Restrict, LossIsNamed
  <2>3. ASSUME NEW ack \in Ack, SettleAccepted(ack) PROVE LossIsNamed
    <3>1. DOMAIN pending' = Live \ {ack.id}
      BY <2>3 DEF SettleAccepted, SettleLeaving, Restrict
    <3>2. settled' = Append(settled, Outcome(ack)) /\ Outcome(ack).id = ack.id
      BY <2>3 DEF SettleAccepted, SettleLeaving, Outcome
    <3>3. settled \in Seq([id : 1 .. issued, status : {"SENT", "FAILED"}, age : 0 .. MaxClock])
      BY <1>1 DEF StoreInv, TypeOK
    <3>4. Len(settled') = Len(settled) + 1 /\ settled'[Len(settled')] = Outcome(ack)
      BY <3>2, <3>3
    <3>5. settled' # settled
      BY <3>3, <3>4
    <3> QED BY <3>1, <3>2, <3>4, <3>5 DEF LossIsNamed
  <2>4. ASSUME NEW ack \in Ack, SettleRejected(ack) PROVE LossIsNamed
    BY <2>4 DEF SettleRejected, Restrict, LossIsNamed
  <2>5. CASE Tick
    BY <2>5 DEF Tick, LossIsNamed
  <2>6. CASE UNCHANGED vars
    BY <2>6
  <2> QED BY <1>1, <2>1, <2>2, <2>3, <2>4, <2>5, <2>6 DEF Next, Settle
<1>2. StoreInv /\ [Next]_vars => [LossIsNamed]_vars
  BY <1>1
<1> QED BY <1>2, StoreInvariance, PTL DEF Spec, NoSilentLoss

-----------------------------------------------------------------------------
(* Refinement.                                                             *)

\* Appending an outcome appends what the ledger sees of it.
LEMMA AppendOutcome ==
  ASSUME NEW S, NEW s \in Seq(S), NEW e
  PROVE  Statuses(Append(s, e)) = Append(Statuses(s), [id |-> e.id, status |-> e.status])
<1> DEFINE last == [id |-> e.id, status |-> e.status]
           ids == {s[k].id : k \in DOMAIN s}
           results == {s[k].status : k \in DOMAIN s}
<1>1. Len(s) \in Nat /\ DOMAIN s = 1 .. Len(s) /\ DOMAIN Append(s, e) = 1 .. Len(s) + 1
  OBVIOUS
<1>2. Statuses(s) \in Seq([id : ids, status : results]) /\ Len(Statuses(s)) = Len(s)
  BY <1>1 DEF Statuses
<1>3. DOMAIN Append(Statuses(s), last) = 1 .. Len(s) + 1
  BY <1>1, <1>2
<1>4. ASSUME NEW k \in 1 .. Len(s) + 1
      PROVE  Statuses(Append(s, e))[k] = Append(Statuses(s), last)[k]
  <2>1. CASE k = Len(s) + 1
    BY <1>1, <1>2, <2>1 DEF Statuses
  <2>2. CASE k # Len(s) + 1
    BY <1>1, <1>2, <2>2 DEF Statuses
  <2> QED BY <2>1, <2>2
<1>5. DOMAIN Statuses(Append(s, e)) = 1 .. Len(s) + 1
  BY <1>1 DEF Statuses
<1>6. /\ Statuses(Append(s, e)) = [k \in 1 .. Len(s) + 1 |-> Statuses(Append(s, e))[k]]
      /\ Append(Statuses(s), last) = [k \in 1 .. Len(s) + 1 |-> Append(Statuses(s), last)[k]]
  BY <1>3, <1>5 DEF Statuses
<1> QED BY <1>4, <1>6

\* Every behaviour of the store, with its clock, capacities and forgotten
\* history, is a behaviour of the reply ledger.
THEOREM StoreImplementsLedger == Spec => ImplementsLedger
<1>1. Init => Ledger!LedgerInit
  BY DEF Init, Statuses, Ledger!LedgerInit
<1>2. ASSUME StoreInv, [Next]_vars PROVE [Ledger!LedgerNext]_(Ledger!ledgerVars)
  <2> USE DEF Ledger!ledgerVars, Ledger!LedgerNext
  <2>1. ASSUME NEW request \in Requests, NEW text \in Texts, Stage(request, text)
        PROVE  Ledger!Issue
    <3> DEFINE kept == Newest(Live, MaxEntries - 1)
    <3>1. kept \subseteq DOMAIN pending
      BY <1>2, NewestSubset, PruneFacts
    <3>2. DOMAIN pending' = kept \cup {issued + 1} /\ issued' = issued + 1 /\ settled' = settled
      BY <2>1 DEF Stage, StageKeeping
    <3>3. DOMAIN pending' = (DOMAIN pending \ (DOMAIN pending \ kept)) \cup {issued + 1}
      BY <3>1, <3>2
    <3> QED BY <3>2, <3>3 DEF Ledger!Issue
  <2>2. ASSUME DOMAIN pending' = Live, UNCHANGED <<issued, settled>> PROVE Ledger!Lose
    BY <1>2, <2>2, PruneFacts DEF Ledger!Lose
  <2>3. ASSUME NEW ack \in Ack, SettleAccepted(ack) PROVE Ledger!Close
    <3>1. DOMAIN pending' = Live \ {ack.id} /\ issued' = issued
      BY <2>3 DEF SettleAccepted, SettleLeaving, Restrict
    <3>2. ack.id \in DOMAIN pending /\ Live \subseteq DOMAIN pending
      BY <1>2, <2>3, AcceptedFacts, PruneFacts DEF SettleAccepted, SettleLeaving
    <3>3. settled' = Append(settled, Outcome(ack))
      BY <2>3 DEF SettleAccepted, SettleLeaving
    <3>4. settled \in Seq([id : 1 .. issued, status : {"SENT", "FAILED"}, age : 0 .. MaxClock])
      BY <1>2 DEF StoreInv, TypeOK
    <3>5. Statuses(settled)' = Append(Statuses(settled), [id |-> ack.id, status |-> ack.status])
      <4>1. Outcome(ack).id = ack.id /\ Outcome(ack).status = ack.status
        BY DEF Outcome
      <4>2. Statuses(settled)' = Statuses(settled')
        BY DEF Statuses
      <4> QED BY <3>3, <3>4, <4>1, <4>2, AppendOutcome
    <3>6. ack.status \in Ledger!Outcomes
      BY DEF Ack, Ledger!Outcomes
    <3>7. DOMAIN pending' = DOMAIN pending \ ((DOMAIN pending \ Live) \cup {ack.id})
      BY <3>1, <3>2
    <3> QED BY <3>1, <3>2, <3>5, <3>6, <3>7 DEF Ledger!Close
  <2>4. CASE Lookup
    BY <2>2, <2>4 DEF Lookup, Restrict
  <2>5. ASSUME NEW ack \in Ack, SettleRejected(ack) PROVE Ledger!Lose
    BY <2>2, <2>5 DEF SettleRejected, Restrict
  <2>6. CASE Tick
    BY <2>6 DEF Tick
  <2>7. CASE UNCHANGED vars
    BY <2>7 DEF vars
  <2> QED BY <1>2, <2>1, <2>3, <2>4, <2>5, <2>6, <2>7 DEF Next, Settle
<1>3. StoreInv /\ [Next]_vars => [Ledger!LedgerNext]_(Ledger!ledgerVars)
  BY <1>2
<1> QED BY <1>1, <1>3, StoreInvariance, PTL DEF Spec, ImplementsLedger, Ledger!LedgerSpec
-----------------------------------------------------------------------------
(* The reply path.                                                         *)

\* What the reply path relies on in the store, and what it adds: its own types, and
\* that a line of a transcript is the text of a command that was sent.
ReplyInv ==
  /\ StoreInv
  /\ ReplyTypeOK
  /\ ContextIsWhatWasSent

\* A function on the positions of a sequence is one of the same length, which grows
\* with it.
LEMMA FateGrows ==
  ASSUME NEW S, NEW T, NEW s \in Seq(S), NEW e \in S,
         NEW f \in [DOMAIN s -> T], NEW d \in T
  PROVE  /\ Append(s, e) \in Seq(S)
         /\ Append(f, d) \in [DOMAIN Append(s, e) -> T]
         /\ \A k \in DOMAIN s : /\ k \in DOMAIN Append(s, e)
                                /\ Append(s, e)[k] = s[k] /\ Append(f, d)[k] = f[k]
<1>1. DOMAIN s = 1 .. Len(s) /\ Len(s) \in Nat
  OBVIOUS
<1>2. f \in Seq(T) /\ Len(f) = Len(s)
  BY <1>1, LenProperties
<1>3. /\ Append(s, e) \in Seq(S) /\ DOMAIN Append(s, e) = 1 .. Len(s) + 1
      /\ \A k \in 1 .. Len(s) : Append(s, e)[k] = s[k]
  BY <1>1, AppendProperties
<1>4. /\ Append(f, d) \in Seq(T) /\ DOMAIN Append(f, d) = 1 .. Len(s) + 1
      /\ \A k \in 1 .. Len(s) : Append(f, d)[k] = f[k]
  BY <1>2, AppendProperties
<1>5. Append(f, d) \in [DOMAIN Append(s, e) -> T]
  <2>1. PICK g \in Seq(T) : g = Append(f, d) /\ DOMAIN g = 1 .. Len(s) + 1
    BY <1>4
  <2>2. g \in [DOMAIN g -> T]
    BY <2>1, LenProperties
  <2> QED BY <1>3, <2>1, <2>2
<1> QED BY <1>1, <1>3, <1>4, <1>5

\* The acknowledgement of a decided command is one the store knows.
LEMMA AckType ==
  ASSUME ReplyTypeOK, NEW k \in DOMAIN commands, fate[k] # "UNDECIDED"
  PROVE  AckOf(k) \in Ack /\ MessageOfCommand(k) \in Requests
<1>1. commands[k] \in Command /\ fate[k] \in {"SENT", "FAILED"}
  BY SeqElement DEF ReplyTypeOK, Results
<1>2. MessageOfCommand(k) \in Requests
  BY <1>1, ReplyAssumption DEF MessageOfCommand, Command
<1> QED BY <1>1, <1>2 DEF AckOf, Ack, Command

\* The identity of a staged text is an id, or 0 for none.
LEMMA IdentityType ==
  ASSUME StoreInv, NEW request, NEW text
  PROVE  IdentityFor(request, text) \in 0 .. MaxIssued
<1>1. Matches(request, text) \subseteq 1 .. issued /\ issued \in 0 .. MaxIssued
  BY PruneFacts DEF Matches, StoreInv, TypeOK
<1>2. CASE Matches(request, text) = {}
  BY <1>2, StoreAssumption DEF IdentityFor
<1>3. CASE Matches(request, text) # {}
  <2>1. Matches(request, text) \in SUBSET Nat
    BY <1>1
  <2>2. PICK m \in Matches(request, text) : \A j \in Matches(request, text) : m <= j
    BY <1>3, <2>1, LeastElement
  <2>3. IdentityFor(request, text) \in Matches(request, text)
    BY <1>3, <2>2 DEF IdentityFor
  <2> QED BY <1>1, <2>3, StoreAssumption
<1> QED BY <1>2, <1>3

\* Every step of the reply path but a restart is a step of the store.
LEMMA ReplyStoreStep ==
  ASSUME ReplyInv, [ReplyNext]_allVars, restarts' = restarts
  PROVE  [Next]_vars
<1>1. ASSUME NEW c \in Calls PROVE MessageOf[c] \in Requests
  BY ReplyAssumption
<1>2. ASSUME NEW c \in Calls, FallBack(c) PROVE Next
  BY <1>1, <1>2, ReplyAssumption DEF FallBack, Next
<1>3. ASSUME NEW c \in Calls, NEW text \in Texts, AnswerEarly(c, text) \/ AnswerStaged(c, text)
      PROVE  [Next]_vars
  BY <1>1, <1>3 DEF AnswerEarly, AnswerStaged, Next
<1>4. ASSUME NEW c \in Calls, Start(c) \/ AnswerSilently(c) \/ Fail(c) PROVE [Next]_vars
  BY <1>4 DEF Start, AnswerSilently, Fail
<1>5. ASSUME NEW c \in Calls, TimeOut(c) \/ Return(c) PROVE [Next]_vars
  BY <1>2, <1>5 DEF TimeOut, Return
<1>6. ASSUME NEW c \in Calls, Respond(c) PROVE [Next]_vars
  BY <1>6 DEF Respond, RespondThen, Next
<1>7. ASSUME NEW k \in DOMAIN commands, AckAccepted(k) \/ AckRejected(k) PROVE Next
  <2>1. fate[k] # "UNDECIDED" /\ (SettleAccepted(AckOf(k)) \/ SettleRejected(AckOf(k)))
    BY <1>7 DEF AckAccepted, AckRecording, AckRejected
  <2>2. AckOf(k) \in Ack
    BY <2>1, AckType DEF ReplyInv
  <2> QED BY <2>1, <2>2 DEF Next, Settle
<1>8. ASSUME NEW k \in DOMAIN commands, NEW result \in Results, RuntimeDecides(k, result)
      PROVE  [Next]_vars
  BY <1>8 DEF RuntimeDecides
<1>9. ~Restart
  BY DEF Restart, ReplyInv, ReplyTypeOK
<1>10. CASE ReplyTick
  BY <1>10 DEF ReplyTick, Next
<1>11. CASE UNCHANGED allVars
  BY <1>11 DEF allVars
<1> QED BY <1>3, <1>4, <1>5, <1>6, <1>7, <1>8, <1>9, <1>10, <1>11 DEF ReplyNext

\* A restart empties the memories; the outcomes of the past stay what they were.
LEMMA RestartStore ==
  ASSUME StoreInv, Restart
  PROVE  StoreInv'
<1>1. /\ DOMAIN pending' = {} /\ DOMAIN finalized' = {} /\ Len(finalized') = 0 /\ expired' = {}
      /\ UNCHANGED <<issued, clock, settled>>
  BY DEF Restart
<1>2. TypeOK'
  BY <1>1 DEF Restart, StoreInv, TypeOK
<1>3. WithinCapacity'
  BY <1>1, FS_EmptySet, StoreAssumption DEF WithinCapacity
<1>4. SettledOnce' /\ NeverSettledLate'
  BY <1>1 DEF StoreInv, SettledOnce, NeverSettledLate
<1> QED
  BY <1>1, <1>2, <1>3, <1>4 DEF StoreInv, OneMemoryPerReply, FinalizedIds, SettledIsClosed,
     StagedInThePast

\* The store's invariant survives every step of the reply path, a restart included.
LEMMA ReplyStoreInv ==
  ASSUME ReplyInv, [ReplyNext]_allVars
  PROVE  StoreInv'
<1>1. CASE restarts' = restarts
  BY <1>1, ReplyStoreStep, NextInv DEF ReplyInv
<1>2. CASE restarts' # restarts
  <2>1. Restart
    BY <1>2 DEF ReplyNext, Start, AnswerSilently, AnswerEarly, AnswerStaged, TimeOut, Return,
       FallBack, Fail, Respond, RespondThen, RuntimeDecides, AckAccepted, AckRecording, AckRejected,
       ReplyTick, Elsewhere, allVars
  <2> QED BY <2>1, RestartStore DEF ReplyInv
<1> QED BY <1>1, <1>2
\* A call changes only what it holds.
LEMMA HoldType ==
  ASSUME ReplyTypeOK, NEW c \in Calls, NEW next \in Phases, NEW text \in Texts \cup {NoText},
         Hold(c, next, text)
  PROVE  /\ phase' \in [Calls -> Phases] /\ startedAt' \in [Calls -> 0 .. MaxClock]
         /\ answer' \in [Calls -> Texts \cup {NoText}]
BY DEF ReplyTypeOK, Hold

\* Steps that neither write a command nor touch a transcript.
LEMMA CallInv ==
  ASSUME ReplyInv, StoreInv', Elsewhere,
         phase' \in [Calls -> Phases], startedAt' \in [Calls -> 0 .. MaxClock],
         answer' \in [Calls -> Texts \cup {NoText}]
  PROVE  ReplyInv'
<1>1. TypeOK'
  BY DEF StoreInv
<1>2. ReplyTypeOK'
  BY <1>1 DEF ReplyInv, ReplyTypeOK, Elsewhere, contextVars
<1>3. ContextIsWhatWasSent'
  BY DEF ReplyInv, ContextIsWhatWasSent, Elsewhere, contextVars, MessageOfCommand
<1> QED BY <1>2, <1>3 DEF ReplyInv

\* The handlers, up to the answer.
LEMMA HandlerInv ==
  ASSUME ReplyInv, StoreInv', NEW c \in Calls,
         \/ Start(c) \/ AnswerSilently(c) \/ TimeOut(c) \/ Return(c) \/ Fail(c)
         \/ \E text \in Texts : AnswerEarly(c, text) \/ AnswerStaged(c, text)
  PROVE  ReplyInv'
<1>1. ReplyTypeOK /\ Elsewhere
  BY DEF ReplyInv, Start, AnswerSilently, TimeOut, FallBack, Return, Fail, AnswerEarly, AnswerStaged
<1>2. /\ phase' \in [Calls -> Phases] /\ startedAt' \in [Calls -> 0 .. MaxClock]
      /\ answer' \in [Calls -> Texts \cup {NoText}]
  <2>1. CASE Start(c)
    BY <1>1, <2>1 DEF Start, ReplyTypeOK, TypeOK, Phases
  <2>2. ASSUME NEW next \in Phases, NEW text \in Texts \cup {NoText}, Hold(c, next, text)
        PROVE  /\ phase' \in [Calls -> Phases] /\ startedAt' \in [Calls -> 0 .. MaxClock]
               /\ answer' \in [Calls -> Texts \cup {NoText}]
    BY <1>1, <2>2, HoldType
  <2>3. /\ {"answered", "returned", "responded"} \subseteq Phases /\ Fallback \in Texts
        /\ answer[c] \in Texts \cup {NoText}
    BY <1>1, ReplyAssumption DEF Phases, ReplyTypeOK
  <2>4. CASE FallBack(c)
    BY <2>2, <2>3, <2>4 DEF FallBack
  <2>5. CASE AnswerSilently(c) \/ Fail(c)
    BY <2>2, <2>3, <2>5 DEF AnswerSilently, Fail
  <2>6. CASE Return(c)
    BY <2>2, <2>3, <2>4, <2>6 DEF Return
  <2>7. ASSUME NEW text \in Texts, AnswerEarly(c, text) \/ AnswerStaged(c, text)
        PROVE  \E next \in Phases : Hold(c, next, text)
    BY <2>3, <2>7 DEF AnswerEarly, AnswerStaged
  <2> QED BY <2>1, <2>2, <2>4, <2>5, <2>6, <2>7 DEF TimeOut
<1> QED BY <1>1, <1>2, CallInv

\* A line of a transcript stands for a command that was sent, and stays one while
\* commands are only added and what was sent stays sent.
LEMMA ContextStays ==
  ASSUME ReplyInv,
         \A transcript \in {ambient', local'} : transcript \in {ambient, local, <<>>},
         \A k \in DOMAIN commands :
           /\ k \in DOMAIN commands' /\ commands'[k] = commands[k]
           /\ fate[k] = "SENT" => fate'[k] = "SENT"
  PROVE  ContextIsWhatWasSent'
<1> SUFFICES ASSUME NEW transcript \in {ambient', local'}, NEW i \in DOMAIN transcript
             PROVE  \E k \in DOMAIN commands' :
                      /\ fate'[k] = "SENT"
                      /\ transcript[i] = [message |-> MessageOf[commands'[k].call],
                                           text |-> commands'[k].text]
  BY DEF ContextIsWhatWasSent, MessageOfCommand
<1>1. transcript \in {ambient, local}
  OBVIOUS
<1>2. PICK k \in DOMAIN commands :
        /\ fate[k] = "SENT"
        /\ transcript[i] = [message |-> MessageOfCommand(k), text |-> commands[k].text]
  BY <1>1 DEF ReplyInv, ContextIsWhatWasSent
<1> QED BY <1>2 DEF MessageOfCommand

\* A command is written with the text the call holds, undecided.
LEMMA RespondInv ==
  ASSUME ReplyInv, StoreInv', NEW c \in Calls, Respond(c)
  PROVE  ReplyInv'
<1>1. ReplyTypeOK /\ TypeOK' /\ StoreInv
  BY DEF ReplyInv, StoreInv
<1>2. Hold(c, "responded", NoText) /\ "responded" \in Phases /\ UNCHANGED <<contextVars, restarts>>
  BY DEF Respond, RespondThen, Phases
<1>3. /\ phase' \in [Calls -> Phases] /\ startedAt' \in [Calls -> 0 .. MaxClock]
      /\ answer' \in [Calls -> Texts \cup {NoText}]
  BY <1>1, <1>2, HoldType
<1>4. CASE UNCHANGED <<commands, fate>>
  BY <1>2, <1>3, <1>4, CallInv DEF Elsewhere
<1>5. ASSUME answer[c] # NoText,
             commands' = Append(commands,
               [call |-> c, id |-> IdentityFor(MessageOf[c], answer[c]), text |-> answer[c]]),
             fate' = Append(fate, "UNDECIDED")
      PROVE  ReplyInv'
  <2>1. PICK command \in Command : commands' = Append(commands, command)
    <3>1. answer[c] \in Texts
      BY <1>1, <1>5 DEF ReplyTypeOK
    <3>2. IdentityFor(MessageOf[c], answer[c]) \in 0 .. MaxIssued
      BY <1>1, IdentityType
    <3> QED BY <1>5, <3>1, <3>2 DEF Command
  <2>2. /\ commands' \in Seq(Command)
        /\ fate' \in [DOMAIN commands' -> {"UNDECIDED"} \cup Results]
        /\ \A k \in DOMAIN commands :
             /\ k \in DOMAIN commands'
             /\ commands'[k] = commands[k] /\ fate'[k] = fate[k]
    <3>1. PICK fates : fates = {"UNDECIDED"} \cup Results
      OBVIOUS
    <3>2. commands \in Seq(Command) /\ fate \in [DOMAIN commands -> fates] /\ "UNDECIDED" \in fates
      BY <1>1, <3>1 DEF ReplyTypeOK
    <3>3. Append(commands, command) \in Seq(Command)
      BY <3>2, FateGrows
    <3>4. Append(fate, "UNDECIDED") \in [DOMAIN Append(commands, command) -> fates]
      BY <3>2, FateGrows
    <3>5. \A k \in DOMAIN commands :
            /\ k \in DOMAIN Append(commands, command)
            /\ Append(commands, command)[k] = commands[k] /\ Append(fate, "UNDECIDED")[k] = fate[k]
      BY <3>2, FateGrows
    <3> QED BY <1>5, <2>1, <3>1, <3>3, <3>4, <3>5
  <2>3. ContextIsWhatWasSent'
    BY <1>2, <2>2, ContextStays DEF contextVars
  <2>4. ReplyTypeOK'
    BY <1>1, <1>2, <1>3, <2>2 DEF ReplyTypeOK, contextVars
  <2> QED BY <2>3, <2>4 DEF ReplyInv
<1> QED BY <1>4, <1>5 DEF Respond, RespondThen

\* What was decided is not decided again.
LEMMA DecideInv ==
  ASSUME ReplyInv, StoreInv', NEW k \in DOMAIN commands, NEW result \in Results,
         RuntimeDecides(k, result)
  PROVE  ReplyInv'
<1>1. fate' = [fate EXCEPT ![k] = result] /\ fate[k] = "UNDECIDED"
      /\ UNCHANGED <<callVars, commands, contextVars, restarts>>
  BY DEF RuntimeDecides
<1>2. ReplyTypeOK /\ TypeOK'
  BY DEF ReplyInv, StoreInv
<1>3. fate' \in [DOMAIN commands' -> {"UNDECIDED"} \cup Results]
  BY <1>1, <1>2 DEF ReplyTypeOK
<1>4. \A j \in DOMAIN commands : fate[j] = "SENT" => fate'[j] = "SENT"
  BY <1>1, <1>2 DEF ReplyTypeOK
<1>5. ContextIsWhatWasSent'
  BY <1>1, <1>4, ContextStays DEF contextVars
<1>6. ReplyTypeOK'
  BY <1>1, <1>2, <1>3 DEF ReplyTypeOK, contextVars, callVars
<1> QED BY <1>5, <1>6 DEF ReplyInv

\* Both transcripts take a line or leave it.
LEMMA AppendLineFacts ==
  ASSUME NEW transcript \in Seq(Line), NEW line \in Line
  PROVE  /\ AppendLine(transcript, line) \in Seq(Line)
         /\ \A i \in DOMAIN AppendLine(transcript, line) :
              \/ AppendLine(transcript, line)[i] = line
              \/ i \in DOMAIN transcript /\ AppendLine(transcript, line)[i] = transcript[i]
<1>1. CASE AppendLine(transcript, line) = transcript
  BY <1>1
<1>2. CASE AppendLine(transcript, line) = Append(transcript, line)
  <2>1. /\ Append(transcript, line) \in Seq(Line)
        /\ DOMAIN Append(transcript, line) = 1 .. Len(transcript) + 1
        /\ Append(transcript, line)[Len(transcript) + 1] = line
        /\ \A i \in 1 .. Len(transcript) : Append(transcript, line)[i] = transcript[i]
        /\ DOMAIN transcript = 1 .. Len(transcript) /\ Len(transcript) \in Nat
    BY AppendProperties
  <2> QED BY <1>2, <2>1
<1> QED BY <1>1, <1>2 DEF AppendLine

\* The store accepts SENT only for the request and the text it has staged, so the
\* line it gives is the command's.
LEMMA AckInv ==
  ASSUME ReplyInv, StoreInv', NEW k \in DOMAIN commands, AckAccepted(k)
  PROVE  ReplyInv'
<1> DEFINE reply == pending[commands[k].id]
           line == [message |-> reply.request, text |-> reply.text]
<1>1. ReplyTypeOK /\ TypeOK' /\ TypeOK
  BY DEF ReplyInv, StoreInv
<1>2. /\ SettleAccepted(AckOf(k)) /\ UNCHANGED <<callVars, commands, fate, restarts>>
      /\ \/ UNCHANGED contextVars
         \/ /\ fate[k] = "SENT"
            /\ ambient' = AppendLine(ambient, line) /\ local' = AppendLine(local, line)
  BY DEF AckAccepted, AckRecording
<1>3. CASE UNCHANGED contextVars
  <2>1. ContextIsWhatWasSent'
    BY <1>2, <1>3, ContextStays DEF contextVars
  <2>2. ReplyTypeOK'
    BY <1>1, <1>2, <1>3 DEF ReplyTypeOK, contextVars, callVars
  <2> QED BY <2>1, <2>2 DEF ReplyInv
<1>4. CASE /\ fate[k] = "SENT"
           /\ ambient' = AppendLine(ambient, line) /\ local' = AppendLine(local, line)
  <2>1. Verdict(AckOf(k)) \in Accepted /\ AckOf(k).id = commands[k].id /\ AckOf(k).status = "SENT"
        /\ AckOf(k).request = MessageOfCommand(k) /\ AckOf(k).text = commands[k].text
    BY <1>2, <1>4 DEF SettleAccepted, SettleLeaving, AckOf
  <2>2. /\ commands[k].id \in Live
        /\ reply.request = MessageOfCommand(k) /\ reply.text = commands[k].text
    BY <2>1 DEF Verdict, Accepted
  <2>3. reply \in Reply
    BY <1>1, <2>2 DEF Live, TypeOK
  <2>4. line \in Line /\ line = [message |-> MessageOfCommand(k), text |-> commands[k].text]
    BY <2>2, <2>3 DEF Line, Reply
  <2> HIDE DEF line, reply
  <2>5. ASSUME NEW transcript \in {ambient, local}
        PROVE  /\ AppendLine(transcript, line) \in Seq(Line)
               /\ \A i \in DOMAIN AppendLine(transcript, line) :
                    \E j \in DOMAIN commands :
                      /\ fate[j] = "SENT"
                      /\ AppendLine(transcript, line)[i] =
                           [message |-> MessageOfCommand(j), text |-> commands[j].text]
    <3>1. transcript \in Seq(Line)
      BY <1>1 DEF ReplyTypeOK
    <3>2. ASSUME NEW i \in DOMAIN AppendLine(transcript, line)
          PROVE  \E j \in DOMAIN commands :
                   /\ fate[j] = "SENT"
                   /\ AppendLine(transcript, line)[i] =
                        [message |-> MessageOfCommand(j), text |-> commands[j].text]
      <4>1. CASE AppendLine(transcript, line)[i] = line
        BY <1>4, <2>4, <4>1
      <4>2. CASE i \in DOMAIN transcript /\ AppendLine(transcript, line)[i] = transcript[i]
        BY <4>2 DEF ReplyInv, ContextIsWhatWasSent
      <4> QED BY <2>4, <3>1, <3>2, <4>1, <4>2, AppendLineFacts, ZenonT(30)
    <3> QED BY <2>4, <3>1, <3>2, AppendLineFacts
  <2>6. ContextIsWhatWasSent'
    BY <1>2, <1>4, <2>5 DEF ContextIsWhatWasSent, MessageOfCommand
  <2>7. ambient' \in Seq(Line) /\ local' \in Seq(Line)
    BY <1>4, <2>5
  <2>8. ReplyTypeOK'
    BY <1>1, <1>2, <2>7 DEF ReplyTypeOK, callVars
  <2> QED BY <2>6, <2>8 DEF ReplyInv
<1> QED BY <1>2, <1>3, <1>4

\* A restart clears the transcripts with everything else in memory.
LEMMA RestartInv ==
  ASSUME ReplyInv, StoreInv', Restart
  PROVE  ReplyInv'
<1>1. ReplyTypeOK /\ TypeOK'
  BY DEF ReplyInv, StoreInv
<1>2. /\ phase' \in [Calls -> Phases] /\ answer' \in [Calls -> Texts \cup {NoText}]
      /\ restarts' \in 0 .. MaxRestarts
  BY <1>1, ReplyAssumption DEF Restart, ReplyTypeOK, Phases
<1>3. ambient' \in Seq(Line) /\ local' \in Seq(Line)
  BY EmptySeq DEF Restart
<1>4. ContextIsWhatWasSent'
  BY ContextStays DEF Restart
<1>5. ReplyTypeOK'
  BY <1>1, <1>2, <1>3 DEF Restart, ReplyTypeOK
<1> QED BY <1>4, <1>5 DEF ReplyInv

\* Nothing is staged, answered or sent yet.
LEMMA ReplyInitInv == ReplyInit => ReplyInv
<1> SUFFICES ASSUME ReplyInit PROVE ReplyInv
  OBVIOUS
<1>1. StoreInv
  BY InitInv DEF ReplyInit
<1>2. commands \in Seq(Command) /\ ambient \in Seq(Line) /\ local \in Seq(Line)
  BY EmptySeq DEF ReplyInit
<1>3. /\ fate \in [DOMAIN commands -> {"UNDECIDED"} \cup Results]
      /\ DOMAIN ambient = {} /\ DOMAIN local = {}
  BY DEF ReplyInit
<1>4. /\ phase \in [Calls -> Phases] /\ startedAt \in [Calls -> 0 .. MaxClock]
      /\ answer \in [Calls -> Texts \cup {NoText}] /\ restarts \in 0 .. MaxRestarts
  BY StoreAssumption, ReplyAssumption DEF ReplyInit, Phases
<1>5. ReplyTypeOK
  BY <1>1, <1>2, <1>3, <1>4 DEF ReplyTypeOK, StoreInv
<1>6. ContextIsWhatWasSent
  BY <1>3 DEF ContextIsWhatWasSent
<1> QED BY <1>1, <1>5, <1>6 DEF ReplyInv

\* Every step of the reply path keeps the invariant.
LEMMA ReplyNextInv ==
  ASSUME ReplyInv, [ReplyNext]_allVars
  PROVE  ReplyInv'
<1>1. StoreInv'
  BY ReplyStoreInv
<1>2. ASSUME NEW c \in Calls,
             \/ Start(c) \/ AnswerSilently(c) \/ TimeOut(c) \/ Return(c) \/ Fail(c)
             \/ \E text \in Texts : AnswerEarly(c, text) \/ AnswerStaged(c, text)
      PROVE  ReplyInv'
  BY <1>1, <1>2, HandlerInv
<1>3. ASSUME NEW c \in Calls, Respond(c) PROVE ReplyInv'
  BY <1>1, <1>3, RespondInv
<1>4. ASSUME NEW k \in DOMAIN commands, NEW result \in Results, RuntimeDecides(k, result)
      PROVE  ReplyInv'
  BY <1>1, <1>4, DecideInv
<1>5. ASSUME NEW k \in DOMAIN commands, AckAccepted(k) PROVE ReplyInv'
  BY <1>1, <1>5, AckInv
<1>6. ASSUME NEW k \in DOMAIN commands, AckRejected(k) PROVE ReplyInv'
  <2>1. UNCHANGED <<callVars, commands, fate, contextVars, restarts>>
    BY <1>6 DEF AckRejected
  <2> QED BY <1>1, <2>1, CallInv DEF ReplyInv, ReplyTypeOK, callVars, Elsewhere
<1>7. CASE Restart
  BY <1>1, <1>7, RestartInv
<1>8. CASE ReplyTick \/ UNCHANGED allVars
  <2>1. UNCHANGED <<callVars, commands, fate, contextVars, restarts>>
    BY <1>8 DEF ReplyTick, allVars
  <2> QED BY <1>1, <2>1, CallInv DEF ReplyInv, ReplyTypeOK, callVars, Elsewhere
<1> QED BY <1>2, <1>3, <1>4, <1>5, <1>6, <1>7, <1>8 DEF ReplyNext

\* The inductive invariant of the reply path.
THEOREM ReplyInvariance == ReplySpec => []ReplyInv
BY ReplyInitInv, ReplyNextInv, PTL DEF ReplySpec

\* The variables of the reply path keep their types.
THEOREM ReplyTypeCorrectness == ReplySpec => []ReplyTypeOK
<1>1. ReplyInv => ReplyTypeOK
  BY DEF ReplyInv
<1> QED BY <1>1, ReplyInvariance, PTL

\* The store keeps its promises on the reply path too, restarts included: one outcome
\* for a reply, none at or past its time to live, and no memory past its limit.
THEOREM StoreHoldsUnderRestarts ==
  ReplySpec => [](SettledOnce /\ NeverSettledLate /\ WithinCapacity)
<1>1. ReplyInv => SettledOnce /\ NeverSettledLate /\ WithinCapacity
  BY DEF ReplyInv, StoreInv
<1> QED BY <1>1, ReplyInvariance, PTL

\* observeOutboundDelivery: generated is not sent; a transcript holds only what the
\* runtime really sent.
THEOREM ContextHoldsOnlyWhatWasSent == ReplySpec => []ContextIsWhatWasSent
<1>1. ReplyInv => ContextIsWhatWasSent
  BY DEF ReplyInv
<1> QED BY <1>1, ReplyInvariance, PTL

\* What a store operation of the reply path takes away.
LEMMA StageKeepsRecords ==
  ASSUME StoreInv, NEW request \in Requests, NEW text \in Texts, Stage(request, text),
         NEW i \in DOMAIN pending \ DOMAIN pending'
  PROVE  RecordGone(i)
<1>1. i \notin Newest(Live, MaxEntries - 1)
  BY DEF Stage, StageKeeping
<1>2. CASE i \notin Live
  <2>1. pending[i].stagedAt \in 0 .. MaxClock /\ clock \in 0 .. MaxClock
    BY DEF StoreInv, TypeOK, Reply
  <2> QED BY <1>2, <2>1, StoreAssumption DEF Live, RecordGone
<1>3. CASE i \in Live
  <2>1. MaxEntries - 1 \in Nat /\ (MaxEntries - 1) + 1 = MaxEntries
    BY StoreAssumption
  <2>2. Cardinality(Live) = MaxEntries
    BY <1>1, <1>3, <2>1, PruneFacts, RefusedIsOldest
  <2>3. issued' > issued
    BY DEF Stage, StageKeeping, StoreInv, TypeOK
  <2> QED BY <2>2, <2>3 DEF RecordGone
<1> QED BY <1>2, <1>3

\* outbound-delivery.ts on the reply path: no interleaved request, lookup or
\* acknowledgement takes the record of another reply.
THEOREM NoReplyLosesItsRecord == ReplySpec => NoRecordStolen
<1> DEFINE Keeps == \A i \in DOMAIN pending \ DOMAIN pending' : RecordGone(i)
<1>1. ReplyInv /\ [ReplyNext]_allVars => [Keeps]_allVars
  <2> SUFFICES ASSUME ReplyInv, [ReplyNext]_allVars, NEW i \in DOMAIN pending \ DOMAIN pending'
               PROVE  RecordGone(i)
    OBVIOUS
  <2>1. StoreInv /\ TypeOK
    BY DEF ReplyInv, StoreInv
  <2>2. i \notin Live => RecordGone(i)
    <3>1. pending[i].stagedAt \in 0 .. MaxClock /\ clock \in 0 .. MaxClock
      BY <2>1 DEF TypeOK, Reply
    <3> QED BY <3>1, StoreAssumption DEF Live, RecordGone
  <2>3. ASSUME NEW request \in Requests, NEW text \in Texts, Stage(request, text) PROVE RecordGone(i)
    BY <2>1, <2>3, StageKeepsRecords
  <2>4. ASSUME NEW c \in Calls PROVE MessageOf[c] \in Requests /\ Fallback \in Texts
    BY ReplyAssumption
  <2>5. ASSUME NEW c \in Calls, TimeOut(c) \/ Return(c) PROVE RecordGone(i)
    BY <2>3, <2>4, <2>5 DEF TimeOut, Return, FallBack, vars
  <2>6. ASSUME NEW c \in Calls, NEW text \in Texts, AnswerEarly(c, text) \/ AnswerStaged(c, text)
        PROVE  RecordGone(i)
    BY <2>3, <2>4, <2>6 DEF AnswerEarly, AnswerStaged, vars
  <2>7. ASSUME NEW c \in Calls, Start(c) \/ AnswerSilently(c) \/ Fail(c) PROVE RecordGone(i)
    BY <2>7 DEF Start, AnswerSilently, Fail, vars
  <2>8. ASSUME NEW c \in Calls, Respond(c) PROVE RecordGone(i)
    BY <2>2, <2>8 DEF Respond, RespondThen, Lookup, Restrict, vars
  <2>9. ASSUME NEW k \in DOMAIN commands, AckRejected(k) PROVE RecordGone(i)
    BY <2>2, <2>9 DEF AckRejected, SettleRejected, Restrict
  <2>10. ASSUME NEW k \in DOMAIN commands, AckAccepted(k) PROVE RecordGone(i)
    <3>1. pending' = Restrict(pending, Live \ {commands[k].id})
      BY <2>10 DEF AckAccepted, AckRecording, SettleAccepted, SettleLeaving, AckOf
    <3>2. i \notin Live \/ i = commands[k].id
      BY <3>1 DEF Restrict
    <3>3. fate[k] \in Results
      BY <2>10 DEF AckAccepted, AckRecording, ReplyInv, ReplyTypeOK
    <3> QED BY <2>2, <3>2, <3>3 DEF RecordGone
  <2>11. ASSUME NEW k \in DOMAIN commands, NEW result \in Results, RuntimeDecides(k, result)
         PROVE  RecordGone(i)
    BY <2>11 DEF RuntimeDecides, vars
  <2>12. CASE Restart
    BY <2>12 DEF Restart, RecordGone, ReplyInv, ReplyTypeOK
  <2>13. CASE ReplyTick \/ UNCHANGED allVars
    BY <2>13 DEF ReplyTick, Tick, allVars, vars
  <2> QED BY <2>5, <2>6, <2>7, <2>8, <2>9, <2>10, <2>11, <2>12, <2>13 DEF ReplyNext
<1> QED BY <1>1, ReplyInvariance, PTL DEF ReplySpec, NoRecordStolen
=============================================================================
