----------------------- MODULE ProactiveDeliveryProofs ----------------------
(***************************************************************************)
(* Proofs about the proactive path end to end, for every set of groups and *)
(* messages and every limit: a transcript holds only what was sent, once;  *)
(* a task becomes one command, staged under its own number; and no group   *)
(* receives more name-triggered messages than it had admitted wakes.  The  *)
(* last one is proved by counting: a reply that is on its way is a running *)
(* generation, then a queued task, then a command, and each came from a    *)
(* wake of the same group.                                                 *)
(***************************************************************************)
EXTENDS ProactiveDelivery, ListProofs

AmbientLine == [task : Tasks, group : Groups, text : Texts]
Fates == {"UNDECIDED", "SENT", "FAILED"}
Offer == [group : Groups, message : Messages, verdict : {"DUPLICATE", "COOLDOWN", "SINGLE_FLIGHT", "DETECTED"}]

\* What the composition needs to know of the types of its parts.
PartTypes ==
  /\ accepted \in 0 .. MaxTasks /\ DOMAIN items \subseteq 1 .. accepted
  /\ \A t \in DOMAIN items :
       items[t].group \in Groups /\ items[t].text \in Texts /\ items[t].intent \in Intents
  /\ ready \in Seq(Nat) /\ issued \in 0 .. MaxTasks /\ DOMAIN pending \subseteq 1 .. issued
  /\ IsFiniteSet(running) /\ \A run \in running : run.group \in Groups
  /\ offers \in Seq(Offer)
  /\ commands \in Seq(Command) /\ fate \in [DOMAIN commands -> Fates]
  /\ ambient \in Seq(AmbientLine)

\* A task that became a command was accepted and is no longer in the queue.
CommandsLeftTheQueue ==
  \A k \in DOMAIN commands : commands[k].task \in 1 .. accepted /\ commands[k].task \notin DOMAIN items

\* The name-triggered replies of a group that are still on their way.
Queued(g) ==
  {t \in DOMAIN items : items[t].group = g /\ items[t].intent = "AMBIENT_NAME_TRIGGERED_REPLY"}
Generating(g) == {run \in running : run.group = g}

\* Each of them, and each that became a command, has a wake of its own.
RepliesAreBacked(g) ==
  Cardinality(AmbientReplies(g)) + Cardinality(Queued(g)) + Cardinality(Generating(g))
    <= Cardinality(Wakes(g))

DeliveryInv ==
  /\ PartTypes
  /\ CommandsLeftTheQueue
  /\ OneCommandPerTask
  /\ AmbientIsWhatWasSent
  /\ \A g \in Groups : RepliesAreBacked(g)

-----------------------------------------------------------------------------
(* Facts about sequences and sets.                                         *)

\* The shape of a sequence that got one more element.
LEMMA AppendShape ==
  ASSUME NEW S, NEW s \in Seq(S), NEW e \in S
  PROVE  /\ Append(s, e) \in Seq(S) /\ Len(s) \in Nat
         /\ DOMAIN s = 1 .. Len(s) /\ DOMAIN Append(s, e) = DOMAIN s \cup {Len(s) + 1}
         /\ Len(s) + 1 \notin DOMAIN s /\ Len(Append(s, e)) = Len(s) + 1
         /\ Append(s, e)[Len(s) + 1] = e
         /\ \A k \in DOMAIN s : Append(s, e)[k] = s[k]
<1>1. Len(s) \in Nat /\ DOMAIN s = 1 .. Len(s)
  OBVIOUS
<1>2. /\ Append(s, e) \in Seq(S) /\ Len(Append(s, e)) = Len(s) + 1
      /\ DOMAIN Append(s, e) = 1 .. Len(s) + 1
      /\ Append(s, e)[Len(s) + 1] = e
      /\ \A k \in 1 .. Len(s) : Append(s, e)[k] = s[k]
  BY <1>1, AppendProperties
<1>3. DOMAIN Append(s, e) = DOMAIN s \cup {Len(s) + 1} /\ Len(s) + 1 \notin DOMAIN s
  BY <1>1, <1>2
<1> QED BY <1>1, <1>2, <1>3

\* A function on the positions of a sequence grows with it.
LEMMA FateGrows ==
  ASSUME NEW S, NEW T, NEW s \in Seq(S), NEW e \in S, NEW f \in [DOMAIN s -> T], NEW d \in T
  PROVE  /\ Append(f, d) \in [DOMAIN Append(s, e) -> T]
         /\ \A k \in DOMAIN s : Append(f, d)[k] = f[k]
<1>1. DOMAIN s = 1 .. Len(s) /\ Len(s) \in Nat
  OBVIOUS
<1>2. f \in Seq(T) /\ Len(f) = Len(s)
  BY <1>1, LenProperties
<1>3. PICK g \in Seq(T) : g = Append(f, d)
  BY <1>2, AppendProperties
<1>4. Len(g) = Len(s) + 1 /\ \A k \in 1 .. Len(s) : g[k] = f[k]
  BY <1>2, <1>3, AppendProperties
<1>5. g \in [1 .. Len(s) + 1 -> T]
  BY <1>3, <1>4, LenProperties
<1>6. DOMAIN Append(s, e) = 1 .. Len(s) + 1
  BY <1>1, AppendProperties
<1> QED BY <1>1, <1>3, <1>4, <1>5, <1>6

\* Counting a set that gained at most, or lost, one element.
LEMMA CountOneMore ==
  ASSUME NEW S, IsFiniteSet(S), NEW x, NEW T, T \subseteq S \cup {x}
  PROVE  IsFiniteSet(T) /\ Cardinality(T) \in Nat /\ Cardinality(S) \in Nat
         /\ Cardinality(T) <= Cardinality(S) + 1
<1>1. IsFiniteSet(S \cup {x}) /\ Cardinality(S \cup {x}) <= Cardinality(S) + 1
  <2>1. Cardinality(S \cup {x}) = IF x \in S THEN Cardinality(S) ELSE Cardinality(S) + 1
    BY FS_AddElement
  <2>2. Cardinality(S) \in Nat /\ IsFiniteSet(S \cup {x})
    BY FS_AddElement, FS_CardinalityType
  <2> QED BY <2>1, <2>2
<1> QED BY <1>1, FS_Subset, FS_CardinalityType

\* A set that gained an element it did not have.
LEMMA CountOneNew ==
  ASSUME NEW S, IsFiniteSet(S), NEW x, x \notin S
  PROVE  Cardinality(S \cup {x}) = Cardinality(S) + 1 /\ Cardinality(S) \in Nat
BY FS_AddElement, FS_CardinalityType

\* A set that lost an element.
LEMMA CountOneLess ==
  ASSUME NEW S, IsFiniteSet(S), NEW x \in S, NEW T, T \subseteq S \ {x}
  PROVE  IsFiniteSet(T) /\ Cardinality(T) \in Nat /\ Cardinality(S) \in Nat
         /\ Cardinality(T) <= Cardinality(S) - 1
<1>1. IsFiniteSet(S \ {x}) /\ Cardinality(S \ {x}) = Cardinality(S) - 1
  BY FS_RemoveElement
<1>2. Cardinality(S) \in Nat /\ Cardinality(S \ {x}) \in Nat
  BY <1>1, FS_CardinalityType
<1>3. IsFiniteSet(T) /\ Cardinality(T) <= Cardinality(S \ {x})
  BY <1>1, FS_Subset
<1> QED BY <1>1, <1>2, <1>3, FS_CardinalityType

\* A set that gained nothing.
LEMMA CountNoMore ==
  ASSUME NEW S, IsFiniteSet(S), NEW T, T \subseteq S
  PROVE  IsFiniteSet(T) /\ Cardinality(T) \in Nat /\ Cardinality(S) \in Nat
         /\ Cardinality(T) <= Cardinality(S)
BY FS_Subset, FS_CardinalityType

\* What is counted is finite.
LEMMA CountedFinite ==
  ASSUME PartTypes, NEW g
  PROVE  /\ IsFiniteSet(AmbientReplies(g)) /\ IsFiniteSet(Queued(g))
         /\ IsFiniteSet(Generating(g)) /\ IsFiniteSet(Wakes(g))
<1>1. /\ DOMAIN commands = 1 .. Len(commands) /\ Len(commands) \in Nat
      /\ DOMAIN offers = 1 .. Len(offers) /\ Len(offers) \in Nat
      /\ accepted \in Nat
  BY DeliveryAssumption, SMTT(20) DEF PartTypes
<1>2. IsFiniteSet(1 .. Len(commands)) /\ IsFiniteSet(1 .. Len(offers)) /\ IsFiniteSet(1 .. accepted)
  BY <1>1, FS_Interval
<1>3. /\ AmbientReplies(g) \subseteq 1 .. Len(commands) /\ Wakes(g) \subseteq 1 .. Len(offers)
      /\ Queued(g) \subseteq 1 .. accepted /\ Generating(g) \subseteq running
  BY <1>1 DEF AmbientReplies, Wakes, Queued, Generating, PartTypes
<1>4. IsFiniteSet(AmbientReplies(g)) /\ IsFiniteSet(Wakes(g))
  BY <1>2, <1>3, FS_Subset
<1>5. IsFiniteSet(Queued(g)) /\ IsFiniteSet(Generating(g))
  BY <1>2, <1>3, FS_Subset DEF PartTypes
<1> QED BY <1>4, <1>5
-----------------------------------------------------------------------------
(* What most steps leave as it is.                                         *)

\* The queue gained at most a task with a new number, the store lost some records.
LEMMA CommandsStay ==
  ASSUME DeliveryInv, UNCHANGED <<commands, issued>>,
         accepted' \in Nat, accepted <= accepted', DOMAIN items' \subseteq DOMAIN items \cup {accepted + 1},
         DOMAIN pending' \subseteq DOMAIN pending, \A i \in DOMAIN pending' : pending'[i] = pending[i]
  PROVE  CommandsLeftTheQueue' /\ OneCommandPerTask'
<1>1. accepted \in Nat
  BY DeliveryAssumption DEF DeliveryInv, PartTypes
<1>2. CommandsLeftTheQueue'
  BY <1>1 DEF DeliveryInv, CommandsLeftTheQueue
<1>3. OneCommandPerTask'
  BY DEF DeliveryInv, OneCommandPerTask
<1> QED BY <1>2, <1>3

\* What was sent stays sent.
LEMMA SentStays ==
  ASSUME DeliveryInv, UNCHANGED ambient,
         \A k \in DOMAIN commands :
           /\ k \in DOMAIN commands' /\ commands'[k] = commands[k]
           /\ fate[k] = "SENT" => fate'[k] = "SENT"
  PROVE  AmbientIsWhatWasSent'
BY DEF DeliveryInv, AmbientIsWhatWasSent

\* No reply comes on its way.
LEMMA BackedStays ==
  ASSUME DeliveryInv, NEW g \in Groups, UNCHANGED <<commands, offers>>,
         Queued(g)' \subseteq Queued(g), running' \subseteq running
  PROVE  RepliesAreBacked(g)'
<1>1. RepliesAreBacked(g) /\ PartTypes
  BY DEF DeliveryInv
<1>2. AmbientReplies(g)' = AmbientReplies(g) /\ Wakes(g)' = Wakes(g)
  BY DEF AmbientReplies, Wakes
<1>3. Generating(g)' \subseteq Generating(g)
  BY DEF Generating
<1>4. /\ IsFiniteSet(AmbientReplies(g)) /\ IsFiniteSet(Queued(g))
      /\ IsFiniteSet(Generating(g)) /\ IsFiniteSet(Wakes(g))
  BY <1>1, CountedFinite
<1>5. /\ Cardinality(Queued(g)') \in Nat /\ Cardinality(Queued(g)) \in Nat
      /\ Cardinality(Queued(g)') <= Cardinality(Queued(g))
  BY <1>4, CountNoMore
<1>6. /\ Cardinality(Generating(g)') \in Nat /\ Cardinality(Generating(g)) \in Nat
      /\ Cardinality(Generating(g)') <= Cardinality(Generating(g))
  BY <1>3, <1>4, CountNoMore
<1>7. Cardinality(AmbientReplies(g)) \in Nat /\ Cardinality(Wakes(g)) \in Nat
  BY <1>4, FS_CardinalityType
<1>8. Cardinality(AmbientReplies(g)) + Cardinality(Queued(g)') + Cardinality(Generating(g)')
        <= Cardinality(Wakes(g))
  BY <1>1, <1>5, <1>6, <1>7 DEF RepliesAreBacked
<1> QED BY <1>2, <1>8 DEF RepliesAreBacked

\* A queue that only lost items has no more of a group waiting.
LEMMA QueuedShrinks ==
  ASSUME NEW g, DOMAIN items' \subseteq DOMAIN items, \A t \in DOMAIN items' : items'[t] = items[t]
  PROVE  Queued(g)' \subseteq Queued(g)
BY DEF Queued

-----------------------------------------------------------------------------
(* The wake.                                                               *)

\* Nothing is accepted, offered or sent yet.
LEMMA InitInv == Init => DeliveryInv
<1> SUFFICES ASSUME Init PROVE DeliveryInv
  OBVIOUS
<1>1. /\ accepted = 0 /\ items = <<>> /\ ready = <<>> /\ issued = 0 /\ pending = <<>> /\ running = {}
      /\ offers = <<>> /\ commands = <<>> /\ fate = <<>> /\ ambient = <<>>
  BY DEF Init, AliasWake!Init, TaskStore!Init, Outbound!Init
<1>2. DOMAIN items = {} /\ DOMAIN pending = {} /\ DOMAIN offers = {} /\ DOMAIN commands = {}
      /\ DOMAIN ambient = {} /\ Len(commands) = 0
  BY <1>1
<1>3. offers \in Seq(Offer) /\ commands \in Seq(Command) /\ ambient \in Seq(AmbientLine) /\ ready \in Seq(Nat)
  BY <1>1, EmptySeq
<1>4. fate \in [DOMAIN commands -> Fates]
  BY <1>1, <1>2
<1>5. IsFiniteSet(running) /\ running = {}
  BY <1>1, FS_EmptySet
<1>6. PartTypes
  BY <1>1, <1>2, <1>3, <1>4, <1>5, DeliveryAssumption DEF PartTypes
<1>7. CommandsLeftTheQueue /\ OneCommandPerTask /\ AmbientIsWhatWasSent
  BY <1>1, <1>2 DEF CommandsLeftTheQueue, OneCommandPerTask, AmbientIsWhatWasSent
<1>8. ASSUME NEW g \in Groups PROVE RepliesAreBacked(g)
  <2>1. AmbientReplies(g) = {} /\ Queued(g) = {} /\ Generating(g) = {} /\ Wakes(g) = {}
    BY <1>2, <1>5 DEF AmbientReplies, Queued, Generating, Wakes
  <2>2. 0 + 0 + 0 <= 0 /\ Cardinality({}) = 0
    BY FS_EmptySet
  <2> QED BY <2>1, <2>2 DEF RepliesAreBacked
<1> QED BY <1>6, <1>7, <1>8 DEF DeliveryInv

\* A refused wake is only recorded; an admitted one begins a generation of its group.
LEMMA WakeFacts ==
  ASSUME NEW g \in Groups, NEW m \in Messages, Wake(g, m)
  PROVE  \E offer \in Offer :
           /\ offer.group = g /\ offers' = Append(offers, offer)
           /\ \/ offer.verdict # "DETECTED" /\ UNCHANGED running
              \/ /\ offer.verdict = "DETECTED"
                 /\ \E run : run.group = g /\ running' = running \cup {run}
<1>1. ASSUME NEW verdict \in {"DUPLICATE", "COOLDOWN", "SINGLE_FLIGHT", "DETECTED"}
      PROVE  [group |-> g, message |-> m, verdict |-> verdict] \in Offer
  BY DEF Offer
<1>2. CASE AliasWake!Duplicate(g, m) \/ AliasWake!Cooling(g, m) \/ AliasWake!SingleFlight(g, m)
  <2>1. PICK verdict \in {"DUPLICATE", "COOLDOWN", "SINGLE_FLIGHT"} :
          /\ offers' = Append(offers, [group |-> g, message |-> m, verdict |-> verdict])
          /\ UNCHANGED running
    BY <1>2 DEF AliasWake!Duplicate, AliasWake!Cooling, AliasWake!SingleFlight, AliasWake!Record
  <2> QED BY <1>1, <2>1
<1>3. CASE AliasWake!Detected(g, m)
  <2>1. /\ offers' = Append(offers, [group |-> g, message |-> m, verdict |-> "DETECTED"])
        /\ running' = running \cup {[group |-> g, message |-> m, startedAt |-> clock]}
    BY <1>3 DEF AliasWake!Detected, AliasWake!Record
  <2> QED BY <1>1, <2>1
<1> QED BY <1>2, <1>3 DEF Wake, AliasWake!Wake

\* handleOwnerAliasWake up to its generation: a reply on its way, and its wake.
LEMMA WakeInv ==
  ASSUME DeliveryInv, NEW g \in Groups, NEW m \in Messages, Wake(g, m)
  PROVE  DeliveryInv'
<1>1. PICK offer \in Offer :
        /\ offer.group = g /\ offers' = Append(offers, offer)
        /\ \/ offer.verdict # "DETECTED" /\ UNCHANGED running
           \/ /\ offer.verdict = "DETECTED"
              /\ \E run : run.group = g /\ running' = running \cup {run}
  BY WakeFacts
<1>2. UNCHANGED <<items, ready, accepted, claims, done, pending, finalized, expired, issued, settled,
                  commands, fate, ambient>>
  BY DEF Wake, queueVars, storeVars
<1>3. PartTypes /\ offers \in Seq(Offer)
  BY DEF DeliveryInv, PartTypes
<1>4. /\ offers' \in Seq(Offer) /\ DOMAIN offers' = DOMAIN offers \cup {Len(offers) + 1}
      /\ Len(offers) + 1 \notin DOMAIN offers /\ offers'[Len(offers) + 1] = offer
      /\ \A k \in DOMAIN offers : offers'[k] = offers[k]
  BY <1>1, <1>3, AppendShape
<1>5. IsFiniteSet(running') /\ \A run \in running' : run.group \in Groups
  <2>1. IsFiniteSet(running) /\ \A run \in running : run.group \in Groups
    BY <1>3 DEF PartTypes
  <2>2. CASE UNCHANGED running
    BY <2>1, <2>2
  <2>3. CASE \E run : run.group = g /\ running' = running \cup {run}
    <3>1. PICK run : run.group = g /\ running' = running \cup {run}
      BY <2>3
    <3>2. IsFiniteSet(running')
      BY <2>1, <3>1, FS_AddElement
    <3> QED BY <2>1, <3>1, <3>2
  <2> QED BY <1>1, <2>2, <2>3
<1>6. PartTypes'
  BY <1>2, <1>3, <1>4, <1>5 DEF PartTypes
<1>7. CommandsLeftTheQueue' /\ OneCommandPerTask' /\ AmbientIsWhatWasSent'
  BY <1>2 DEF DeliveryInv, CommandsLeftTheQueue, OneCommandPerTask, AmbientIsWhatWasSent
<1>8. ASSUME NEW h \in Groups PROVE RepliesAreBacked(h)'
  <2>1. AmbientReplies(h)' = AmbientReplies(h) /\ Queued(h)' = Queued(h)
    BY <1>2 DEF AmbientReplies, Queued
  <2>2. /\ IsFiniteSet(AmbientReplies(h)) /\ IsFiniteSet(Queued(h))
        /\ IsFiniteSet(Generating(h)) /\ IsFiniteSet(Wakes(h))
    BY <1>3, CountedFinite
  <2>3. /\ Cardinality(AmbientReplies(h)) \in Nat /\ Cardinality(Queued(h)) \in Nat
        /\ Cardinality(Generating(h)) \in Nat /\ Cardinality(Wakes(h)) \in Nat
    BY <2>2, FS_CardinalityType
  <2>4. RepliesAreBacked(h)
    BY DEF DeliveryInv
  <2>5. CASE offer.verdict = "DETECTED" /\ h = g
    <3>1. Wakes(h)' = Wakes(h) \cup {Len(offers) + 1} /\ Len(offers) + 1 \notin Wakes(h)
      BY <1>1, <1>4, <2>5 DEF Wakes
    <3>2. Cardinality(Wakes(h)') = Cardinality(Wakes(h)) + 1
      BY <2>2, <3>1, CountOneNew
    <3>3. PICK run : running' = running \cup {run}
      BY <1>1, <2>5
    <3>4. Generating(h)' \subseteq Generating(h) \cup {run}
      BY <3>3 DEF Generating
    <3>5. Cardinality(Generating(h)') \in Nat /\ Cardinality(Generating(h)') <= Cardinality(Generating(h)) + 1
      BY <2>2, <3>4, CountOneMore
    <3>6. Cardinality(AmbientReplies(h)) + Cardinality(Queued(h)) + Cardinality(Generating(h)')
            <= Cardinality(Wakes(h)')
      BY <2>3, <2>4, <3>2, <3>5 DEF RepliesAreBacked
    <3> QED BY <2>1, <3>6 DEF RepliesAreBacked
  <2>6. CASE ~(offer.verdict = "DETECTED" /\ h = g)
    <3>1. Wakes(h)' = Wakes(h)
      BY <1>1, <1>4, <2>6 DEF Wakes
    <3>2. Generating(h)' = Generating(h)
      BY <1>1, <2>6 DEF Generating
    <3> QED BY <2>1, <2>4, <3>1, <3>2 DEF RepliesAreBacked
  <2> QED BY <2>5, <2>6
<1> QED BY <1>6, <1>7, <1>8 DEF DeliveryInv

-----------------------------------------------------------------------------
(* The queue.                                                              *)

\* A task is put under a new number, or the full queue is only pruned.
LEMMA EnqueueFacts ==
  ASSUME PartTypes, NEW g \in Groups, NEW text \in Texts, NEW intent \in Intents,
         TaskStore!EnqueueAccepted(g, text, intent) \/ TaskStore!EnqueueRefused
  PROVE  /\ accepted \in Nat /\ accepted' \in 0 .. MaxTasks /\ accepted <= accepted' /\ ready' \in Seq(Nat)
         /\ DOMAIN items' \subseteq DOMAIN items \cup {accepted + 1} /\ DOMAIN items' \subseteq 1 .. accepted'
         /\ \A t \in DOMAIN items' :
              IF t = accepted + 1
              THEN items'[t].group = g /\ items'[t].text = text /\ items'[t].intent = intent
              ELSE t \in DOMAIN items /\ items'[t] = items[t]
<1>1. accepted \in 0 .. MaxTasks /\ MaxTasks \in Nat /\ DOMAIN items \subseteq 1 .. accepted /\ ready \in Seq(Nat)
  BY DeliveryAssumption DEF PartTypes
<1>2. TaskStore!Kept \subseteq DOMAIN items
  BY DEF TaskStore!Kept
<1>3. CASE TaskStore!EnqueueRefused
  BY <1>1, <1>2, <1>3 DEF TaskStore!EnqueueRefused, TaskStore!Prune, TaskStore!Restrict
<1>4. CASE TaskStore!EnqueueAccepted(g, text, intent)
  <2>1. /\ accepted < MaxTasks /\ accepted' = accepted + 1
        /\ items' = [t \in TaskStore!Kept \cup {accepted + 1} |->
                       IF t = accepted + 1
                       THEN [group |-> g, text |-> text, intent |-> intent,
                             createdAt |-> clock, status |-> "READY"]
                       ELSE items[t]]
    BY <1>4 DEF TaskStore!EnqueueAccepted
  <2>2. accepted + 1 \in 1 .. accepted' /\ accepted' \in 0 .. MaxTasks
    BY <1>1, <2>1
  <2>4. ready' \in Seq(Nat)
    BY <1>1, <1>4, AppendProperties DEF TaskStore!EnqueueAccepted
  <2>3. DOMAIN items' \subseteq DOMAIN items \cup {accepted + 1} /\ DOMAIN items' \subseteq 1 .. accepted'
    BY <1>1, <1>2, <2>1, <2>2
  <2> QED BY <1>1, <1>2, <2>1, <2>2, <2>3, <2>4
<1> QED BY <1>3, <1>4

\* The types after a task was put and a generation may have ended.
LEMMA EnqueueTypes ==
  ASSUME DeliveryInv, NEW g \in Groups, NEW text \in Texts, NEW intent \in Intents,
         TaskStore!EnqueueAccepted(g, text, intent) \/ TaskStore!EnqueueRefused,
         UNCHANGED <<storeVars, commands, fate, ambient, offers>>, running' \subseteq running
  PROVE  PartTypes' /\ CommandsLeftTheQueue' /\ OneCommandPerTask' /\ AmbientIsWhatWasSent'
<1>1. PartTypes
  BY DEF DeliveryInv
<1>2. /\ accepted' \in 0 .. MaxTasks /\ accepted <= accepted' /\ ready' \in Seq(Nat)
      /\ DOMAIN items' \subseteq DOMAIN items \cup {accepted + 1} /\ DOMAIN items' \subseteq 1 .. accepted'
  BY <1>1, EnqueueFacts
<1>3. \A t \in DOMAIN items' :
        items'[t].group \in Groups /\ items'[t].text \in Texts /\ items'[t].intent \in Intents
  <2>1. \A t \in DOMAIN items' :
          IF t = accepted + 1
          THEN items'[t].group = g /\ items'[t].text = text /\ items'[t].intent = intent
          ELSE t \in DOMAIN items /\ items'[t] = items[t]
    BY <1>1, EnqueueFacts
  <2> QED BY <1>1, <2>1 DEF PartTypes
<1>4. IsFiniteSet(running') /\ \A run \in running' : run.group \in Groups
  BY <1>1, FS_Subset DEF PartTypes
<1>5. PartTypes'
  BY <1>1, <1>2, <1>3, <1>4 DEF PartTypes, storeVars
<1>6. accepted' \in Nat
  BY <1>2
<1>7. CommandsLeftTheQueue' /\ OneCommandPerTask'
  BY <1>2, <1>6, CommandsStay DEF storeVars
<1>8. AmbientIsWhatWasSent'
  BY SentStays
<1> QED BY <1>5, <1>7, <1>8

\* The answer arrives in time: the reply on its way is in the queue now, or dropped.
LEMMA WakeAnsweredInv ==
  ASSUME DeliveryInv, NEW run \in running, NEW text \in Texts, WakeAnswered(run, text)
  PROVE  DeliveryInv'
<1> DEFINE Ambient == "AMBIENT_NAME_TRIGGERED_REPLY"
<1>1. PartTypes /\ run.group \in Groups /\ Ambient \in Intents
  BY DEF DeliveryInv, PartTypes, Intents
<1>2. /\ running' = running \ {run}
      /\ TaskStore!EnqueueAccepted(run.group, text, Ambient) \/ TaskStore!EnqueueRefused
      /\ UNCHANGED <<storeVars, commands, fate, ambient, offers>>
  BY DEF WakeAnswered, AliasWake!FinishGenerated, AliasWake!Finish
<1>3. PartTypes' /\ CommandsLeftTheQueue' /\ OneCommandPerTask' /\ AmbientIsWhatWasSent'
  BY <1>1, <1>2, EnqueueTypes
<1>4. /\ DOMAIN items' \subseteq DOMAIN items \cup {accepted + 1}
      /\ \A t \in DOMAIN items' :
           IF t = accepted + 1
           THEN items'[t].group = run.group /\ items'[t].text = text /\ items'[t].intent = Ambient
           ELSE t \in DOMAIN items /\ items'[t] = items[t]
  BY <1>1, <1>2, EnqueueFacts
<1>5. ASSUME NEW g \in Groups PROVE RepliesAreBacked(g)'
  <2>1. CASE g = run.group
    <3>1. AmbientReplies(g)' = AmbientReplies(g) /\ Wakes(g)' = Wakes(g)
      BY <1>2 DEF AmbientReplies, Wakes
    <3>2. Queued(g)' \subseteq Queued(g) \cup {accepted + 1}
      BY <1>4 DEF Queued
    <3>3. run \in Generating(g) /\ Generating(g)' \subseteq Generating(g) \ {run}
      BY <1>2, <2>1 DEF Generating
    <3>4. /\ IsFiniteSet(AmbientReplies(g)) /\ IsFiniteSet(Queued(g))
          /\ IsFiniteSet(Generating(g)) /\ IsFiniteSet(Wakes(g))
      BY <1>1, CountedFinite
    <3>5. /\ Cardinality(Queued(g)') \in Nat /\ Cardinality(Queued(g)) \in Nat
          /\ Cardinality(Queued(g)') <= Cardinality(Queued(g)) + 1
      BY <3>2, <3>4, CountOneMore
    <3>6. /\ Cardinality(Generating(g)') \in Nat /\ Cardinality(Generating(g)) \in Nat
          /\ Cardinality(Generating(g)') <= Cardinality(Generating(g)) - 1
      BY <3>3, <3>4, CountOneLess
    <3>7. Cardinality(AmbientReplies(g)) \in Nat /\ Cardinality(Wakes(g)) \in Nat
      BY <3>4, FS_CardinalityType
    <3>8. RepliesAreBacked(g)
      BY DEF DeliveryInv
    <3>9. Cardinality(AmbientReplies(g)) + Cardinality(Queued(g)') + Cardinality(Generating(g)')
            <= Cardinality(Wakes(g))
      BY <3>5, <3>6, <3>7, <3>8 DEF RepliesAreBacked
    <3> QED BY <3>1, <3>9 DEF RepliesAreBacked
  <2>2. CASE g # run.group
    <3>1. Queued(g)' \subseteq Queued(g)
      BY <1>4, <2>2 DEF Queued
    <3> QED BY <1>2, <3>1, BackedStays
  <2> QED BY <2>1, <2>2
<1> QED BY <1>3, <1>5 DEF DeliveryInv

\* The Owner's dispatch puts no name-triggered reply on its way.
LEMMA DispatchInv ==
  ASSUME DeliveryInv, NEW g \in Groups, NEW text \in Texts, Dispatch(g, text)
  PROVE  DeliveryInv'
<1> DEFINE Owner == "OWNER_COMMANDED_DISPATCH"
<1>1. PartTypes /\ Owner \in Intents
  BY DEF DeliveryInv, Intents
<1>2. /\ TaskStore!EnqueueAccepted(g, text, Owner) \/ TaskStore!EnqueueRefused
      /\ UNCHANGED <<storeVars, commands, fate, ambient, offers, running>>
  BY DEF Dispatch, wakeVars
<1>3. PartTypes' /\ CommandsLeftTheQueue' /\ OneCommandPerTask' /\ AmbientIsWhatWasSent'
  BY <1>1, <1>2, EnqueueTypes
<1>4. /\ DOMAIN items' \subseteq DOMAIN items \cup {accepted + 1}
      /\ \A t \in DOMAIN items' :
           IF t = accepted + 1
           THEN items'[t].group = g /\ items'[t].text = text /\ items'[t].intent = Owner
           ELSE t \in DOMAIN items /\ items'[t] = items[t]
  BY <1>1, <1>2, EnqueueFacts
<1>5. ASSUME NEW h \in Groups PROVE RepliesAreBacked(h)'
  <2>1. Queued(h)' \subseteq Queued(h)
    BY <1>4 DEF Queued
  <2> QED BY <1>2, <2>1, BackedStays
<1> QED BY <1>3, <1>5 DEF DeliveryInv

-----------------------------------------------------------------------------
(* The steps that take nothing further.                                    *)

\* What the parts need when the queue and the store only lose entries.
LEMMA LosingInv ==
  ASSUME DeliveryInv, UNCHANGED <<accepted, issued, offers, commands, ambient>>,
         DOMAIN items' \subseteq DOMAIN items, \A t \in DOMAIN items' : items'[t] = items[t],
         DOMAIN pending' \subseteq DOMAIN pending, \A i \in DOMAIN pending' : pending'[i] = pending[i],
         ready' \in Seq(Nat), running' \subseteq running,
         fate' \in [DOMAIN commands -> Fates],
         \A k \in DOMAIN commands : fate[k] = "SENT" => fate'[k] = "SENT"
  PROVE  DeliveryInv'
<1>1. PartTypes /\ accepted \in Nat
  BY DeliveryAssumption, SMTT(20) DEF DeliveryInv, PartTypes
<1>2. IsFiniteSet(running') /\ \A run \in running' : run.group \in Groups
  BY <1>1, FS_Subset DEF PartTypes
<1>3. PartTypes'
  BY <1>1, <1>2 DEF PartTypes
<1>4. CommandsLeftTheQueue' /\ OneCommandPerTask'
  BY <1>1, CommandsStay
<1>5. AmbientIsWhatWasSent'
  BY SentStays
<1>6. ASSUME NEW g \in Groups PROVE RepliesAreBacked(g)'
  BY QueuedShrinks, BackedStays
<1> QED BY <1>3, <1>4, <1>5, <1>6 DEF DeliveryInv

\* The provider fails or the deadline passes; the poll finds nothing; the runtime
\* decides; an acknowledgement is refused; time passes.
LEMMA QuietInv ==
  ASSUME DeliveryInv,
         \/ \E run \in running : WakeFailed(run)
         \/ PollNothing
         \/ \E id \in DOMAIN commands : \/ \E result \in {"SENT", "FAILED"} : RuntimeDecides(id, result)
                                        \/ AckRejected(id)
         \/ Tick
  PROVE  DeliveryInv'
<1>1. PartTypes
  BY DEF DeliveryInv
<1>2. ready \in Seq(Nat) /\ fate \in [DOMAIN commands -> Fates]
  BY <1>1 DEF PartTypes
<1>3. CASE \E run \in running : WakeFailed(run)
  <2>1. running' \subseteq running /\ UNCHANGED <<queueVars, storeVars, offers, commands, fate, ambient>>
    BY <1>3 DEF WakeFailed, AliasWake!FinishFailed, AliasWake!FinishExpired, AliasWake!Finish
  <2> QED BY <1>2, <2>1, LosingInv DEF queueVars, storeVars
<1>4. CASE PollNothing
  <2>1. /\ items' = Restrict(items, TaskStore!Kept) /\ ready' = <<>>
        /\ UNCHANGED <<accepted, wakeVars, storeVars, commands, fate, ambient>>
    BY <1>4 DEF PollNothing, TaskStore!ClaimNothing, TaskStore!Restrict, Restrict
  <2>2. DOMAIN items' \subseteq DOMAIN items /\ \A t \in DOMAIN items' : items'[t] = items[t]
    BY <2>1 DEF Restrict, TaskStore!Kept
  <2>3. ready' \in Seq(Nat)
    BY <2>1, EmptySeq
  <2> QED BY <1>2, <2>1, <2>2, <2>3, LosingInv DEF wakeVars, storeVars
<1>5. CASE \E id \in DOMAIN commands : \E result \in {"SENT", "FAILED"} : RuntimeDecides(id, result)
  <2>1. PICK id \in DOMAIN commands, result \in {"SENT", "FAILED"} : RuntimeDecides(id, result)
    BY <1>5
  <2>2. /\ fate[id] = "UNDECIDED" /\ fate' = [fate EXCEPT ![id] = result]
        /\ UNCHANGED <<wakeVars, queueVars, storeVars, commands, ambient>>
    BY <2>1 DEF RuntimeDecides
  <2>3. result \in Fates
    BY DEF Fates
  <2>4. fate' \in [DOMAIN commands -> Fates]
    BY <1>2, <2>2, <2>3
  <2>5. \A k \in DOMAIN commands : fate[k] = "SENT" => fate'[k] = "SENT"
    BY <1>2, <2>2
  <2> QED BY <1>2, <2>2, <2>4, <2>5, LosingInv DEF wakeVars, queueVars, storeVars
<1>6. CASE \E id \in DOMAIN commands : AckRejected(id)
  <2>1. PICK id \in DOMAIN commands : AckRejected(id)
    BY <1>6
  <2>2. /\ pending' = Restrict(pending, Outbound!Live)
        /\ UNCHANGED <<issued, wakeVars, queueVars, commands, fate, ambient>>
    BY <2>1 DEF AckRejected, Outbound!SettleRejected, Outbound!Restrict, Restrict
  <2>3. DOMAIN pending' \subseteq DOMAIN pending /\ \A i \in DOMAIN pending' : pending'[i] = pending[i]
    BY <2>2 DEF Restrict, Outbound!Live
  <2> QED BY <1>2, <2>2, <2>3, LosingInv DEF wakeVars, queueVars
<1>7. CASE Tick
  <2>1. UNCHANGED <<running, offers, items, ready, accepted, pending, issued, commands, fate, ambient>>
    BY <1>7 DEF Tick, AliasWake!Tick, TaskStore!Tick, Outbound!Tick
  <2> QED BY <1>2, <2>1, LosingInv
<1> QED BY <1>3, <1>4, <1>5, <1>6, <1>7

-----------------------------------------------------------------------------
(* The poll.                                                               *)

\* The task the poll finds is in the queue.
LEMMA FoundIsQueued ==
  ASSUME PartTypes, TaskStore!Claimable # {}
  PROVE  Found \in DOMAIN items
<1>1. DOMAIN ready \subseteq Nat
  BY DEF PartTypes
<1>2. TaskStore!Claimable \in SUBSET Nat
  BY <1>1 DEF TaskStore!Claimable
<1>3. TaskStore!FirstClaimable \in TaskStore!Claimable
  <2>1. PICK k \in TaskStore!Claimable : \A l \in TaskStore!Claimable : k <= l
    BY <1>2, LeastElement
  <2> QED BY <2>1 DEF TaskStore!FirstClaimable
<1> QED BY <1>3 DEF Found, TaskStore!Claimable, TaskStore!Kept

\* One task leaves the queue and is the next command, staged under its own number.
LEMMA PollFacts ==
  ASSUME PartTypes, PollTask
  PROVE  \E t \in DOMAIN items :
           /\ items' = Restrict(items, DOMAIN items') /\ DOMAIN items' \subseteq DOMAIN items \ {t}
           /\ commands' = Append(commands, [task |-> t, group |-> items[t].group,
                                            text |-> items[t].text, intent |-> items[t].intent])
           /\ fate' = Append(fate, "UNDECIDED")
           /\ issued < MaxTasks /\ issued' = issued + 1
           /\ DOMAIN pending' \subseteq DOMAIN pending \cup {issued + 1}
           /\ pending'[issued + 1].request = t /\ pending'[issued + 1].text = items[t].text
           /\ \A i \in DOMAIN pending' \ {issued + 1} : pending'[i] = pending[i]
           /\ ready' \in Seq(Nat)
           /\ UNCHANGED <<accepted, wakeVars, ambient>>
<1>1. /\ TaskStore!Claimable # {}
      /\ items' = Restrict(items, TaskStore!Kept \ {Found})
      /\ ready' = SubSeq(ready, TaskStore!FirstClaimable + 1, Len(ready))
      /\ Outbound!Stage(Found, items[Found].text)
      /\ commands' = Append(commands, [task |-> Found, group |-> items[Found].group,
                                       text |-> items[Found].text, intent |-> items[Found].intent])
      /\ fate' = Append(fate, "UNDECIDED")
      /\ UNCHANGED <<accepted, wakeVars, ambient>>
  BY DEF PollTask, PollStaging
<1>2. Found \in DOMAIN items
  BY <1>1, FoundIsQueued
<1>3. DOMAIN items' \subseteq DOMAIN items \ {Found} /\ items' = Restrict(items, DOMAIN items')
  BY <1>1 DEF Restrict, TaskStore!Kept
<1>4. /\ issued < MaxTasks /\ issued' = issued + 1
      /\ pending' = [i \in Outbound!Newest(Outbound!Live, StoreMax - 1) \cup {issued + 1} |->
                       IF i = issued + 1
                       THEN [request |-> Found, text |-> items[Found].text, stagedAt |-> clock]
                       ELSE pending[i]]
  BY <1>1 DEF Outbound!Stage, Outbound!StageKeeping
<1>5. Outbound!Newest(Outbound!Live, StoreMax - 1) \subseteq DOMAIN pending
  BY DEF Outbound!Newest, Outbound!Live
<1>6. /\ DOMAIN pending' \subseteq DOMAIN pending \cup {issued + 1}
      /\ pending'[issued + 1].request = Found /\ pending'[issued + 1].text = items[Found].text
      /\ \A i \in DOMAIN pending' \ {issued + 1} : pending'[i] = pending[i]
  BY <1>4, <1>5
<1>7. ready' \in Seq(Nat)
  <2>1. ready \in Seq(Nat) /\ TaskStore!FirstClaimable \in DOMAIN ready
    <3>1. ready \in Seq(Nat) /\ DOMAIN ready \subseteq Nat
      BY DEF PartTypes
    <3>2. TaskStore!Claimable \in SUBSET Nat
      BY <3>1 DEF TaskStore!Claimable
    <3>3. PICK k \in TaskStore!Claimable : \A l \in TaskStore!Claimable : k <= l
      BY <1>1, <3>2, LeastElement
    <3>4. TaskStore!FirstClaimable \in TaskStore!Claimable
      BY <3>3 DEF TaskStore!FirstClaimable
    <3> QED BY <3>1, <3>4 DEF TaskStore!Claimable
  <2>2. Len(ready) \in Nat /\ DOMAIN ready = 1 .. Len(ready)
    BY <2>1
  <2>3. TaskStore!FirstClaimable + 1 \in Int /\ \A i \in TaskStore!FirstClaimable + 1 .. Len(ready) : ready[i] \in Nat
    BY <2>1, <2>2, ElementOfSeq
  <2> QED BY <1>1, <2>2, <2>3, SubSeqProperties
<1> QED BY <1>1, <1>2, <1>3, <1>4, <1>6, <1>7

\* pollProactiveOutbound: what was queued is on its way no longer, and has become a
\* command that no earlier poll took.
LEMMA PollInv ==
  ASSUME DeliveryInv, PollTask
  PROVE  DeliveryInv'
<1>1. PartTypes /\ CommandsLeftTheQueue /\ OneCommandPerTask
  BY DEF DeliveryInv
<1>2. PICK t \in DOMAIN items :
           /\ items' = Restrict(items, DOMAIN items') /\ DOMAIN items' \subseteq DOMAIN items \ {t}
           /\ commands' = Append(commands, [task |-> t, group |-> items[t].group,
                                            text |-> items[t].text, intent |-> items[t].intent])
           /\ fate' = Append(fate, "UNDECIDED")
           /\ issued < MaxTasks /\ issued' = issued + 1
           /\ DOMAIN pending' \subseteq DOMAIN pending \cup {issued + 1}
           /\ pending'[issued + 1].request = t /\ pending'[issued + 1].text = items[t].text
           /\ \A i \in DOMAIN pending' \ {issued + 1} : pending'[i] = pending[i]
           /\ ready' \in Seq(Nat)
           /\ UNCHANGED <<accepted, wakeVars, ambient>>
  BY <1>1, PollFacts
<1> DEFINE c == [task |-> t, group |-> items[t].group, text |-> items[t].text, intent |-> items[t].intent]
           n == Len(commands) + 1
<1>3. \A u \in DOMAIN items' : u \in DOMAIN items /\ items'[u] = items[u]
  BY <1>2 DEF Restrict
<1>4. t \in 1 .. accepted /\ accepted \in 0 .. MaxTasks /\ MaxTasks \in Nat
  BY <1>1, DeliveryAssumption DEF PartTypes
<1>5. c \in Command
  <2>1. t \in Tasks
    BY <1>4 DEF Tasks
  <2>2. items[t].group \in Groups /\ items[t].text \in Texts /\ items[t].intent \in Intents
    BY <1>1 DEF PartTypes
  <2> QED BY <2>1, <2>2 DEF Command
<1>6. /\ commands' \in Seq(Command) /\ Len(commands) \in Nat /\ DOMAIN commands = 1 .. Len(commands)
      /\ DOMAIN commands' = DOMAIN commands \cup {n}
      /\ n \notin DOMAIN commands /\ Len(commands') = n /\ commands'[n] = c
      /\ \A k \in DOMAIN commands : commands'[k] = commands[k]
  <2>1. commands \in Seq(Command) /\ commands' = Append(commands, c)
    BY <1>1, <1>2 DEF PartTypes
  <2> HIDE DEF c
  <2> QED BY <1>5, <2>1, AppendShape
<1>7. /\ fate' \in [DOMAIN commands' -> Fates]
      /\ \A k \in DOMAIN commands : fate'[k] = fate[k]
  <2>1. commands \in Seq(Command) /\ commands' = Append(commands, c)
    BY <1>1, <1>2 DEF PartTypes
  <2>2. fate \in [DOMAIN commands -> Fates] /\ fate' = Append(fate, "UNDECIDED") /\ "UNDECIDED" \in Fates
    BY <1>1, <1>2 DEF PartTypes, Fates
  <2> HIDE DEF c
  <2>3. /\ Append(fate, "UNDECIDED") \in [DOMAIN Append(commands, c) -> Fates]
        /\ \A k \in DOMAIN commands : Append(fate, "UNDECIDED")[k] = fate[k]
    BY <1>5, <2>1, <2>2, FateGrows
  <2> QED BY <2>1, <2>2, <2>3
<1>8. issued = Len(commands) /\ issued' = n /\ DOMAIN pending \subseteq 1 .. issued
  BY <1>1, <1>2 DEF OneCommandPerTask, PartTypes
<1>9. PartTypes'
  <2>1. DOMAIN items' \subseteq 1 .. accepted' /\ accepted' \in 0 .. MaxTasks
    BY <1>1, <1>2, <1>3 DEF PartTypes
  <2>2. \A u \in DOMAIN items' :
          items'[u].group \in Groups /\ items'[u].text \in Texts /\ items'[u].intent \in Intents
    BY <1>1, <1>3 DEF PartTypes
  <2>3. issued' \in 0 .. MaxTasks /\ DOMAIN pending' \subseteq 1 .. issued'
    BY <1>2, <1>4, <1>6, <1>8
  <2>4. UNCHANGED <<running, offers, ambient>>
    BY <1>2 DEF wakeVars
  <2> QED BY <1>1, <1>2, <1>6, <1>7, <2>1, <2>2, <2>3, <2>4 DEF PartTypes
<1>10. CommandsLeftTheQueue'
  BY <1>1, <1>2, <1>4, <1>6 DEF CommandsLeftTheQueue
<1>11. OneCommandPerTask'
  <2>1. \A k \in DOMAIN commands : commands[k].task # t
    BY <1>1, <1>2 DEF CommandsLeftTheQueue
  <2>2. ASSUME NEW k \in DOMAIN commands', NEW l \in DOMAIN commands', commands'[k].task = commands'[l].task
        PROVE  k = l
    BY <1>1, <1>6, <2>1, <2>2 DEF OneCommandPerTask
  <2>3. Len(commands') = issued'
    BY <1>6, <1>8
  <2>4. ASSUME NEW i \in DOMAIN pending'
        PROVE  pending'[i].request = commands'[i].task /\ pending'[i].text = commands'[i].text
    <3>1. CASE i = n
      BY <1>2, <1>6, <1>8, <3>1
    <3>2. CASE i # n
      <4>1. i \in DOMAIN pending /\ pending'[i] = pending[i] /\ i \in DOMAIN commands
        BY <1>2, <1>6, <1>8, <3>2
      <4> QED BY <1>1, <1>6, <4>1 DEF OneCommandPerTask
    <3> QED BY <3>1, <3>2
  <2> QED BY <2>2, <2>3, <2>4 DEF OneCommandPerTask
<1>12. AmbientIsWhatWasSent'
  BY <1>2, <1>6, <1>7, SentStays
<1>13. ASSUME NEW g \in Groups PROVE RepliesAreBacked(g)'
  <2>1. /\ Wakes(g)' = Wakes(g) /\ Generating(g)' = Generating(g)
    BY <1>2 DEF Wakes, Generating, wakeVars
  <2>2. Queued(g)' \subseteq Queued(g) \ {t}
    BY <1>2, <1>3 DEF Queued
  <2>3. /\ IsFiniteSet(AmbientReplies(g)) /\ IsFiniteSet(Queued(g))
        /\ IsFiniteSet(Generating(g)) /\ IsFiniteSet(Wakes(g))
    BY <1>1, CountedFinite
  <2>4. Cardinality(Generating(g)) \in Nat /\ Cardinality(Wakes(g)) \in Nat
    BY <2>3, FS_CardinalityType
  <2>5. RepliesAreBacked(g)
    BY DEF DeliveryInv
  <2>6. CASE t \in Queued(g)
    <3>1. AmbientReplies(g)' \subseteq AmbientReplies(g) \cup {n}
      BY <1>6 DEF AmbientReplies
    <3>2. /\ Cardinality(AmbientReplies(g)') \in Nat /\ Cardinality(AmbientReplies(g)) \in Nat
          /\ Cardinality(AmbientReplies(g)') <= Cardinality(AmbientReplies(g)) + 1
      BY <2>3, <3>1, CountOneMore
    <3>3. /\ Cardinality(Queued(g)') \in Nat /\ Cardinality(Queued(g)) \in Nat
          /\ Cardinality(Queued(g)') <= Cardinality(Queued(g)) - 1
      BY <2>2, <2>3, <2>6, CountOneLess
    <3>4. Cardinality(AmbientReplies(g)') + Cardinality(Queued(g)') + Cardinality(Generating(g))
            <= Cardinality(Wakes(g))
      BY <2>4, <2>5, <3>2, <3>3 DEF RepliesAreBacked
    <3> QED BY <2>1, <3>4 DEF RepliesAreBacked
  <2>7. CASE t \notin Queued(g)
    <3>1. AmbientReplies(g)' \subseteq AmbientReplies(g)
      BY <1>6, <2>7 DEF AmbientReplies, Queued
    <3>2. /\ Cardinality(AmbientReplies(g)') \in Nat /\ Cardinality(AmbientReplies(g)) \in Nat
          /\ Cardinality(AmbientReplies(g)') <= Cardinality(AmbientReplies(g))
      BY <2>3, <3>1, CountNoMore
    <3>3. /\ Cardinality(Queued(g)') \in Nat /\ Cardinality(Queued(g)) \in Nat
          /\ Cardinality(Queued(g)') <= Cardinality(Queued(g))
      <4>1. Queued(g)' \subseteq Queued(g)
        BY <2>2
      <4> QED BY <2>3, <4>1, CountNoMore
    <3>4. Cardinality(AmbientReplies(g)') + Cardinality(Queued(g)') + Cardinality(Generating(g))
            <= Cardinality(Wakes(g))
      BY <2>4, <2>5, <3>2, <3>3 DEF RepliesAreBacked
    <3> QED BY <2>1, <3>4 DEF RepliesAreBacked
  <2> QED BY <2>6, <2>7
<1> QED BY <1>9, <1>10, <1>11, <1>12, <1>13 DEF DeliveryInv

-----------------------------------------------------------------------------
(* The acknowledgement.                                                    *)

\* The line of an accepted acknowledgement is the command's own text.
LEMMA LineIsTheCommand ==
  ASSUME DeliveryInv, NEW id \in DOMAIN commands, AckAccepted(id)
  PROVE  /\ id \in DOMAIN pending
         /\ Line(id) = [task |-> commands[id].task, group |-> commands[id].group,
                        text |-> commands[id].text]
<1>1. Outbound!Verdict(AckOf(id)) \in {"SENT_COMMITTED", "FAILED_DISCARDED"}
  BY DEF AckAccepted, AckRecording, Outbound!SettleAccepted, Outbound!SettleLeaving, Outbound!Accepted
<1>2. AckOf(id).id = id
  BY DEF AckOf
<1>3. id \in Outbound!Live
  BY <1>1, <1>2 DEF Outbound!Verdict
<1>4. id \in DOMAIN pending
  BY <1>3 DEF Outbound!Live
<1>5. pending[id].text = commands[id].text
  BY <1>4 DEF DeliveryInv, OneCommandPerTask
<1> QED BY <1>4, <1>5 DEF Line

\* observeOutboundDelivery: the reply settles, and a sent one enters the transcript.
LEMMA AckAcceptedInv ==
  ASSUME DeliveryInv, NEW id \in DOMAIN commands, AckAccepted(id)
  PROVE  DeliveryInv'
<1> DEFINE line == [task |-> commands[id].task, group |-> commands[id].group, text |-> commands[id].text]
<1>1. PartTypes /\ AmbientIsWhatWasSent /\ accepted \in Nat
  BY DeliveryAssumption, SMTT(20) DEF DeliveryInv, PartTypes
<1>2. id \in DOMAIN pending /\ Line(id) = line
  BY LineIsTheCommand
<1>3. /\ pending' = Restrict(pending, Outbound!Live \ {id})
      /\ ambient' = IF fate[id] = "SENT" THEN AppendLine(line) ELSE ambient
      /\ UNCHANGED <<issued, wakeVars, queueVars, commands, fate>>
  <2>1. AckOf(id).id = id
    BY DEF AckOf
  <2>2. /\ Outbound!SettleLeaving(AckOf(id), Outbound!Live \ {AckOf(id).id})
        /\ ambient' = IF fate[id] = "SENT" THEN AppendLine(Line(id)) ELSE ambient
        /\ UNCHANGED <<wakeVars, queueVars, commands, fate>>
    BY DEF AckAccepted, AckRecording, Outbound!SettleAccepted
  <2> QED BY <1>2, <2>1, <2>2 DEF Outbound!SettleLeaving, Outbound!Restrict, Restrict
<1>4. DOMAIN pending' \subseteq DOMAIN pending /\ \A i \in DOMAIN pending' : pending'[i] = pending[i]
  BY <1>3 DEF Restrict, Outbound!Live
<1>5. line \in AmbientLine
  <2>1. commands[id] \in Command
    BY <1>1, ElementOfSeq DEF PartTypes
  <2> QED BY <2>1 DEF Command, AmbientLine
<1>6. ambient' \in Seq(AmbientLine) /\ AmbientIsWhatWasSent'
  <2>1. CASE ambient' = ambient
    <3>1. AmbientIsWhatWasSent'
      BY <1>3, <2>1, SentStays
    <3> QED BY <1>1, <2>1, <3>1 DEF PartTypes
  <2>2. CASE ambient' # ambient
    <3>1. /\ fate[id] = "SENT" /\ ambient' = Append(ambient, line)
          /\ \A k \in DOMAIN ambient : ambient[k].task # line.task
      BY <1>3, <2>2 DEF AppendLine
    <3>2. ambient \in Seq(AmbientLine)
      BY <1>1 DEF PartTypes
    <3>3. /\ ambient' \in Seq(AmbientLine) /\ DOMAIN ambient' = DOMAIN ambient \cup {Len(ambient) + 1}
          /\ Len(ambient) + 1 \notin DOMAIN ambient /\ ambient'[Len(ambient) + 1] = line
          /\ \A k \in DOMAIN ambient : ambient'[k] = ambient[k]
      <4> HIDE DEF line
      <4> QED BY <1>5, <3>1, <3>2, AppendShape
    <3>4. ASSUME NEW k \in DOMAIN ambient'
          PROVE  \E i \in DOMAIN commands' :
                   /\ fate'[i] = "SENT"
                   /\ ambient'[k] = [task |-> commands'[i].task, group |-> commands'[i].group,
                                     text |-> commands'[i].text]
      BY <1>1, <1>3, <3>1, <3>3, ZenonT(30) DEF AmbientIsWhatWasSent
    <3>5. ASSUME NEW k \in DOMAIN ambient', NEW l \in DOMAIN ambient', ambient'[k].task = ambient'[l].task
          PROVE  k = l
      BY <1>1, <3>1, <3>3, <3>5 DEF AmbientIsWhatWasSent
    <3> QED BY <3>3, <3>4, <3>5 DEF AmbientIsWhatWasSent
  <2> QED BY <2>1, <2>2
<1>7. UNCHANGED <<accepted, items, ready, running, offers>>
  BY <1>3 DEF wakeVars, queueVars
<1>8. PartTypes'
  BY <1>1, <1>3, <1>4, <1>6, <1>7 DEF PartTypes
<1>9. CommandsLeftTheQueue' /\ OneCommandPerTask'
  <2>1. accepted' \in Nat /\ accepted <= accepted' /\ DOMAIN items' \subseteq DOMAIN items \cup {accepted + 1}
    BY <1>1, <1>7
  <2> HIDE DEF line
  <2> QED BY <1>3, <1>4, <2>1, CommandsStay
<1>10. ASSUME NEW g \in Groups PROVE RepliesAreBacked(g)'
  <2>1. Queued(g)' = Queued(g)
    BY <1>7 DEF Queued
  <2> QED BY <1>3, <1>7, <2>1, BackedStays
<1> QED BY <1>6, <1>8, <1>9, <1>10 DEF DeliveryInv

-----------------------------------------------------------------------------
(* The theorems.                                                           *)

\* Every step of the path preserves the invariant.
LEMMA NextInv == DeliveryInv /\ [Next]_vars => DeliveryInv'
<1> SUFFICES ASSUME DeliveryInv, [Next]_vars PROVE DeliveryInv'
  OBVIOUS
<1>1. CASE \E g \in Groups, m \in Messages : Wake(g, m)
  BY <1>1, WakeInv
<1>2. CASE \E run \in running : \E text \in Texts : WakeAnswered(run, text)
  BY <1>2, WakeAnsweredInv
<1>3. CASE \E g \in Groups, text \in Texts : Dispatch(g, text)
  BY <1>3, DispatchInv
<1>4. CASE PollTask
  BY <1>4, PollInv
<1>5. CASE \E id \in DOMAIN commands : AckAccepted(id)
  BY <1>5, AckAcceptedInv
<1>6. CASE \/ \E run \in running : WakeFailed(run)
           \/ PollNothing
           \/ \E id \in DOMAIN commands : \/ \E result \in {"SENT", "FAILED"} : RuntimeDecides(id, result)
                                          \/ AckRejected(id)
           \/ Tick
  BY <1>6, QuietInv
<1>7. CASE UNCHANGED vars
  <2>1. UNCHANGED <<items, ready, accepted, running, offers, pending, issued, commands, fate, ambient>>
    BY <1>7 DEF vars, wakeVars, queueVars, storeVars
  <2>2. ready \in Seq(Nat) /\ fate \in [DOMAIN commands -> Fates]
    BY DEF DeliveryInv, PartTypes
  <2> QED BY <2>1, <2>2, LosingInv
<1> QED BY <1>1, <1>2, <1>3, <1>4, <1>5, <1>6, <1>7 DEF Next

\* The inductive invariant of the whole path, for every number of groups, messages,
\* tasks and every limit.
THEOREM DeliveryInvariance == Spec => []DeliveryInv
BY InitInv, NextInv, PTL DEF Spec

\* Generated is not sent (observeOutboundDelivery): the transcript of a group holds
\* a line only for a command the runtime sent there, with that text, and only once.
THEOREM TranscriptHoldsOnlyWhatWasSent == Spec => []AmbientIsWhatWasSent
<1>1. DeliveryInv => AmbientIsWhatWasSent
  BY DEF DeliveryInv
<1> QED BY <1>1, DeliveryInvariance, PTL

\* Polling again never repeats a task, and each command is the reply staged under
\* its number (pollProactiveOutbound).
THEOREM PollingNeverRepeats == Spec => []OneCommandPerTask
<1>1. DeliveryInv => OneCommandPerTask
  BY DEF DeliveryInv
<1> QED BY <1>1, DeliveryInvariance, PTL

\* No group receives more name-triggered messages than it had admitted wakes
\* (handleOwnerAliasWake, ProactiveGroupQueue, pollProactiveOutbound together).
THEOREM NoReplyWithoutAWake == Spec => []RepliesNeedWakes
<1>1. ASSUME DeliveryInv PROVE RepliesNeedWakes
  <2>1. SUFFICES ASSUME NEW g \in Groups
                 PROVE  Cardinality(AmbientReplies(g)) <= Cardinality(Wakes(g))
    BY DEF RepliesNeedWakes
  <2>2. /\ IsFiniteSet(AmbientReplies(g)) /\ IsFiniteSet(Queued(g))
        /\ IsFiniteSet(Generating(g)) /\ IsFiniteSet(Wakes(g))
    BY <1>1, CountedFinite DEF DeliveryInv
  <2>3. /\ Cardinality(AmbientReplies(g)) \in Nat /\ Cardinality(Queued(g)) \in Nat
        /\ Cardinality(Generating(g)) \in Nat /\ Cardinality(Wakes(g)) \in Nat
    BY <2>2, FS_CardinalityType
  <2>4. RepliesAreBacked(g)
    BY <1>1 DEF DeliveryInv
  <2> QED BY <2>3, <2>4 DEF RepliesAreBacked
<1> QED BY <1>1, DeliveryInvariance, PTL

-----------------------------------------------------------------------------
(* The path drives the wake and the store only through their operations,   *)
(* so what is proved of them alone holds on the path.                      *)

WakeProofs == INSTANCE OwnerAliasWakeProofs

\* Every step of the path is a step of the wake or leaves it alone.
LEMMA PathStepsTheWake == [Next]_vars => [AliasWake!Next]_(AliasWake!vars)
<1> SUFFICES ASSUME [Next]_vars, ~ UNCHANGED AliasWake!vars
             PROVE  AliasWake!Next
  OBVIOUS
<1>1. CASE \E g \in Groups, m \in Messages : Wake(g, m)
  BY <1>1 DEF Wake, AliasWake!Next
<1>2. CASE \E run \in running : (\E text \in Texts : WakeAnswered(run, text)) \/ WakeFailed(run)
  BY <1>2 DEF WakeAnswered, WakeFailed, AliasWake!Next
<1>3. CASE Tick
  BY <1>3 DEF Tick, AliasWake!Next
<1>4. CASE \E g \in Groups, text \in Texts : Dispatch(g, text)
  <2>1. UNCHANGED <<clock, wakeVars>>
    BY <1>4 DEF Dispatch, TaskStore!EnqueueAccepted, TaskStore!EnqueueRefused, TaskStore!Prune
  <2> QED BY <2>1 DEF wakeVars, AliasWake!vars
<1>5. CASE PollTask
  <2>1. UNCHANGED <<clock, wakeVars>>
    BY <1>5 DEF PollTask, PollStaging, Outbound!Stage, Outbound!StageKeeping
  <2> QED BY <2>1 DEF wakeVars, AliasWake!vars
<1>6. CASE PollNothing
  <2>1. UNCHANGED <<clock, wakeVars>>
    BY <1>6 DEF PollNothing, TaskStore!ClaimNothing
  <2> QED BY <2>1 DEF wakeVars, AliasWake!vars
<1>7. CASE \E id \in DOMAIN commands : \/ \E result \in {"SENT", "FAILED"} : RuntimeDecides(id, result)
                                       \/ AckAccepted(id) \/ AckRejected(id)
  <2>1. UNCHANGED <<clock, wakeVars>>
    BY <1>7 DEF RuntimeDecides, AckAccepted, AckRecording, AckRejected, Outbound!SettleAccepted,
                Outbound!SettleLeaving, Outbound!SettleRejected
  <2> QED BY <2>1 DEF wakeVars, AliasWake!vars
<1>8. CASE UNCHANGED vars
  BY <1>8 DEF vars, wakeVars, AliasWake!vars
<1> QED BY <1>1, <1>2, <1>3, <1>4, <1>5, <1>6, <1>7, <1>8 DEF Next

\* Every step of the path is a step of the store or leaves it alone.
LEMMA PathStepsTheStore == DeliveryInv /\ [Next]_vars => [Outbound!Next]_(Outbound!vars)
<1> SUFFICES ASSUME DeliveryInv, [Next]_vars, ~ UNCHANGED Outbound!vars
             PROVE  Outbound!Next
  OBVIOUS
<1>1. CASE \E g \in Groups, m \in Messages : Wake(g, m)
  <2>1. UNCHANGED <<clock, storeVars>>
    BY <1>1 DEF Wake, AliasWake!Wake, AliasWake!Duplicate, AliasWake!Cooling, AliasWake!SingleFlight,
                AliasWake!Detected
  <2> QED BY <2>1 DEF storeVars, Outbound!vars
<1>2. CASE \E run \in running : (\E text \in Texts : WakeAnswered(run, text)) \/ WakeFailed(run)
  <2>1. UNCHANGED <<clock, storeVars>>
    BY <1>2 DEF WakeAnswered, WakeFailed, AliasWake!FinishGenerated, AliasWake!FinishFailed,
                AliasWake!FinishExpired, AliasWake!Finish
  <2> QED BY <2>1 DEF storeVars, Outbound!vars
<1>3. CASE Tick
  BY <1>3 DEF Tick, Outbound!Next
<1>4. CASE \E g \in Groups, text \in Texts : Dispatch(g, text)
  <2>1. UNCHANGED <<clock, storeVars>>
    BY <1>4 DEF Dispatch, TaskStore!EnqueueAccepted, TaskStore!EnqueueRefused, TaskStore!Prune
  <2> QED BY <2>1 DEF storeVars, Outbound!vars
<1>5. CASE PollTask
  <2>1. Found \in DOMAIN items /\ Outbound!Stage(Found, items[Found].text)
    BY <1>5, FoundIsQueued DEF PollTask, PollStaging, DeliveryInv
  <2>2. Found \in Tasks /\ items[Found].text \in Texts
    BY <2>1, DeliveryAssumption, SMTT(20) DEF DeliveryInv, PartTypes, Tasks
  <2> QED BY <2>1, <2>2 DEF Outbound!Next
<1>6. CASE PollNothing
  <2>1. UNCHANGED <<clock, storeVars>>
    BY <1>6 DEF PollNothing, TaskStore!ClaimNothing
  <2> QED BY <2>1 DEF storeVars, Outbound!vars
<1>7. CASE \E id \in DOMAIN commands : \E result \in {"SENT", "FAILED"} : RuntimeDecides(id, result)
  <2>1. UNCHANGED <<clock, storeVars>>
    BY <1>7 DEF RuntimeDecides
  <2> QED BY <2>1 DEF storeVars, Outbound!vars
<1>8. CASE \E id \in DOMAIN commands : AckAccepted(id) \/ AckRejected(id)
  <2>1. PICK id \in DOMAIN commands : fate[id] # "UNDECIDED" /\ Outbound!Settle(AckOf(id))
    BY <1>8 DEF AckAccepted, AckRecording, AckRejected, Outbound!Settle
  <2>2. commands \in Seq(Command) /\ fate \in [DOMAIN commands -> Fates]
        /\ Len(commands) = issued /\ issued \in 0 .. MaxTasks /\ MaxTasks \in Nat
    BY DeliveryAssumption DEF DeliveryInv, PartTypes, OneCommandPerTask
  <2>3. id \in 0 .. MaxTasks
    BY <2>2
  <2>4. commands[id] \in Command /\ fate[id] \in {"SENT", "FAILED"}
    BY <2>1, <2>2, ElementOfSeq DEF Fates
  <2>5. AckOf(id) \in Outbound!Ack
    BY <2>3, <2>4 DEF AckOf, Command, Outbound!Ack
  <2> QED BY <2>1, <2>5 DEF Outbound!Next
<1>9. CASE UNCHANGED vars
  BY <1>9 DEF vars, storeVars, Outbound!vars
<1> QED BY <1>1, <1>2, <1>3, <1>4, <1>5, <1>6, <1>7, <1>8, <1>9 DEF Next

\* The path implements the wake and the pending store (the receiver calls the gate,
\* the single flight and the store, and changes them in no other way).
THEOREM PathImplementsItsParts == Spec => AliasWake!Spec /\ Outbound!Spec
<1>1. Init => AliasWake!Init /\ Outbound!Init
  BY DEF Init
<1> QED BY <1>1, PathStepsTheWake, PathStepsTheStore, DeliveryInvariance,
           PTL DEF Spec, AliasWake!Spec, Outbound!Spec

\* So the whole path, too, generates once at a time per group and takes a message
\* for a new one again only after SeenLimit others were.
THEOREM WakesAreSafeOnThePath ==
  Spec => [](WakeProofs!SingleFlightPerGroup /\ WakeProofs!RedeliveryForgottenOnlyWhenFull)
<1>1. WakeProofs!Init <=> AliasWake!Init
  BY DEF WakeProofs!Init, AliasWake!Init, WakeProofs!Never, AliasWake!Never
<1>2. \A g \in Groups, m \in Messages : WakeProofs!Wake(g, m) <=> AliasWake!Wake(g, m)
  BY DEF WakeProofs!Wake, AliasWake!Wake, WakeProofs!Duplicate, AliasWake!Duplicate,
        WakeProofs!Cooling, AliasWake!Cooling, WakeProofs!SingleFlight,
        AliasWake!SingleFlight, WakeProofs!Detected, AliasWake!Detected,
        WakeProofs!IsDuplicate, AliasWake!IsDuplicate, WakeProofs!IsCooling,
        AliasWake!IsCooling, WakeProofs!Remember, AliasWake!Remember, WakeProofs!Record,
        AliasWake!Record, WakeProofs!Never, AliasWake!Never, WakeProofs!Contains,
        AliasWake!Contains
<1>3. \A run \in running :
        (WakeProofs!FinishGenerated(run) \/ WakeProofs!FinishFailed(run) \/ WakeProofs!FinishExpired(run))
          <=> (AliasWake!FinishGenerated(run) \/ AliasWake!FinishFailed(run) \/ AliasWake!FinishExpired(run))
  BY DEF WakeProofs!FinishGenerated, AliasWake!FinishGenerated, WakeProofs!FinishFailed,
        AliasWake!FinishFailed, WakeProofs!FinishExpired, AliasWake!FinishExpired,
        WakeProofs!Finish, AliasWake!Finish, WakeProofs!Expired, AliasWake!Expired
<1>4. [AliasWake!Next]_(AliasWake!vars) => [WakeProofs!Next]_(WakeProofs!vars)
  BY <1>2, <1>3 DEF WakeProofs!Next, AliasWake!Next, WakeProofs!vars, AliasWake!vars,
        WakeProofs!Tick, AliasWake!Tick
<1>5. WakeProofs!WakeAssumption
  BY DeliveryAssumption DEF WakeProofs!WakeAssumption
<1>6. WakeProofs!Spec => [](WakeProofs!SingleFlightPerGroup)
  BY <1>5, WakeProofs!OneGenerationPerGroup
<1>7. WakeProofs!Spec => [](WakeProofs!RedeliveryForgottenOnlyWhenFull)
  BY <1>5, WakeProofs!MemoryIsNeverCutShort
<1> QED BY <1>1, <1>4, <1>6, <1>7, PathImplementsItsParts,
           PTL DEF AliasWake!Spec, WakeProofs!Spec
=============================================================================
