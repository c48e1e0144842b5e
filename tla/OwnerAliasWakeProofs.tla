------------------------ MODULE OwnerAliasWakeProofs ------------------------
(***************************************************************************)
(* Proofs about the alias wake, for every number of groups and messages,   *)
(* every size of the duplicate memory, cooldown and budget: one generation *)
(* of a group at a time, and a memory that forgets only when it is full.   *)
(***************************************************************************)
EXTENDS OwnerAliasWake, SequenceTheorems, FiniteSetTheorems, TLAPS

Distinct(s) == \A i, j \in DOMAIN s : s[i] = s[j] => i = j

After(s, i) == {s[j] : j \in i + 1 .. Len(s)}

\* t is s with m behind it, without the first d elements.
Pushed(s, t, m, d) ==
  /\ d <= Len(s) /\ Len(t) = Len(s) + 1 - d
  /\ \A j \in 1 .. Len(s) - d : t[j] = s[j + d]
  /\ t[Len(s) + 1 - d] = m

NewSince(k, g) == NewBetween(k, Len(offers) + 1, g)

\* What a group's list says of an attempt k that was taken for a new one: its
\* message is still in the list, and what stands behind it came after k, or the
\* list was filled with other messages since.
StillKnown(k, g) ==
  \E i \in DOMAIN seen[g] :
    seen[g][i] = offers[k].message /\ After(seen[g], i) \subseteq NewSince(k, g)

Displaced(k, g) == Cardinality(NewSince(k, g) \ {offers[k].message}) >= SeenLimit

MemoryOf(g) ==
  /\ Len(seen[g]) <= SeenLimit
  /\ Distinct(seen[g])
  /\ \A k \in TakenAsNew(g) : StillKnown(k, g) \/ Displaced(k, g)

MemoryIsOfTheNewest == \A g \in Groups : MemoryOf(g)

WakeInv ==
  /\ TypeOK
  /\ SingleFlightPerGroup
  /\ MemoryIsOfTheNewest
  /\ RedeliveryForgottenOnlyWhenFull

-----------------------------------------------------------------------------
(* Facts about the helpers.                                                *)

\* A stretch of a list without repetitions has as many elements as positions.
LEMMA DistinctCount ==
  ASSUME NEW S, NEW s \in Seq(S), Distinct(s), NEW a \in Nat, a <= Len(s)
  PROVE  IsFiniteSet(After(s, a)) /\ Cardinality(After(s, a)) = Len(s) - a
<1>1. Len(s) \in Nat /\ DOMAIN s = 1 .. Len(s)
  OBVIOUS
<1>2. a + 1 .. Len(s) \subseteq DOMAIN s
  BY <1>1
<1> DEFINE f == [j \in a + 1 .. Len(s) |-> s[j]]
<1>3. f \in Bijection(a + 1 .. Len(s), After(s, a))
  BY <1>2 DEF Bijection, Injection, Surjection, IsInjective, After, Distinct
<1>4. ExistsBijection(a + 1 .. Len(s), After(s, a))
  BY <1>3 DEF ExistsBijection
<1>5. a + 1 \in Int /\ Len(s) \in Int
  BY <1>1
<1>6. /\ IsFiniteSet(a + 1 .. Len(s))
      /\ Cardinality(a + 1 .. Len(s)) = IF a + 1 > Len(s) THEN 0 ELSE Len(s) - (a + 1) + 1
  BY <1>5, FS_Interval
<1>7. Cardinality(a + 1 .. Len(s)) = Len(s) - a
  BY <1>1, <1>6
<1> QED BY <1>4, <1>6, <1>7, FS_Bijection

\* Remembering appends the id, and gives up the first one when the list is full.
LEMMA RememberShape ==
  ASSUME NEW s \in Seq(Messages), NEW m \in Messages, Len(s) <= SeenLimit
  PROVE  \E d \in 0 .. 1 :
           /\ d = 1 <=> Len(s) = SeenLimit
           /\ Remember(s, m) \in Seq(Messages)
           /\ Pushed(s, Remember(s, m), m, d)
<1>1. Len(s) \in Nat /\ SeenLimit \in Nat \ {0}
  BY WakeAssumption
<1>2. CASE Len(s) = SeenLimit
  <2>1. s # <<>>
    BY <1>1, <1>2, EmptySeq
  <2>2. /\ Tail(s) \in Seq(Messages) /\ Len(Tail(s)) = Len(s) - 1
        /\ \A j \in 1 .. Len(s) - 1 : Tail(s)[j] = s[j + 1]
    BY <2>1, HeadTailProperties
  <2>3. Remember(s, m) = Append(Tail(s), m)
    BY <1>1, <1>2 DEF Remember
  <2>4. /\ Append(Tail(s), m) \in Seq(Messages) /\ Len(Append(Tail(s), m)) = Len(s)
        /\ \A j \in 1 .. Len(s) - 1 : Append(Tail(s), m)[j] = Tail(s)[j]
        /\ Append(Tail(s), m)[Len(s)] = m
    BY <1>1, <2>2, AppendProperties
  <2> QED BY <1>1, <1>2, <2>2, <2>3, <2>4 DEF Pushed
<1>3. CASE Len(s) # SeenLimit
  <2>1. Remember(s, m) = Append(s, m)
    BY <1>1, <1>3 DEF Remember
  <2>2. /\ Append(s, m) \in Seq(Messages) /\ Len(Append(s, m)) = Len(s) + 1
        /\ \A j \in 1 .. Len(s) : Append(s, m)[j] = s[j]
        /\ Append(s, m)[Len(s) + 1] = m
    BY AppendProperties
  <2> QED BY <1>1, <1>3, <2>1, <2>2 DEF Pushed
<1> QED BY <1>2, <1>3

\* What putting an id that is not in the list behind it, without its first one or
\* with it, does to the others: they stay distinct, and each but the one given up
\* keeps those behind it, with the new one added.
LEMMA PushKeepsOrder ==
  ASSUME NEW s \in Seq(Messages), NEW t \in Seq(Messages), NEW m, NEW d \in 0 .. 1,
         Distinct(s), ~Contains(s, m), Pushed(s, t, m, d)
  PROVE  /\ Distinct(t)
         /\ \E i \in DOMAIN t : t[i] = m /\ After(t, i) = {}
         /\ \A i \in d + 1 .. Len(s) :
              \E j \in DOMAIN t : t[j] = s[i] /\ After(t, j) \subseteq After(s, i) \cup {m}
<1>1. /\ Len(s) \in Nat /\ DOMAIN s = 1 .. Len(s) /\ d \in Int
      /\ DOMAIN t = 1 .. Len(s) + 1 - d /\ d <= Len(s)
  BY DEF Pushed
<1>2. Len(t) = Len(s) + 1 - d /\ t[Len(s) + 1 - d] = m
  BY DEF Pushed
<1>3. \A j \in 1 .. Len(s) - d : t[j] = s[j + d]
  BY DEF Pushed
<1>4. \A i \in 1 .. Len(s) : s[i] # m
  BY DEF Contains
<1>5. Distinct(t)
  <2> SUFFICES ASSUME NEW i \in DOMAIN t, NEW j \in DOMAIN t, t[i] = t[j] PROVE i = j
    BY DEF Distinct
  <2>1. CASE i = Len(s) + 1 - d /\ j = Len(s) + 1 - d
    BY <2>1
  <2>2. CASE i # Len(s) + 1 - d /\ j # Len(s) + 1 - d
    <3>1. i \in 1 .. Len(s) - d
      BY <1>1, <2>2
    <3>2. j \in 1 .. Len(s) - d
      BY <1>1, <2>2
    <3>3. s[i + d] = s[j + d]
      BY <1>3, <3>1, <3>2
    <3>4. i + d \in DOMAIN s /\ j + d \in DOMAIN s
      BY <1>1, <3>1, <3>2
    <3>5. i + d = j + d
      BY <3>3, <3>4 DEF Distinct
    <3> QED BY <1>1, <3>1, <3>2, <3>5
  <2>3. CASE i = Len(s) + 1 - d /\ j # Len(s) + 1 - d
    <3>1. j \in 1 .. Len(s) - d /\ j + d \in 1 .. Len(s)
      BY <1>1, <2>3
    <3> QED BY <1>2, <1>3, <1>4, <2>3, <3>1
  <2>4. CASE i # Len(s) + 1 - d /\ j = Len(s) + 1 - d
    <3>1. i \in 1 .. Len(s) - d /\ i + d \in 1 .. Len(s)
      BY <1>1, <2>4
    <3> QED BY <1>2, <1>3, <1>4, <2>4, <3>1
  <2> QED BY <2>1, <2>2, <2>3, <2>4
<1>6. \E i \in DOMAIN t : t[i] = m /\ After(t, i) = {}
  <2>1. Len(s) + 1 - d \in DOMAIN t
    BY <1>1
  <2>2. After(t, Len(s) + 1 - d) = {}
    BY <1>1, <1>2 DEF After
  <2> QED BY <1>2, <2>1, <2>2
<1>7. ASSUME NEW i \in d + 1 .. Len(s)
      PROVE  \E j \in DOMAIN t : t[j] = s[i] /\ After(t, j) \subseteq After(s, i) \cup {m}
  <2>1. i - d \in 1 .. Len(s) - d /\ i - d \in DOMAIN t /\ i \in Int
    BY <1>1, <1>7
  <2>2. t[i - d] = s[i]
    <3>1. (i - d) + d = i
      BY <1>1
    <3> QED BY <1>3, <2>1, <3>1
  <2>3. ASSUME NEW j \in (i - d) + 1 .. Len(t) PROVE t[j] \in After(s, i) \cup {m}
    <3>1. CASE j = Len(s) + 1 - d
      BY <1>2, <3>1
    <3>2. CASE j # Len(s) + 1 - d
      <4>1. j \in (i - d) + 1 .. Len(s) + 1 - d
        BY <1>2, <2>3
      <4>2. j \in 1 .. Len(s) - d
        <5>1. j \in Int /\ (i - d) + 1 <= j /\ j <= Len(s) + 1 - d
          BY <1>1, <2>1, <4>1
        <5>2. j <= Len(s) - d
          BY <1>1, <3>2, <5>1
        <5>3. 1 <= j
          BY <1>1, <2>1, <5>1
        <5> QED BY <1>1, <5>1, <5>2, <5>3
      <4>3. j + d \in i + 1 .. Len(s)
        BY <1>1, <2>1, <4>1, <4>2
      <4> QED BY <1>3, <4>2, <4>3 DEF After
    <3> QED BY <3>1, <3>2
  <2>4. After(t, i - d) \subseteq After(s, i) \cup {m}
    BY <2>3 DEF After
  <2> QED BY <2>1, <2>2, <2>4
<1> QED BY <1>5, <1>6, <1>7

\* The same of the list of seen ids: only the first one of a full list goes.
LEMMA RememberOrder ==
  ASSUME NEW s \in Seq(Messages), NEW m \in Messages, Len(s) <= SeenLimit,
         Distinct(s), ~Contains(s, m)
  PROVE  /\ Remember(s, m) \in Seq(Messages) /\ Len(Remember(s, m)) <= SeenLimit
         /\ Distinct(Remember(s, m))
         /\ \E i \in DOMAIN Remember(s, m) :
              Remember(s, m)[i] = m /\ After(Remember(s, m), i) = {}
         /\ \A i \in DOMAIN s : ~(i = 1 /\ Len(s) = SeenLimit) =>
              \E j \in DOMAIN Remember(s, m) :
                /\ Remember(s, m)[j] = s[i]
                /\ After(Remember(s, m), j) \subseteq After(s, i) \cup {m}
<1>1. PICK d \in 0 .. 1 :
        /\ d = 1 <=> Len(s) = SeenLimit
        /\ Remember(s, m) \in Seq(Messages)
        /\ Pushed(s, Remember(s, m), m, d)
  BY RememberShape
<1>2. PICK t \in Seq(Messages) : t = Remember(s, m)
  BY <1>1
<1>3. Pushed(s, t, m, d)
  BY <1>1, <1>2
<1>4. /\ Distinct(t)
      /\ \E i \in DOMAIN t : t[i] = m /\ After(t, i) = {}
      /\ \A i \in d + 1 .. Len(s) :
           \E j \in DOMAIN t : t[j] = s[i] /\ After(t, j) \subseteq After(s, i) \cup {m}
  <2>1. Distinct(t)
    BY <1>3, PushKeepsOrder
  <2>2. \E i \in DOMAIN t : t[i] = m /\ After(t, i) = {}
    BY <1>3, PushKeepsOrder
  <2>3. \A i \in d + 1 .. Len(s) :
           \E j \in DOMAIN t : t[j] = s[i] /\ After(t, j) \subseteq After(s, i) \cup {m}
    BY <1>3, PushKeepsOrder
  <2> QED BY <2>1, <2>2, <2>3
<1>5. Len(t) <= SeenLimit
  BY <1>1, <1>3, WakeAssumption DEF Pushed
<1>6. \A i \in DOMAIN s : ~(i = 1 /\ Len(s) = SeenLimit) => i \in d + 1 .. Len(s)
  BY <1>1
<1> QED BY <1>2, <1>4, <1>5, <1>6

\* The attempts taken as new are positions of the history, and the messages
\* between two of them are finitely many.
LEMMA FewBetween ==
  ASSUME offers \in Seq(Offer), NEW g, NEW k, NEW l
  PROVE  /\ TakenAsNew(g) \subseteq 1 .. Len(offers)
         /\ IsFiniteSet(NewBetween(k, l, g))
<1>1. Len(offers) \in Nat /\ DOMAIN offers = 1 .. Len(offers)
  OBVIOUS
<1>2. IsFiniteSet(1 .. Len(offers))
  BY <1>1, FS_Interval
<1> DEFINE J == {j \in TakenAsNew(g) : k < j /\ j < l}
           f == [j \in J |-> offers[j].message]
<1>3. TakenAsNew(g) \subseteq 1 .. Len(offers) /\ J \subseteq 1 .. Len(offers)
  BY <1>1 DEF TakenAsNew
<1>4. IsFiniteSet(J)
  BY <1>2, <1>3, FS_Subset
<1>5. f \in Surjection(J, NewBetween(k, l, g))
  BY DEF Surjection, NewBetween
<1> HIDE DEF J, f
<1>6. IsFiniteSet(NewBetween(k, l, g))
  BY <1>4, <1>5, FS_Surjection
<1> QED BY <1>3, <1>6


-----------------------------------------------------------------------------
(* The history grows by one attempt.                                       *)

\* An attempt that is taken for a new one is the last of its group, and comes
\* after every earlier one; one that is refused as a duplicate changes nothing.
LEMMA RecordGrows ==
  ASSUME offers \in Seq(Offer), NEW g \in Groups, NEW m \in Messages, NEW v \in Verdicts,
         Record(g, m, v)
  PROVE  LET n == Len(offers) IN
         /\ n \in Nat /\ offers' \in Seq(Offer) /\ Len(offers') = n + 1
         /\ \A i \in 1 .. n : offers'[i] = offers[i]
         /\ offers'[n + 1] = [group |-> g, message |-> m, verdict |-> v]
<1> DEFINE o == [group |-> g, message |-> m, verdict |-> v]
<1>1. o \in Offer
  BY DEF Offer
<1>2. offers' = Append(offers, o)
  BY DEF Record
<1> HIDE DEF o
<1>3. /\ offers' \in Seq(Offer) /\ Len(offers') = Len(offers) + 1 /\ Len(offers) \in Nat
      /\ \A i \in 1 .. Len(offers) : offers'[i] = offers[i]
      /\ offers'[Len(offers) + 1] = o
  BY <1>1, <1>2, AppendProperties
<1> QED BY <1>3 DEF o

\* Which attempts of each group are taken for new ones afterwards.
LEMMA TakenGrows ==
  ASSUME offers \in Seq(Offer), NEW g \in Groups, NEW m \in Messages, NEW v \in Verdicts,
         Record(g, m, v), NEW h \in Groups
  PROVE  /\ TakenAsNew(h)' = IF h = g /\ v # "DUPLICATE"
                             THEN TakenAsNew(h) \cup {Len(offers) + 1} ELSE TakenAsNew(h)
         /\ TakenAsNew(h) \subseteq 1 .. Len(offers)
         /\ \A k \in TakenAsNew(h) : offers'[k] = offers[k]
<1> DEFINE n == Len(offers)
<1>1. /\ n \in Nat /\ offers' \in Seq(Offer) /\ Len(offers') = n + 1
      /\ \A i \in 1 .. n : offers'[i] = offers[i]
      /\ offers'[n + 1] = [group |-> g, message |-> m, verdict |-> v]
  BY RecordGrows
<1>2. DOMAIN offers = 1 .. n /\ DOMAIN offers' = 1 .. n + 1
  BY <1>1
<1>3. offers'[n + 1].group = g /\ offers'[n + 1].verdict = v
  BY <1>1
<1>4. TakenAsNew(h) \subseteq 1 .. n
  BY <1>2 DEF TakenAsNew
<1>5. TakenAsNew(h)' = {i \in 1 .. n + 1 : offers'[i].group = h /\ offers'[i].verdict # "DUPLICATE"}
  BY <1>2 DEF TakenAsNew
<1>6. TakenAsNew(h) = {i \in 1 .. n : offers'[i].group = h /\ offers'[i].verdict # "DUPLICATE"}
  BY <1>1, <1>2 DEF TakenAsNew
<1>7. 1 .. n + 1 = 1 .. n \cup {n + 1} /\ n + 1 \notin 1 .. n
  BY <1>1
<1> HIDE DEF n
<1>8. TakenAsNew(h)' = IF h = g /\ v # "DUPLICATE"
                       THEN TakenAsNew(h) \cup {n + 1} ELSE TakenAsNew(h)
  BY <1>3, <1>5, <1>6, <1>7
<1> QED BY <1>1, <1>4, <1>8 DEF n

\* What lies between two attempts of the past stays what it was, and what lies
\* after one of them only grows.
LEMMA BetweenGrows ==
  ASSUME offers \in Seq(Offer), NEW g \in Groups, NEW m \in Messages, NEW v \in Verdicts,
         Record(g, m, v), NEW h \in Groups, NEW k \in TakenAsNew(h)
  PROVE  /\ \A l \in 1 .. Len(offers) + 1 : NewBetween(k, l, h)' = NewBetween(k, l, h)
         /\ NewSince(k, h)' = IF h = g /\ v # "DUPLICATE"
                              THEN NewSince(k, h) \cup {m} ELSE NewSince(k, h)
<1> DEFINE n == Len(offers)
<1>1. /\ n \in Nat /\ Len(offers') = n + 1
      /\ \A i \in 1 .. n : offers'[i] = offers[i]
      /\ offers'[n + 1].message = m
  <2>1. offers'[n + 1] = [group |-> g, message |-> m, verdict |-> v]
    BY RecordGrows
  <2> QED BY <2>1, RecordGrows
<1>2. /\ TakenAsNew(h)' = IF h = g /\ v # "DUPLICATE"
                          THEN TakenAsNew(h) \cup {n + 1} ELSE TakenAsNew(h)
      /\ TakenAsNew(h) \subseteq 1 .. n
  BY TakenGrows
<1>3. ASSUME NEW l \in 1 .. n + 1 PROVE NewBetween(k, l, h)' = NewBetween(k, l, h)
  <2>1. \A j \in TakenAsNew(h)' : j < l => j \in TakenAsNew(h)
    BY <1>1, <1>2
  <2>2. {j \in TakenAsNew(h)' : k < j /\ j < l} = {j \in TakenAsNew(h) : k < j /\ j < l}
    BY <1>2, <2>1
  <2>3. \A j \in TakenAsNew(h) : offers'[j] = offers[j]
    BY <1>1, <1>2
  <2> QED BY <2>2, <2>3 DEF NewBetween
<1>4. NewSince(k, h)' = IF h = g /\ v # "DUPLICATE"
                        THEN NewSince(k, h) \cup {m} ELSE NewSince(k, h)
  <2>1. \A j \in TakenAsNew(h) : offers'[j] = offers[j] /\ j < n + 1 /\ j < n + 2
    BY <1>1, <1>2
  <2>2. k < n + 1 /\ n + 1 < n + 2
    BY <1>1, <2>1
  <2>3. NewSince(k, h)' = {offers'[i].message : i \in {j \in TakenAsNew(h)' : k < j /\ j < n + 2}}
    BY <1>1 DEF NewSince, NewBetween
  <2>4. NewSince(k, h) = {offers'[i].message : i \in {j \in TakenAsNew(h) : k < j /\ j < n + 1}}
    BY <2>1 DEF NewSince, NewBetween
  <2>5. CASE h = g /\ v # "DUPLICATE"
    <3>1. {j \in TakenAsNew(h)' : k < j /\ j < n + 2}
            = {j \in TakenAsNew(h) : k < j /\ j < n + 1} \cup {n + 1}
      BY <1>2, <2>1, <2>2, <2>5
    <3> QED BY <1>1, <2>3, <2>4, <2>5, <3>1
  <2>6. CASE ~(h = g /\ v # "DUPLICATE")
    <3>1. {j \in TakenAsNew(h)' : k < j /\ j < n + 2} = {j \in TakenAsNew(h) : k < j /\ j < n + 1}
      BY <1>2, <2>1, <2>6
    <3> QED BY <2>3, <2>4, <2>6, <3>1
  <2> QED BY <2>5, <2>6
<1> QED BY <1>3, <1>4


-----------------------------------------------------------------------------
(* The memory of a group.                                                  *)

\* An attempt known before is known or displaced after a new id m of its group
\* was remembered: only the head of a full list is forgotten, and all that stood
\* behind it, and m, came after the attempt.
LEMMA OldAttemptIsKept ==
  ASSUME TypeOK, NEW g \in Groups, NEW m \in Messages, NEW v \in Verdicts \ {"DUPLICATE"},
         Record(g, m, v), MemoryOf(g), ~Contains(seen[g], m),
         seen' = [seen EXCEPT ![g] = Remember(seen[g], m)],
         NEW k \in TakenAsNew(g)
  PROVE  StillKnown(k, g)' \/ Displaced(k, g)'
<1> DEFINE s == seen[g]
           mk == offers[k].message
<1>1. /\ s \in Seq(Messages) /\ Len(s) <= SeenLimit /\ Distinct(s) /\ ~Contains(s, m)
      /\ offers \in Seq(Offer) /\ seen'[g] = Remember(s, m)
  BY DEF TypeOK, MemoryOf
<1>2. /\ NewSince(k, g)' = NewSince(k, g) \cup {m} /\ offers'[k].message = mk
      /\ IsFiniteSet(NewSince(k, g)')
  <2>1. NewSince(k, g)' = NewSince(k, g) \cup {m}
    BY <1>1, BetweenGrows
  <2>2. offers'[k] = offers[k]
    BY <1>1, TakenGrows
  <2>3. IsFiniteSet(NewSince(k, g))
    BY <1>1, FewBetween DEF NewSince
  <2>4. IsFiniteSet(NewSince(k, g) \cup {m})
    BY <2>3, FS_AddElement
  <2> QED BY <2>1, <2>2, <2>4
<1>3. CASE Displaced(k, g)
  <2>1. NewSince(k, g) \ {mk} \in SUBSET (NewSince(k, g)' \ {mk})
    BY <1>2
  <2>2. IsFiniteSet(NewSince(k, g)' \ {mk})
    BY <1>2, FS_RemoveElement
  <2>3. Cardinality(NewSince(k, g) \ {mk}) <= Cardinality(NewSince(k, g)' \ {mk})
        /\ IsFiniteSet(NewSince(k, g) \ {mk})
    BY <2>1, <2>2, FS_Subset
  <2>4. Cardinality(NewSince(k, g) \ {mk}) \in Nat /\ Cardinality(NewSince(k, g)' \ {mk}) \in Nat
    BY <2>2, <2>3, FS_CardinalityType
  <2>5. Cardinality(NewSince(k, g)' \ {mk}) >= SeenLimit
    BY <1>3, <2>3, <2>4, WakeAssumption DEF Displaced
  <2> QED BY <1>2, <2>5 DEF Displaced
<1>4. CASE StillKnown(k, g)
  <2>1. PICK i \in DOMAIN s : s[i] = mk /\ After(s, i) \subseteq NewSince(k, g)
    BY <1>4 DEF StillKnown
  <2>2. CASE ~(i = 1 /\ Len(s) = SeenLimit)
    <3>1. PICK j \in DOMAIN Remember(s, m) :
            Remember(s, m)[j] = s[i] /\ After(Remember(s, m), j) \subseteq After(s, i) \cup {m}
      BY <1>1, <2>2, RememberOrder
    <3>2. StillKnown(k, g)'
      BY <1>1, <1>2, <2>1, <3>1 DEF StillKnown
    <3> QED BY <3>2
  <2>3. CASE i = 1 /\ Len(s) = SeenLimit
    <3>1. Len(s) \in Nat /\ DOMAIN s = 1 .. Len(s)
      BY <1>1
    <3>2. IsFiniteSet(After(s, 1)) /\ Cardinality(After(s, 1)) = Len(s) - 1
      BY <1>1, <2>1, <2>3, <3>1, DistinctCount
    <3>3. m \notin After(s, 1) /\ mk \notin After(s, 1) /\ mk # m
      <4>1. \A j \in 1 .. Len(s) : s[j] # m
        BY <1>1 DEF Contains
      <4>2. \A j \in 2 .. Len(s) : s[j] # s[1]
        BY <1>1, <2>1, <2>3, <3>1 DEF Distinct
      <4> QED BY <2>1, <2>3, <3>1, <4>1, <4>2 DEF After
    <3>4. /\ IsFiniteSet(After(s, 1) \cup {m})
          /\ Cardinality(After(s, 1) \cup {m}) = SeenLimit
      <4>1. Cardinality(After(s, 1) \cup {m}) = Cardinality(After(s, 1)) + 1
            /\ IsFiniteSet(After(s, 1) \cup {m})
        BY <3>2, <3>3, FS_AddElement
      <4> QED BY <2>3, <3>1, <3>2, <4>1
    <3>5. After(s, 1) \cup {m} \in SUBSET (NewSince(k, g)' \ {mk})
      BY <1>2, <2>1, <2>3, <3>3
    <3>6. IsFiniteSet(NewSince(k, g)' \ {mk})
      BY <1>2, FS_RemoveElement
    <3>7. /\ Cardinality(After(s, 1) \cup {m}) <= Cardinality(NewSince(k, g)' \ {mk})
          /\ Cardinality(NewSince(k, g)' \ {mk}) \in Nat
      BY <3>5, <3>6, FS_Subset, FS_CardinalityType
    <3>8. Cardinality(NewSince(k, g)' \ {mk}) >= SeenLimit
      BY <3>4, <3>7, WakeAssumption
    <3> QED BY <1>2, <3>8 DEF Displaced
  <2> QED BY <2>2, <2>3
<1> QED BY <1>3, <1>4 DEF MemoryOf

\* The attempt that has just been remembered is the last of the list.
LEMMA NewAttemptIsKnown ==
  ASSUME TypeOK, NEW g \in Groups, NEW m \in Messages, NEW v \in Verdicts,
         Record(g, m, v), MemoryOf(g), ~Contains(seen[g], m),
         seen' = [seen EXCEPT ![g] = Remember(seen[g], m)], NEW n, n = Len(offers) + 1
  PROVE  StillKnown(n, g)'
<1>1. /\ seen[g] \in Seq(Messages) /\ Len(seen[g]) <= SeenLimit /\ Distinct(seen[g])
      /\ offers \in Seq(Offer) /\ seen'[g] = Remember(seen[g], m)
  BY DEF TypeOK, MemoryOf
<1>2. PICK i \in DOMAIN Remember(seen[g], m) :
        Remember(seen[g], m)[i] = m /\ After(Remember(seen[g], m), i) = {}
  BY <1>1, RememberOrder
<1>3. offers'[Len(offers) + 1] = [group |-> g, message |-> m, verdict |-> v]
  BY <1>1, RecordGrows
<1>4. offers'[n].message = m
  BY <1>3
<1>5. seen'[g][i] = m /\ After(seen'[g], i) = {} /\ i \in DOMAIN seen'[g]
  BY <1>1, <1>2
<1> QED BY <1>4, <1>5 DEF StillKnown


\* A step that records a wake and remembers its id, which was not in the list.
LEMMA RememberingInv ==
  ASSUME TypeOK, MemoryIsOfTheNewest, RedeliveryForgottenOnlyWhenFull,
         NEW g \in Groups, NEW m \in Messages, NEW v \in Verdicts \ {"DUPLICATE"},
         Record(g, m, v), ~IsDuplicate(g, m),
         seen' = [seen EXCEPT ![g] = Remember(@, m)]
  PROVE  MemoryIsOfTheNewest' /\ RedeliveryForgottenOnlyWhenFull'
<1>1. /\ seen \in [Groups -> Seq(Messages)] /\ offers \in Seq(Offer)
      /\ ~Contains(seen[g], m) /\ MemoryOf(g)
  BY DEF TypeOK, IsDuplicate, MemoryIsOfTheNewest
<1>2. PICK n \in Nat : n = Len(offers) + 1
  BY <1>1
<1>3. /\ TakenAsNew(g)' = TakenAsNew(g) \cup {n}
      /\ \A h \in Groups : h # g => TakenAsNew(h)' = TakenAsNew(h)
      /\ \A h \in Groups : TakenAsNew(h) \subseteq 1 .. n - 1
      /\ \A h \in Groups : \A k \in TakenAsNew(h) : offers'[k] = offers[k]
  BY <1>1, <1>2, TakenGrows
<1>4. ASSUME NEW h \in Groups, h # g PROVE MemoryOf(h)'
  <2>1. seen'[h] = seen[h] /\ MemoryOf(h)
    BY <1>1, <1>4 DEF MemoryIsOfTheNewest
  <2>2. ASSUME NEW k \in TakenAsNew(h)' PROVE StillKnown(k, h)' \/ Displaced(k, h)'
    <3>1. k \in TakenAsNew(h) /\ offers'[k] = offers[k]
      BY <1>3, <1>4
    <3>2. NewSince(k, h)' = NewSince(k, h)
      BY <1>1, <1>4, <3>1, BetweenGrows
    <3>3. StillKnown(k, h) \/ Displaced(k, h)
      BY <2>1, <3>1 DEF MemoryOf
    <3> QED BY <2>1, <3>1, <3>2, <3>3 DEF StillKnown, Displaced
  <2> QED BY <2>1, <2>2 DEF MemoryOf
<1>5. MemoryOf(g)'
  <2>1. /\ Remember(seen[g], m) \in Seq(Messages) /\ Len(Remember(seen[g], m)) <= SeenLimit
        /\ Distinct(Remember(seen[g], m))
    BY <1>1, RememberOrder DEF MemoryOf
  <2>2. seen'[g] = Remember(seen[g], m)
    BY <1>1
  <2>3. ASSUME NEW k \in TakenAsNew(g)' PROVE StillKnown(k, g)' \/ Displaced(k, g)'
    <3>1. CASE k \in TakenAsNew(g)
      BY <1>1, <3>1, OldAttemptIsKept
    <3>2. CASE k = n
      <4>1. StillKnown(n, g)'
        BY <1>1, <1>2, NewAttemptIsKnown
      <4> QED BY <3>2, <4>1
    <3> QED BY <1>3, <3>1, <3>2
  <2> QED BY <2>1, <2>2, <2>3 DEF MemoryOf
<1>6. MemoryIsOfTheNewest'
  BY <1>4, <1>5 DEF MemoryIsOfTheNewest
<1>7. RedeliveryForgottenOnlyWhenFull'
  <2> SUFFICES ASSUME NEW h \in Groups, NEW k \in TakenAsNew(h)', NEW l \in TakenAsNew(h)',
                      k < l, offers'[k].message = offers'[l].message
               PROVE  Cardinality(NewBetween(k, l, h)' \ {offers'[k].message}) >= SeenLimit
    BY DEF RedeliveryForgottenOnlyWhenFull
  <2>1. CASE l \in TakenAsNew(h)
    <3>1. k \in TakenAsNew(h)
      BY <1>2, <1>3, <2>1
    <3>2. NewBetween(k, l, h)' = NewBetween(k, l, h)
      BY <1>1, <1>2, <1>3, <2>1, <3>1, BetweenGrows
    <3>3. offers'[k] = offers[k] /\ offers'[l] = offers[l]
      BY <1>3, <2>1, <3>1
    <3> QED BY <2>1, <3>1, <3>2, <3>3 DEF RedeliveryForgottenOnlyWhenFull
  <2>2. CASE l \notin TakenAsNew(h)
    <3>1. h = g /\ l = n /\ k \in TakenAsNew(g)
      BY <1>2, <1>3, <2>2
    <3>2. offers'[n].message = m
      <4>1. offers'[n] = [group |-> g, message |-> m, verdict |-> v]
        BY <1>1, <1>2, RecordGrows
      <4> QED BY <4>1
    <3>3. offers[k].message = m
      BY <1>3, <3>1, <3>2
    <3>4. ~StillKnown(k, g)
      <4>1. DOMAIN seen[g] = 1 .. Len(seen[g])
        BY <1>1
      <4> QED BY <1>1, <3>3, <4>1 DEF StillKnown, Contains
    <3>5. Displaced(k, g)
      BY <1>1, <3>1, <3>4 DEF MemoryOf
    <3>6. NewBetween(k, n, g)' = NewBetween(k, n, g)
      <4>1. n \in 1 .. Len(offers) + 1
        BY <1>1, <1>2
      <4> QED BY <1>1, <3>1, <4>1, BetweenGrows
    <3>7. NewBetween(k, n, g) = NewSince(k, g)
      BY <1>2 DEF NewSince
    <3> QED BY <3>1, <3>2, <3>3, <3>5, <3>6, <3>7 DEF Displaced
  <2> QED BY <2>1, <2>2
<1> QED BY <1>6, <1>7

\* A step that only records a duplicate.
LEMMA DuplicateInv ==
  ASSUME TypeOK, MemoryIsOfTheNewest, RedeliveryForgottenOnlyWhenFull,
         NEW g \in Groups, NEW m \in Messages, Record(g, m, "DUPLICATE"), UNCHANGED seen
  PROVE  MemoryIsOfTheNewest' /\ RedeliveryForgottenOnlyWhenFull'
<1>1. offers \in Seq(Offer) /\ "DUPLICATE" \in Verdicts
  BY DEF TypeOK, Verdicts
<1>2. /\ \A h \in Groups : TakenAsNew(h)' = TakenAsNew(h)
      /\ \A h \in Groups : TakenAsNew(h) \subseteq 1 .. Len(offers)
      /\ \A h \in Groups : \A k \in TakenAsNew(h) : offers'[k] = offers[k]
  BY <1>1, TakenGrows
<1>3. ASSUME NEW h \in Groups, NEW k \in TakenAsNew(h)
      PROVE  /\ NewSince(k, h)' = NewSince(k, h)
             /\ \A l \in TakenAsNew(h) : NewBetween(k, l, h)' = NewBetween(k, l, h)
  <2>1. Len(offers) \in Nat
    BY <1>1
  <2> QED BY <1>1, <1>2, <2>1, BetweenGrows
<1>4. MemoryIsOfTheNewest'
  BY <1>2, <1>3 DEF MemoryIsOfTheNewest, MemoryOf, StillKnown, Displaced
<1>5. RedeliveryForgottenOnlyWhenFull'
  BY <1>2, <1>3 DEF RedeliveryForgottenOnlyWhenFull
<1> QED BY <1>4, <1>5

\* A step that attempts no wake.
LEMMA NoWakeInv ==
  ASSUME MemoryIsOfTheNewest, RedeliveryForgottenOnlyWhenFull, UNCHANGED <<seen, offers>>
  PROVE  MemoryIsOfTheNewest' /\ RedeliveryForgottenOnlyWhenFull'
<1>1. \A g : TakenAsNew(g)' = TakenAsNew(g)
  BY DEF TakenAsNew
<1>2. \A k, l, g : NewBetween(k, l, g)' = NewBetween(k, l, g)
  BY <1>1 DEF NewBetween
<1>3. \A k, g : NewSince(k, g)' = NewSince(k, g)
  BY <1>2 DEF NewSince
<1>4. MemoryIsOfTheNewest'
  BY <1>1, <1>3 DEF MemoryIsOfTheNewest, MemoryOf, StillKnown, Displaced
<1>5. RedeliveryForgottenOnlyWhenFull'
  BY <1>1, <1>2 DEF RedeliveryForgottenOnlyWhenFull
<1> QED BY <1>4, <1>5

-----------------------------------------------------------------------------
(* The theorems.                                                           *)

\* Types and the flag, step by step.
LEMMA FlagInv ==
  ASSUME TypeOK, SingleFlightPerGroup, MemoryIsOfTheNewest, [Next]_vars
  PROVE  TypeOK' /\ SingleFlightPerGroup'
<1>1. ASSUME NEW g \in Groups, NEW m \in Messages, Wake(g, m)
      PROVE  TypeOK' /\ SingleFlightPerGroup'
  <2>1. /\ seen \in [Groups -> Seq(Messages)] /\ offers \in Seq(Offer)
        /\ clock \in 0 .. MaxClock /\ lastWake \in [Groups -> {Never} \cup 0 .. MaxClock]
    BY DEF TypeOK
  <2>2. ~IsDuplicate(g, m) => Remember(seen[g], m) \in Seq(Messages)
    BY <2>1, RememberOrder DEF IsDuplicate, MemoryIsOfTheNewest, MemoryOf
  <2>3. CASE Duplicate(g, m)
    <3>1. offers' \in Seq(Offer)
      BY <2>1, <2>3, RecordGrows DEF Duplicate, Verdicts
    <3> QED BY <2>3, <3>1 DEF Duplicate, TypeOK, SingleFlightPerGroup
  <2>4. CASE Cooling(g, m)
    <3>1. offers' \in Seq(Offer)
      BY <2>1, <2>4, RecordGrows DEF Cooling, Verdicts
    <3>2. seen' \in [Groups -> Seq(Messages)]
      BY <2>1, <2>2, <2>4 DEF Cooling
    <3> QED BY <2>4, <3>1, <3>2 DEF Cooling, TypeOK, SingleFlightPerGroup
  <2>5. CASE SingleFlight(g, m)
    <3>1. offers' \in Seq(Offer)
      BY <2>1, <2>5, RecordGrows DEF SingleFlight, Verdicts
    <3>2. seen' \in [Groups -> Seq(Messages)] /\ lastWake' \in [Groups -> {Never} \cup 0 .. MaxClock]
      BY <2>1, <2>2, <2>5 DEF SingleFlight
    <3> QED BY <2>5, <3>1, <3>2 DEF SingleFlight, TypeOK, SingleFlightPerGroup
  <2>6. CASE Detected(g, m)
    <3>1. offers' \in Seq(Offer)
      BY <2>1, <2>6, RecordGrows DEF Detected, Verdicts
    <3>2. seen' \in [Groups -> Seq(Messages)] /\ lastWake' \in [Groups -> {Never} \cup 0 .. MaxClock]
      BY <2>1, <2>2, <2>6 DEF Detected
    <3> DEFINE run == [group |-> g, message |-> m, startedAt |-> clock]
    <3>3. run \in Run /\ run.group = g
      BY <2>1 DEF Run
    <3>4. running' = running \cup {run} /\ inFlight' = inFlight \cup {g} /\ UNCHANGED clock
          /\ g \notin inFlight
      BY <2>6 DEF Detected
    <3> HIDE DEF run
    <3>5. TypeOK'
      BY <3>1, <3>2, <3>3, <3>4 DEF TypeOK
    <3>6. SingleFlightPerGroup'
      BY <3>3, <3>4 DEF SingleFlightPerGroup
    <3> QED BY <3>5, <3>6
  <2> QED BY <1>1, <2>3, <2>4, <2>5, <2>6 DEF Wake
<1>2. ASSUME NEW run \in running, Finish(run) PROVE TypeOK' /\ SingleFlightPerGroup'
  BY <1>2 DEF Finish, TypeOK, SingleFlightPerGroup
<1>3. CASE Tick
  BY <1>3, WakeAssumption DEF Tick, TypeOK, SingleFlightPerGroup
<1>4. CASE UNCHANGED vars
  BY <1>4 DEF vars, TypeOK, SingleFlightPerGroup
<1> QED BY <1>1, <1>2, <1>3, <1>4 DEF Next, FinishGenerated, FinishFailed, FinishExpired

\* The inductive invariant holds of every behaviour of the gate and its handler.
THEOREM WakeInvariance == Spec => []WakeInv
<1>1. Init => WakeInv
  <2> SUFFICES ASSUME Init PROVE WakeInv
    OBVIOUS
  <2>1. TypeOK /\ SingleFlightPerGroup
    BY WakeAssumption DEF Init, TypeOK, SingleFlightPerGroup
  <2>2. \A g \in Groups : TakenAsNew(g) = {}
    BY DEF Init, TakenAsNew
  <2>3. \A g \in Groups : Len(seen[g]) <= SeenLimit /\ Distinct(seen[g])
    BY WakeAssumption DEF Init, Distinct
  <2> QED BY <2>1, <2>2, <2>3 DEF WakeInv, MemoryIsOfTheNewest, MemoryOf,
                                  RedeliveryForgottenOnlyWhenFull
<1>2. WakeInv /\ [Next]_vars => WakeInv'
  <2> SUFFICES ASSUME WakeInv, [Next]_vars PROVE WakeInv'
    OBVIOUS
  <2>1. TypeOK' /\ SingleFlightPerGroup'
    BY FlagInv DEF WakeInv
  <2>2. MemoryIsOfTheNewest' /\ RedeliveryForgottenOnlyWhenFull'
    <3> USE DEF WakeInv
    <3>1. ASSUME NEW g \in Groups, NEW m \in Messages, Wake(g, m)
          PROVE  MemoryIsOfTheNewest' /\ RedeliveryForgottenOnlyWhenFull'
      <4>1. CASE Duplicate(g, m)
        BY <4>1, DuplicateInv DEF Duplicate
      <4>2. CASE Cooling(g, m)
        <5>1. "COOLDOWN" \in Verdicts \ {"DUPLICATE"}
          BY DEF Verdicts
        <5> QED BY <4>2, <5>1, RememberingInv DEF Cooling
      <4>3. CASE SingleFlight(g, m)
        <5>1. "SINGLE_FLIGHT" \in Verdicts \ {"DUPLICATE"}
          BY DEF Verdicts
        <5> QED BY <4>3, <5>1, RememberingInv DEF SingleFlight
      <4>4. CASE Detected(g, m)
        <5>1. "DETECTED" \in Verdicts \ {"DUPLICATE"}
          BY DEF Verdicts
        <5> QED BY <4>4, <5>1, RememberingInv DEF Detected
      <4> QED BY <3>1, <4>1, <4>2, <4>3, <4>4 DEF Wake
    <3>2. ASSUME NEW run \in running, Finish(run)
          PROVE  MemoryIsOfTheNewest' /\ RedeliveryForgottenOnlyWhenFull'
      BY <3>2, NoWakeInv DEF Finish
    <3>3. CASE Tick
      BY <3>3, NoWakeInv DEF Tick
    <3>4. CASE UNCHANGED vars
      BY <3>4, NoWakeInv DEF vars
    <3> QED BY <3>1, <3>2, <3>3, <3>4 DEF Next, FinishGenerated, FinishFailed, FinishExpired
  <2> QED BY <2>1, <2>2 DEF WakeInv
<1> QED BY <1>1, <1>2, PTL DEF Spec

\* The variables keep their types: the gate never remembers what is not a message,
\* and never stamps an admission with a time that is still to come.
THEOREM TypeCorrectness == Spec => []TypeOK
<1>1. WakeInv => TypeOK
  BY DEF WakeInv
<1> QED BY <1>1, WakeInvariance, PTL

\* The single-flight flag of handleOwnerAliasWake: one generation of a group at a
\* time, and the flag is set exactly while it runs.
THEOREM OneGenerationPerGroup == Spec => []SingleFlightPerGroup
<1>1. WakeInv => SingleFlightPerGroup
  BY DEF WakeInv
<1> QED BY <1>1, WakeInvariance, PTL

\* OwnerAliasWakeGate.admit: a message is taken for a new one again only after as
\* many others of its group as the memory holds.
THEOREM MemoryIsNeverCutShort == Spec => []RedeliveryForgottenOnlyWhenFull
<1>1. WakeInv => RedeliveryForgottenOnlyWhenFull
  BY DEF WakeInv
<1> QED BY <1>1, WakeInvariance, PTL
=============================================================================
