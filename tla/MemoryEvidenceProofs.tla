------------------------ MODULE MemoryEvidenceProofs ------------------------
(***************************************************************************)
(* Proofs about the evidence of memories, for every set of keys, scopes,   *)
(* commands and references, every threshold and time to live: mentions are *)
(* counted together only without a long pause between them, a record is    *)
(* changed or deleted only by a command whose prompt held it, by a new     *)
(* address or a new value of its slot, and a count is the number of        *)
(* distinct messages behind it unless a batch named the key twice.         *)
(***************************************************************************)
EXTENDS MemoryEvidence, SequenceTheorems, FiniteSetTheorems, TLAPS

\* No pause between two consecutive contributions is longer than the time to live.
NoLongPause(history) ==
  \A i \in DOMAIN history \ {1} : history[i].at - history[i - 1].at <= TTL

\* The entry was last seen at the last contribution it was counted from.
EntryIsOfItsMentions(k) ==
  /\ support[k] # <<>>
  /\ support[k][Len(support[k])].at = pool[k].lastSeenAt
  /\ NoLongPause(support[k])

\* Ids are never given twice, so a candidate with the id of the live record is an
\* earlier version of it; and its first evidence is the record's, if that is no
\* address and had evidence from the beginning.
ShownIsEarlier(c, k) ==
  /\ ScopeOf[k] \in Reach[c]
  /\ shown[c][k].id <= issued
  /\ (k \in DOMAIN records \ AddressKeys /\ records[k].id = shown[c][k].id /\ shown[c][k].id # 0)
       => records[k].firstEvidenceAt = shown[c][k].firstEvidenceAt

EvidenceInv ==
  /\ TypeOK
  /\ \A k \in DOMAIN pool : EntryIsOfItsMentions(k)
  /\ NoPauseBeyondTTL
  /\ \A k \in DOMAIN records : records[k].id <= issued
  /\ \A c \in DOMAIN shown : \A k \in DOMAIN shown[c] : ShownIsEarlier(c, k)

-----------------------------------------------------------------------------
(* Facts about the helpers.                                                *)

\* Setting a key keeps a map a map.
LEMMA WithMaps ==
  ASSUME NEW S, NEW f, Maps(f, S), NEW key \in Keys, NEW value \in S
  PROVE  Maps(With(f, key, value), S)
<1>1. DOMAIN With(f, key, value) \subseteq Keys
  BY DEF Maps, With
<1>2. ASSUME NEW k \in DOMAIN With(f, key, value) PROVE With(f, key, value)[k] \in S
  <2>1. CASE k = key
    <3>1. With(f, key, value)[k] = value
      BY <2>1 DEF With
    <3> QED BY <3>1
  <2>2. CASE k # key
    <3>1. k \in DOMAIN f /\ With(f, key, value)[k] = f[k]
      BY <1>2, <2>2 DEF With
    <3> QED BY <3>1 DEF Maps
  <2> QED BY <2>1, <2>2
<1> QED BY <1>1, <1>2 DEF Maps

\* Taking keys away keeps a map a map.
LEMMA WithoutMaps ==
  ASSUME NEW S, NEW f, Maps(f, S), NEW ks
  PROVE  Maps(Without(f, ks), S)
<1>1. DOMAIN Without(f, ks) \subseteq DOMAIN f
  BY DEF Without
<1>2. \A k \in DOMAIN Without(f, ks) : Without(f, ks)[k] = f[k]
  BY DEF Without
<1> QED BY <1>1, <1>2 DEF Maps

\* A contribution made no later than the time to live after the last one leaves no
\* long pause.
LEMMA AppendPause ==
  ASSUME NEW history \in Seq(Contribution), NEW item \in Contribution, NoLongPause(history),
         history # <<>> => item.at - history[Len(history)].at <= TTL
  PROVE  NoLongPause(Append(history, item))
<1> SUFFICES ASSUME NEW i \in DOMAIN Append(history, item) \ {1}
             PROVE  Append(history, item)[i].at - Append(history, item)[i - 1].at <= TTL
  BY DEF NoLongPause
<1>1. /\ Len(history) \in Nat /\ DOMAIN history = 1 .. Len(history)
      /\ DOMAIN Append(history, item) = 1 .. Len(history) + 1
      /\ Append(history, item)[Len(history) + 1] = item
      /\ \A j \in 1 .. Len(history) : Append(history, item)[j] = history[j]
  BY AppendProperties
<1>2. i \in 2 .. Len(history) + 1
  BY <1>1
<1>3. Append(history, item)[i - 1] = history[i - 1]
  BY <1>1, <1>2
<1>4. CASE i = Len(history) + 1
  <2>1. history # <<>> /\ i - 1 = Len(history)
    BY <1>1, <1>2, <1>4
  <2> QED BY <1>1, <1>3, <1>4, <2>1
<1>5. CASE i # Len(history) + 1
  <2>1. i \in DOMAIN history \ {1}
    BY <1>1, <1>2, <1>5
  <2> QED BY <1>1, <1>3, <2>1 DEF NoLongPause
<1> QED BY <1>4, <1>5

\* The pool entry a contribution makes.
LEMMA NewEntryType ==
  ASSUME TypeOK, NEW key \in Keys, NEW refs \in SUBSET Refs, refs # {}
  PROVE  /\ NewEntry(key, refs) \in Entry
         /\ NewEntry(key, refs).lastSeenAt = clock
         /\ NewEntry(key, refs).count =
              (IF key \in Fresh(key) THEN pool[key].count ELSE 0) + Cardinality(refs)
         /\ IsFiniteSet(refs) /\ Cardinality(refs) \in Nat \ {0}
<1>1. IsFiniteSet(refs) /\ Cardinality(refs) \in Nat
  BY FS_Subset, FS_CardinalityType, EvidenceAssumption
<1>2. Cardinality(refs) # 0
  BY <1>1, FS_EmptySet
<1>3. clock \in Nat
  BY EvidenceAssumption DEF TypeOK
<1>4. CASE key \in Fresh(key)
  <2>1. pool[key] \in Entry
    BY <1>4 DEF Fresh, TypeOK, Maps
  <2>2. NewEntry(key, refs) =
          [count |-> pool[key].count + Cardinality(refs),
           firstSeenAt |-> pool[key].firstSeenAt, lastSeenAt |-> clock]
    BY <1>4, <2>1 DEF NewEntry, Entry
  <2>3. pool[key].count + Cardinality(refs) \in Nat \ {0} /\ pool[key].firstSeenAt \in Nat
    BY <1>1, <2>1 DEF Entry
  <2> QED BY <1>1, <1>2, <1>3, <1>4, <2>2, <2>3 DEF Entry
<1>5. CASE key \notin Fresh(key)
  BY <1>1, <1>2, <1>3, <1>5 DEF NewEntry, Entry
<1> QED BY <1>4, <1>5

\* Evidence accumulated in the pool is of the record's type, with its times in
\* order, whatever the clock did since.
LEMMA AccumulatedType ==
  ASSUME TypeOK, NEW entry \in Entry
  PROVE  /\ Accumulated(entry) \in Evidence /\ Accumulated(entry).id = issued + 1
         /\ InOrder(Accumulated(entry))
BY EvidenceAssumption DEF Accumulated, Entry, Evidence, InOrder, TypeOK

\* An explicit statement is evidence under the next number, with its times in order.
LEMMA StatedType ==
  ASSUME TypeOK
  PROVE  Stated \in Evidence /\ Stated.id = issued + 1 /\ InOrder(Stated)
BY EvidenceAssumption DEF Stated, Evidence, InOrder, TypeOK

\* A direct candidate's evidence is under the next number, with its times in order.
LEMMA GatedType ==
  ASSUME TypeOK, NEW refs \in SUBSET Refs, refs # {}
  PROVE  Gated(refs) \in Evidence /\ Gated(refs).id = issued + 1 /\ InOrder(Gated(refs))
<1>1. IsFiniteSet(refs) /\ Cardinality(refs) \in Nat
  BY FS_Subset, FS_CardinalityType, EvidenceAssumption
<1>2. Cardinality(refs) # 0
  BY <1>1, FS_EmptySet
<1> QED BY <1>1, <1>2, EvidenceAssumption DEF Gated, Evidence, InOrder, TypeOK

\* A renewed item keeps its number and, if it had evidence, the time it was first
\* seen; an item with a number had some.
LEMMA UpgradedType ==
  ASSUME TypeOK, NEW previous \in Record
  PROVE  /\ Upgraded(previous) \in Evidence
         /\ Upgraded(previous).id = previous.id
         /\ previous.id # 0 => Upgraded(previous).firstEvidenceAt = previous.firstEvidenceAt
<1>1. clock \in Nat
  BY EvidenceAssumption DEF TypeOK
<1>2. CASE previous = Legacy
  BY <1>1, <1>2 DEF Upgraded, Legacy, Never, Evidence
<1>3. CASE previous \in Evidence
  BY <1>1, <1>3 DEF Upgraded, Never, Evidence
<1> QED BY <1>2, <1>3 DEF Record

\* An address stated as if for the first time keeps its number.
LEMMA StatedAnewType ==
  ASSUME TypeOK, NEW n \in Nat
  PROVE  [Stated EXCEPT !.id = n] \in Evidence /\ [Stated EXCEPT !.id = n].id = n
BY StatedType DEF Evidence

-----------------------------------------------------------------------------
(* A contribution.                                                         *)

Mention(refs) == [batch |-> batch, refs |-> refs, at |-> clock]
Basis(key, refs) == Append(IF key \in Fresh(key) THEN support[key] ELSE <<>>, Mention(refs))

\* What an entry is counted from after one more contribution.
LEMMA BasisFacts ==
  ASSUME EvidenceInv, NEW key \in Keys, NEW refs \in SUBSET Refs
  PROVE  /\ Basis(key, refs) \in Seq(Contribution)
         /\ Basis(key, refs) # <<>>
         /\ Basis(key, refs)[Len(Basis(key, refs))].at = clock
         /\ NoLongPause(Basis(key, refs))
<1>1. Mention(refs) \in Contribution /\ Mention(refs).at = clock
  BY EvidenceAssumption DEF Mention, Contribution, EvidenceInv, TypeOK
<1>2. PICK earlier \in Seq(Contribution) :
           /\ Basis(key, refs) = Append(earlier, Mention(refs))
           /\ NoLongPause(earlier)
           /\ earlier # <<>> => clock - earlier[Len(earlier)].at <= TTL
  <2>1. CASE key \in Fresh(key)
    <3>1. key \in DOMAIN pool /\ ~(clock - pool[key].lastSeenAt > TTL)
      BY <2>1 DEF Fresh, Stale
    <3>2. /\ support[key] \in Seq(Contribution) /\ pool[key].lastSeenAt \in Nat
          /\ clock \in Nat /\ TTL \in Nat
      BY <3>1, EvidenceAssumption DEF EvidenceInv, TypeOK, Maps, Entry
    <3>3. EntryIsOfItsMentions(key)
      BY <3>1 DEF EvidenceInv
    <3>4. clock - support[key][Len(support[key])].at <= TTL
      BY <3>1, <3>2, <3>3 DEF EntryIsOfItsMentions
    <3> QED BY <2>1, <3>2, <3>3, <3>4 DEF Basis, EntryIsOfItsMentions
  <2>2. CASE key \notin Fresh(key)
    <3>1. <<>> \in Seq(Contribution) /\ NoLongPause(<<>>)
      BY DEF NoLongPause
    <3> QED BY <2>2, <3>1 DEF Basis
  <2> QED BY <2>1, <2>2
<1>3. NoLongPause(Basis(key, refs))
  BY <1>1, <1>2, AppendPause
<1>4. /\ Append(earlier, Mention(refs)) \in Seq(Contribution)
      /\ Len(Append(earlier, Mention(refs))) = Len(earlier) + 1
      /\ Append(earlier, Mention(refs))[Len(earlier) + 1] = Mention(refs)
  BY <1>1, <1>2, AppendProperties
<1>5. Append(earlier, Mention(refs)) # <<>>
  BY <1>4
<1> QED BY <1>1, <1>2, <1>3, <1>4, <1>5

\* The step, with its parts named.
LEMMA CandidateParts ==
  ASSUME NEW key, NEW refs, Candidate(key, refs)
  PROVE  /\ refs # {}
         /\ pool' = With([k \in Fresh(key) |-> pool[k]], key, NewEntry(key, refs))
         /\ support' = [support EXCEPT ![key] = Basis(key, refs)]
         /\ \/ UNCHANGED <<records, issued, admitted>>
            \/ /\ key \notin DOMAIN records /\ NewEntry(key, refs).count >= Threshold
               /\ records' = With(records, key, Accumulated(NewEntry(key, refs)))
               /\ issued' = issued + 1
               /\ admitted' = [admitted EXCEPT ![key] = Basis(key, refs)]
         /\ UNCHANGED <<clock, batch, loaded, commandVars>>
BY DEF Candidate, ValidRefs, Basis, Mention

-----------------------------------------------------------------------------
(* What a step does to the records.                                        *)

\* The first evidence of a record that had some from the beginning stays.
FirstStays(k) ==
  k \notin AddressKeys /\ records[k].id # 0
    => records'[k].firstEvidenceAt = records[k].firstEvidenceAt

\* A new record has a new id and its times in order, an old one stays itself.
RecordsEvolve ==
  /\ issued' \in Nat /\ issued <= issued'
  /\ \A k \in DOMAIN records' :
       \/ Lives(k) /\ FirstStays(k)
       \/ /\ records'[k].id = issued + 1 /\ issued' = issued + 1
          /\ InOrder(records'[k])

\* No prompt is changed, some are done with.
PromptsEnd == DOMAIN shown' \subseteq DOMAIN shown /\ \A c \in DOMAIN shown' : shown'[c] = shown[c]

\* Such a step keeps the candidates of the prompts earlier versions.
LEMMA RecordsStep ==
  ASSUME EvidenceInv, RecordsEvolve, PromptsEnd
  PROVE  /\ \A k \in DOMAIN records' : records'[k].id <= issued'
         /\ \A c \in DOMAIN shown' : \A k \in DOMAIN shown'[c] : ShownIsEarlier(c, k)'
<1>1. issued \in Nat /\ issued' \in Nat
  BY DEF EvidenceInv, TypeOK, RecordsEvolve
<1>2. ASSUME NEW k \in DOMAIN records PROVE records[k].id \in Nat /\ records[k].id <= issued
  BY DEF EvidenceInv, TypeOK, Maps, Record, Evidence, Legacy
<1>3. ASSUME NEW k \in DOMAIN records' PROVE records'[k].id <= issued'
  BY <1>1, <1>2 DEF RecordsEvolve, Lives
<1>4. ASSUME NEW c \in DOMAIN shown', NEW k \in DOMAIN shown'[c] PROVE ShownIsEarlier(c, k)'
  <2>1. c \in DOMAIN shown /\ shown'[c] = shown[c] /\ k \in DOMAIN shown[c]
    BY <1>4 DEF PromptsEnd
  <2>2. ShownIsEarlier(c, k)
    BY <2>1 DEF EvidenceInv
  <2>3. shown[c][k].id \in Nat
    BY <2>1 DEF EvidenceInv, TypeOK, Maps, Record, Evidence, Legacy
  <2>4. ASSUME k \in DOMAIN records' \ AddressKeys, records'[k].id = shown[c][k].id,
               shown[c][k].id # 0
        PROVE  records'[k].firstEvidenceAt = shown[c][k].firstEvidenceAt
    <3>1. Lives(k) /\ FirstStays(k)
      BY <1>1, <2>2, <2>3, <2>4 DEF RecordsEvolve, ShownIsEarlier
    <3> QED BY <2>2, <2>4, <3>1 DEF Lives, FirstStays, ShownIsEarlier
  <2>5. shown[c][k].id <= issued'
    BY <1>1, <2>2, <2>3 DEF RecordsEvolve, ShownIsEarlier
  <2> QED BY <2>1, <2>2, <2>4, <2>5 DEF ShownIsEarlier
<1> QED BY <1>3, <1>4

\* Nothing happens to the records.
LEMMA RecordsStay ==
  ASSUME EvidenceInv, UNCHANGED <<records, issued>>
  PROVE  RecordsEvolve
BY DEF RecordsEvolve, Lives, FirstStays, EvidenceInv, TypeOK

\* A record is added, or takes the place of another.
LEMMA RecordsAdd ==
  ASSUME EvidenceInv, NEW key \in Keys, NEW evidence \in Evidence,
         evidence.id = issued + 1, InOrder(evidence),
         records' = With(records, key, evidence), issued' = issued + 1
  PROVE  RecordsEvolve /\ Maps(records', Record)
<1>1. issued \in Nat
  BY DEF EvidenceInv, TypeOK
<1>2. Maps(records', Record)
  BY WithMaps DEF EvidenceInv, TypeOK, Record
<1>3. ASSUME NEW k \in DOMAIN records' PROVE
        \/ Lives(k) /\ FirstStays(k)
        \/ /\ records'[k].id = issued + 1 /\ issued' = issued + 1 /\ InOrder(records'[k])
  <2>1. CASE k # key
    <3>1. k \in DOMAIN records /\ records'[k] = records[k]
      BY <1>3, <2>1 DEF With
    <3> QED BY <1>3, <3>1 DEF Lives, FirstStays
  <2>2. CASE k = key
    <3>1. records'[k] = evidence
      BY <2>2 DEF With
    <3> QED BY <3>1
  <2> QED BY <2>1, <2>2
<1> QED BY <1>1, <1>3, <1>2 DEF RecordsEvolve

\* A record is rewritten with its id and, where that is due, its first evidence.
LEMMA RecordsRewrite ==
  ASSUME EvidenceInv, NEW key \in DOMAIN records, NEW evidence \in Evidence,
         evidence.id = records[key].id,
         key \notin AddressKeys /\ records[key].id # 0
           => evidence.firstEvidenceAt = records[key].firstEvidenceAt,
         records' = [records EXCEPT ![key] = evidence], UNCHANGED issued
  PROVE  RecordsEvolve /\ Maps(records', Record)
<1>1. DOMAIN records' = DOMAIN records
  OBVIOUS
<1>2. ASSUME NEW k \in DOMAIN records PROVE Lives(k) /\ FirstStays(k) /\ records'[k] \in Record
  <2>1. CASE k = key
    <3>1. records'[k] = evidence
      BY <2>1
    <3> QED BY <1>1, <2>1, <3>1 DEF Lives, FirstStays, Record
  <2>2. CASE k # key
    <3>1. records'[k] = records[k]
      BY <2>2
    <3> QED BY <1>1, <3>1 DEF Lives, FirstStays, EvidenceInv, TypeOK, Maps
  <2> QED BY <2>1, <2>2
<1> QED BY <1>1, <1>2 DEF RecordsEvolve, EvidenceInv, TypeOK, Maps
-----------------------------------------------------------------------------
(* The steps.                                                              *)

\* Nothing is pooled, recorded or shown yet.
LEMMA InitInv == Init => EvidenceInv
<1> SUFFICES ASSUME Init PROVE EvidenceInv
  OBVIOUS
<1>1. \A S : Maps(Empty, S)
  BY DEF Maps, Empty
<1>2. <<>> \in Seq(Contribution)
  OBVIOUS
<1>3. PICK old \in SUBSET LegacyKeys : records = [k \in old |-> Legacy]
  BY DEF Init
<1>4. Maps(records, Record) /\ \A k \in DOMAIN records : records[k].id = 0
  BY <1>3, EvidenceAssumption DEF Maps, Record, Legacy
<1>5. TypeOK
  BY <1>1, <1>2, <1>4, EvidenceAssumption DEF Init, TypeOK, Empty
<1>6. NoPauseBeyondTTL
  BY DEF Init, NoPauseBeyondTTL
<1> QED BY <1>4, <1>5, <1>6 DEF Init, EvidenceInv, Empty

\* A contribution counts with what was seen no longer ago than the time to live,
\* and what the key was counted from before is forgotten with the entry.
LEMMA CandidateInv ==
  ASSUME EvidenceInv, NEW key \in Keys, NEW refs \in SUBSET Refs, Candidate(key, refs)
  PROVE  EvidenceInv' /\ RecordsEvolve /\ PromptsEnd
<1> DEFINE entry == NewEntry(key, refs)
           basis == Basis(key, refs)
<1>1. /\ refs # {}
      /\ pool' = With([k \in Fresh(key) |-> pool[k]], key, entry)
      /\ support' = [support EXCEPT ![key] = basis]
      /\ UNCHANGED <<clock, batch, loaded, fresh, shown>>
  BY CandidateParts DEF commandVars
<1>2. \/ UNCHANGED <<records, issued, admitted>>
      \/ /\ key \notin DOMAIN records
         /\ records' = With(records, key, Accumulated(entry))
         /\ issued' = issued + 1
         /\ admitted' = [admitted EXCEPT ![key] = basis]
  BY CandidateParts
<1>3. TypeOK
  BY DEF EvidenceInv
<1>4. entry \in Entry /\ entry.lastSeenAt = clock
  BY <1>1, <1>3, NewEntryType
<1>5. /\ basis \in Seq(Contribution) /\ basis # <<>>
      /\ basis[Len(basis)].at = clock /\ NoLongPause(basis)
  BY BasisFacts
<1>6. Accumulated(entry) \in Evidence /\ Accumulated(entry).id = issued + 1 /\ InOrder(Accumulated(entry))
  BY <1>3, <1>4, AccumulatedType
<1> HIDE DEF entry, basis
<1>7. RecordsEvolve /\ Maps(records', Record)
  <2>1. CASE UNCHANGED <<records, issued, admitted>>
    BY <1>3, <2>1, RecordsStay DEF TypeOK
  <2>2. CASE /\ issued' = issued + 1
             /\ records' = With(records, key, Accumulated(entry))
    BY <1>6, <2>2, RecordsAdd
  <2> QED BY <1>2, <2>1, <2>2
<1>8. PromptsEnd
  BY <1>1 DEF PromptsEnd
<1>9. Maps(pool', Entry)
  <2>1. Maps([k \in Fresh(key) |-> pool[k]], Entry)
    BY <1>3 DEF TypeOK, Maps, Fresh
  <2> QED BY <1>1, <1>4, <2>1, WithMaps
<1>10. support' \in [Keys -> Seq(Contribution)] /\ admitted' \in [Keys -> Seq(Contribution)]
  BY <1>1, <1>2, <1>3, <1>5 DEF TypeOK
<1>12. issued' \in Nat
  BY <1>7 DEF RecordsEvolve
<1>13. TypeOK'
  BY <1>1, <1>3, <1>7, <1>9, <1>10, <1>12 DEF TypeOK
<1>14. ASSUME NEW k \in DOMAIN pool' PROVE EntryIsOfItsMentions(k)'
  <2>1. CASE k = key
    <3>1. pool'[k] = entry /\ support'[k] = basis
      BY <1>1, <1>3, <2>1 DEF With, TypeOK
    <3> QED BY <1>4, <1>5, <3>1 DEF EntryIsOfItsMentions
  <2>2. CASE k # key
    <3>1. k \in DOMAIN pool /\ pool'[k] = pool[k] /\ support'[k] = support[k]
      BY <1>1, <1>3, <1>14, <2>2 DEF With, TypeOK, Fresh, Maps
    <3> QED BY <3>1 DEF EntryIsOfItsMentions, EvidenceInv
  <2> QED BY <2>1, <2>2
<1>15. NoPauseBeyondTTL'
  <2>1. ASSUME NEW k \in Keys PROVE NoLongPause(admitted'[k])
    <3>1. admitted'[k] = admitted[k] \/ admitted'[k] = basis
      BY <1>2, <1>3 DEF TypeOK
    <3> QED BY <1>5, <3>1 DEF EvidenceInv, NoPauseBeyondTTL, NoLongPause
  <2> QED BY <2>1 DEF NoPauseBeyondTTL, NoLongPause
<1> QED BY <1>7, <1>8, <1>13, <1>14, <1>15, RecordsStep DEF EvidenceInv

\* A command, an address preference or a deletion: the pool and what it was counted
\* from stay, records evolve, prompts end.
LEMMA RecordStepInv ==
  ASSUME EvidenceInv, RecordsEvolve, PromptsEnd, Maps(records', Record),
         UNCHANGED <<clock, poolVars, fresh, loaded>>,
         \A k \in Keys : admitted'[k] \in {admitted[k], <<>>}, admitted' \in [Keys -> Seq(Contribution)]
  PROVE  EvidenceInv'
<1>1. TypeOK'
  BY DEF EvidenceInv, TypeOK, PromptsEnd, RecordsEvolve, poolVars
<1>2. \A k \in DOMAIN pool' : EntryIsOfItsMentions(k)'
  BY DEF EvidenceInv, EntryIsOfItsMentions, poolVars
<1>3. NoPauseBeyondTTL'
  <2>1. ASSUME NEW k \in Keys PROVE NoLongPause(admitted'[k])
    BY DEF EvidenceInv, NoPauseBeyondTTL, NoLongPause
  <2> QED BY <2>1 DEF NoPauseBeyondTTL, NoLongPause
<1> QED BY <1>1, <1>2, <1>3, RecordsStep DEF EvidenceInv

\* The end of a command.
LEMMA EndFacts ==
  ASSUME EvidenceInv, NEW c, End(c)
  PROVE  /\ PromptsEnd /\ c \in DOMAIN shown \ DOMAIN shown' /\ Maps(shown[c], Record)
         /\ \A k \in DOMAIN shown[c] : ShownIsEarlier(c, k)
BY DEF End, PromptsEnd, Without, EvidenceInv, TypeOK

\* A command that adds files one new record under the next number.
LEMMA OwnerAddInv ==
  ASSUME EvidenceInv, NEW c \in Commands, NEW key \in Keys, OwnerAdd(c, key)
  PROVE  EvidenceInv' /\ RecordsEvolve
<1>1. PromptsEnd
  BY EndFacts DEF OwnerAdd
<1>2. Stated \in Evidence /\ Stated.id = issued + 1 /\ InOrder(Stated)
  BY StatedType DEF EvidenceInv
<1>3. RecordsEvolve /\ Maps(records', Record)
  BY <1>2, RecordsAdd DEF OwnerAdd
<1> QED BY <1>1, <1>3, RecordStepInv DEF OwnerAdd, EvidenceInv, TypeOK

\* The evidence is computed from the candidate: it has the record's id and, by the
\* invariant, its first evidence.
LEMMA OwnerUpdateInv ==
  ASSUME EvidenceInv, NEW c \in Commands, NEW key \in Keys, OwnerUpdate(c, key)
  PROVE  EvidenceInv' /\ RecordsEvolve
<1>1. PromptsEnd /\ Maps(shown[c], Record) /\ \A k \in DOMAIN shown[c] : ShownIsEarlier(c, k)
  BY EndFacts DEF OwnerUpdate
<1>2. key \in DOMAIN shown[c] /\ key \in DOMAIN records /\ records[key].id = shown[c][key].id
  BY DEF OwnerUpdate, Target
<1>3. shown[c][key] \in Record
  BY <1>1, <1>2 DEF Maps
<1>4. PICK evidence \in Evidence :
           /\ evidence = Upgraded(shown[c][key])
           /\ evidence.id = shown[c][key].id
           /\ shown[c][key].id # 0 => evidence.firstEvidenceAt = shown[c][key].firstEvidenceAt
  BY <1>3, UpgradedType DEF EvidenceInv
<1>5. [evidence EXCEPT !.id = records[key].id] = evidence
  BY <1>2, <1>4 DEF Evidence
<1>6. records' = [records EXCEPT ![key] = evidence] /\ UNCHANGED issued
  BY <1>4, <1>5 DEF OwnerUpdate
<1>7. /\ evidence.id = records[key].id
      /\ key \notin AddressKeys /\ records[key].id # 0
           => evidence.firstEvidenceAt = records[key].firstEvidenceAt
  BY <1>1, <1>2, <1>4 DEF ShownIsEarlier
<1>8. RecordsEvolve /\ Maps(records', Record)
  BY <1>2, <1>6, <1>7, RecordsRewrite
<1> QED BY <1>1, <1>8, RecordStepInv DEF OwnerUpdate, EvidenceInv, TypeOK

\* A command that deletes takes one record away and renumbers none.
LEMMA OwnerDeleteInv ==
  ASSUME EvidenceInv, NEW c \in Commands, NEW key \in Keys, OwnerDelete(c, key)
  PROVE  EvidenceInv' /\ RecordsEvolve
<1>1. PromptsEnd
  BY EndFacts DEF OwnerDelete
<1>2. records' = Without(records, {key}) /\ UNCHANGED issued
  BY DEF OwnerDelete
<1>3. Maps(records', Record)
  BY <1>2, WithoutMaps DEF EvidenceInv, TypeOK
<1>4. \A k \in DOMAIN records' : k \in DOMAIN records /\ records'[k] = records[k]
  BY <1>2 DEF Without
<1>5. RecordsEvolve
  <2>1. issued' \in Nat /\ issued <= issued'
    BY <1>2 DEF EvidenceInv, TypeOK
  <2>2. \A k \in DOMAIN records' : k \in DOMAIN records /\ Lives(k) /\ FirstStays(k)
    BY <1>4 DEF Lives, FirstStays
  <2> QED BY <2>1, <2>2 DEF RecordsEvolve
<1>6. <<>> \in Seq(Contribution)
  OBVIOUS
<1>7. /\ admitted' \in [Keys -> Seq(Contribution)]
      /\ \A k \in Keys : admitted'[k] \in {admitted[k], <<>>}
  BY <1>6 DEF OwnerDelete, EvidenceInv, TypeOK
<1> QED BY <1>1, <1>3, <1>5, <1>7, RecordStepInv DEF OwnerDelete

\* A command that fails only stops holding its prompt.
LEMMA GiveUpInv ==
  ASSUME EvidenceInv, NEW c \in Commands, GiveUp(c)
  PROVE  EvidenceInv' /\ RecordsEvolve
<1>1. PromptsEnd
  BY EndFacts DEF GiveUp
<1>2. RecordsEvolve
  BY RecordsStay DEF GiveUp
<1> QED BY <1>1, <1>2, RecordStepInv DEF GiveUp, EvidenceInv, TypeOK

\* An address preference is renewed in place, or added under the next number.
LEMMA SelfAddressInv ==
  ASSUME EvidenceInv, NEW key \in Keys, SelfAddress(key)
  PROVE  EvidenceInv' /\ RecordsEvolve /\ PromptsEnd
<1>1. PromptsEnd
  BY DEF SelfAddress, PromptsEnd, commandVars
<1>2. RecordsEvolve /\ Maps(records', Record)
  <2>1. CASE key \in DOMAIN records
    <3>1. records[key] \in Record /\ records[key].id \in Nat
      BY <2>1 DEF EvidenceInv, TypeOK, Maps, Record, Evidence, Legacy
    <3>2. PICK evidence \in Evidence :
               evidence.id = records[key].id /\ records' = [records EXCEPT ![key] = evidence]
      <4>1. CASE records' = [records EXCEPT ![key] = Upgraded(records[key])]
        BY <3>1, <4>1, UpgradedType DEF EvidenceInv
      <4>2. CASE records' = [records EXCEPT ![key] = [Stated EXCEPT !.id = records[key].id]]
        BY <3>1, <4>2, StatedAnewType DEF EvidenceInv
      <4> QED BY <2>1, <4>1, <4>2 DEF SelfAddress
    <3>3. UNCHANGED issued /\ key \in AddressKeys
      BY <2>1 DEF SelfAddress
    <3> QED BY <2>1, <3>2, <3>3, RecordsRewrite
  <2>2. CASE key \notin DOMAIN records
    <3>1. Stated \in Evidence /\ Stated.id = issued + 1 /\ InOrder(Stated)
      BY StatedType DEF EvidenceInv
    <3> QED BY <2>2, <3>1, RecordsAdd DEF SelfAddress
  <2> QED BY <2>1, <2>2
<1> QED BY <1>1, <1>2, RecordStepInv DEF SelfAddress, EvidenceInv, TypeOK, commandVars

\* A direct candidate adds a record, or gives a slot another.
LEMMA DirectInv ==
  ASSUME EvidenceInv, NEW key \in Keys, NEW refs \in SUBSET Refs, Direct(key, refs)
  PROVE  EvidenceInv' /\ RecordsEvolve
<1>1. PromptsEnd
  BY DEF Direct, PromptsEnd, commandVars
<1>2. Gated(refs) \in Evidence /\ Gated(refs).id = issued + 1 /\ InOrder(Gated(refs))
  BY GatedType DEF EvidenceInv, Direct, ValidRefs
<1>3. RecordsEvolve /\ Maps(records', Record)
  BY <1>2, RecordsAdd DEF Direct
<1> QED BY <1>1, <1>3, RecordStepInv DEF Direct, EvidenceInv, TypeOK, commandVars

\* A prompt holds live records of the scopes its command reaches.
LEMMA CommandInv ==
  ASSUME EvidenceInv, NEW c \in Commands, Command(c)
  PROVE  EvidenceInv'
<1>1. PICK candidates \in SUBSET {k \in DOMAIN records : ScopeOf[k] \in Reach[c]} :
           shown' = With(shown, c, [k \in candidates |-> records[k]])
  BY DEF Command
<1>2. TypeOK'
  <2>1. Maps([k \in candidates |-> records[k]], Record)
    BY <1>1 DEF EvidenceInv, TypeOK, Maps
  <2>2. \A d \in DOMAIN shown' : Maps(shown'[d], Record)
    BY <1>1, <2>1 DEF With, EvidenceInv, TypeOK
  <2>3. DOMAIN shown' \subseteq Commands \ fresh' /\ fresh' \subseteq Commands
    BY <1>1 DEF With, Command, EvidenceInv, TypeOK
  <2> QED BY <2>2, <2>3 DEF Command, EvidenceInv, TypeOK, poolVars
<1>3. \A k \in DOMAIN pool' : EntryIsOfItsMentions(k)'
  BY DEF Command, EvidenceInv, EntryIsOfItsMentions, poolVars
<1>4. NoPauseBeyondTTL'
  BY DEF Command, EvidenceInv, NoPauseBeyondTTL
<1>5. ASSUME NEW d \in DOMAIN shown', NEW k \in DOMAIN shown'[d] PROVE ShownIsEarlier(d, k)'
  <2>1. CASE d = c
    <3>1. k \in candidates /\ shown'[d][k] = records[k]
      BY <1>1, <1>5, <2>1 DEF With
    <3>2. ScopeOf[k] \in Reach[c] /\ records[k].id <= issued
      BY <3>1 DEF EvidenceInv
    <3> QED BY <2>1, <3>1, <3>2 DEF Command, ShownIsEarlier
  <2>2. CASE d # c
    <3>1. d \in DOMAIN shown /\ shown'[d] = shown[d]
      BY <1>1, <1>5, <2>2 DEF With
    <3>2. ShownIsEarlier(d, k)
      BY <1>5, <3>1 DEF EvidenceInv
    <3> QED BY <3>1, <3>2 DEF Command, ShownIsEarlier
  <2> QED BY <2>1, <2>2
<1> QED BY <1>2, <1>3, <1>4, <1>5 DEF Command, EvidenceInv

\* The next batch and the clock.
LEMMA TimeInv ==
  ASSUME EvidenceInv, NextBatch \/ Tick \/ StepBack
  PROVE  EvidenceInv' /\ UNCHANGED records
<1>1. UNCHANGED <<pool, records, issued, fresh, shown, loaded, support, admitted>>
  BY DEF NextBatch, Tick, StepBack, poolVars, commandVars
<1>2. clock' \in 0 .. MaxClock /\ batch' \in 1 .. MaxBatches
  BY EvidenceAssumption DEF NextBatch, Tick, StepBack, poolVars, EvidenceInv, TypeOK
<1>3. TypeOK'
  BY <1>1, <1>2 DEF EvidenceInv, TypeOK
<1>4. \A k \in DOMAIN pool' : EntryIsOfItsMentions(k)'
  BY <1>1 DEF EvidenceInv, EntryIsOfItsMentions
<1>5. NoPauseBeyondTTL'
  BY <1>1 DEF EvidenceInv, NoPauseBeyondTTL
<1>6. \A c \in DOMAIN shown' : \A k \in DOMAIN shown'[c] : ShownIsEarlier(c, k)'
  BY <1>1 DEF EvidenceInv, ShownIsEarlier
<1> QED BY <1>1, <1>3, <1>4, <1>5, <1>6 DEF EvidenceInv

\* A restart empties pool and prompts and keeps the records.
LEMMA RestartInv ==
  ASSUME EvidenceInv, Restart
  PROVE  EvidenceInv' /\ UNCHANGED records
<1>1. \A S : Maps(Empty, S)
  BY DEF Maps, Empty
<1>2. <<>> \in Seq(Contribution)
  OBVIOUS
<1>3. batch' \in 1 .. MaxBatches /\ loaded' \in BOOLEAN
  BY EvidenceAssumption DEF Restart, EvidenceInv, TypeOK
<1>4. TypeOK'
  BY <1>1, <1>2, <1>3 DEF Restart, EvidenceInv, TypeOK, Empty
<1>5. NoPauseBeyondTTL'
  BY DEF Restart, EvidenceInv, NoPauseBeyondTTL
<1> QED BY <1>4, <1>5 DEF Restart, EvidenceInv, Empty
-----------------------------------------------------------------------------
(* The theorems.                                                           *)

\* Every step preserves the invariant.
LEMMA NextInv ==
  ASSUME EvidenceInv, [Next]_vars
  PROVE  EvidenceInv' /\ RecordsEvolve
<1>1. ASSUME NEW key \in Keys, NEW refs \in SUBSET Refs, Candidate(key, refs)
      PROVE  EvidenceInv' /\ RecordsEvolve
  BY <1>1, CandidateInv
<1>2. ASSUME NEW key \in Keys, SelfAddress(key) \/ \E refs \in SUBSET Refs : Direct(key, refs)
      PROVE  EvidenceInv' /\ RecordsEvolve
  BY <1>2, SelfAddressInv, DirectInv
<1>3. ASSUME NEW c \in Commands, NEW key \in Keys,
             OwnerAdd(c, key) \/ OwnerUpdate(c, key) \/ OwnerDelete(c, key)
      PROVE  EvidenceInv' /\ RecordsEvolve
  BY <1>3, OwnerAddInv, OwnerUpdateInv, OwnerDeleteInv
<1>4. ASSUME NEW c \in Commands, Command(c) PROVE EvidenceInv' /\ RecordsEvolve
  BY <1>4, CommandInv, RecordsStay DEF Command
<1>5. ASSUME NEW c \in Commands, GiveUp(c) PROVE EvidenceInv' /\ RecordsEvolve
  BY <1>5, GiveUpInv
<1>6. ASSUME NextBatch \/ Tick \/ StepBack PROVE EvidenceInv' /\ RecordsEvolve
  <2>1. UNCHANGED <<records, issued>>
    BY <1>6 DEF NextBatch, Tick, StepBack
  <2> QED BY <1>6, <2>1, TimeInv, RecordsStay
<1>7. CASE Restart
  BY <1>7, RestartInv, RecordsStay DEF Restart
<1>8. CASE UNCHANGED vars
  <2>1. UNCHANGED <<clock, batch, pool, support, records, issued, fresh, shown, loaded, admitted>>
    BY <1>8 DEF vars, poolVars, commandVars
  <2>2. RecordsEvolve /\ PromptsEnd
    BY <2>1, RecordsStay DEF PromptsEnd
  <2> QED BY <2>1, <2>2, RecordStepInv DEF EvidenceInv, TypeOK, poolVars
<1> QED BY <1>1, <1>2, <1>3, <1>4, <1>5, <1>6, <1>7, <1>8 DEF Next

\* The inductive invariant.
THEOREM EvidenceInvariance == Spec => []EvidenceInv
<1>1. EvidenceInv /\ [Next]_vars => EvidenceInv'
  BY NextInv
<1> QED BY InitInv, <1>1, PTL DEF Spec

\* The variables keep their types: every entry of the pool and every record has a
\* positive count, and a command is new, running or over.
THEOREM TypeCorrectness == Spec => []TypeOK
<1>1. EvidenceInv => TypeOK
  BY DEF EvidenceInv
<1> QED BY <1>1, EvidenceInvariance, PTL

\* addEvidence and its sweep: no record is admitted on mentions with a pause beyond
\* the time to live between two of them.
THEOREM PausesAreShort == Spec => []NoPauseBeyondTTL
<1>1. EvidenceInv => NoPauseBeyondTTL
  BY DEF EvidenceInv
<1> QED BY <1>1, EvidenceInvariance, PTL

\* What may become of a record.
Changed(k) ==
  \/ k \in DOMAIN records' /\ records'[k] = records[k]
  \/ Commanded(k) \/ Restated(k) \/ Superseded(k)

\* A record that is updated or deleted was in the prompt of the command.
LEMMA CommandedTarget ==
  ASSUME EvidenceInv, NEW c \in Commands, NEW key \in Keys, End(c), Target(c, key),
         Lives(key) \/ key \notin DOMAIN records'
  PROVE  Commanded(key)
<1>1. c \in DOMAIN shown \ DOMAIN shown' /\ \A k \in DOMAIN shown[c] : ShownIsEarlier(c, k)
  BY EndFacts
<1>2. ShownTo(c, key)
  BY <1>1 DEF Target, ShownTo, ShownIsEarlier
<1> QED BY <1>1, <1>2 DEF Commanded

\* A record with a new number is another record.
LEMMA NewNumber ==
  ASSUME EvidenceInv, NEW k \in DOMAIN records, k \in DOMAIN records', records'[k].id = issued + 1
  PROVE  ~Lives(k)
BY DEF EvidenceInv, TypeOK, Maps, Record, Evidence, Legacy, Lives

\* Only a command, a new address or a new value of its slot changes a record.
LEMMA NextChanges ==
  ASSUME EvidenceInv, Next
  PROVE  \A k \in DOMAIN records : Changed(k)
<1>1. ASSUME NEW key \in Keys, NEW refs \in SUBSET Refs, Candidate(key, refs)
      PROVE  \A k \in DOMAIN records : Changed(k)
  <2>1. records' = records \/ \E value : records' = With(records, key, value) /\ key \notin DOMAIN records
    BY <1>1, CandidateParts
  <2>2. \A k \in DOMAIN records : k \in DOMAIN records' /\ records'[k] = records[k]
    BY <2>1 DEF With
  <2> QED BY <2>2 DEF Changed
<1>2. ASSUME NEW key \in Keys, NEW refs \in SUBSET Refs, Direct(key, refs)
      PROVE  \A k \in DOMAIN records : Changed(k)
  <2> SUFFICES ASSUME NEW k \in DOMAIN records PROVE Changed(k)
    OBVIOUS
  <2>1. records' = With(records, key, Gated(refs))
    BY <1>2 DEF Direct
  <2>2. CASE k # key
    <3>1. k \in DOMAIN records' /\ records'[k] = records[k]
      BY <2>1, <2>2 DEF With
    <3> QED BY <3>1 DEF Changed
  <2>3. CASE k = key
    <3>1. k \in SlotKeys /\ Gated(refs).id = issued + 1
      BY <1>2, <2>3 DEF Direct, Gated
    <3>2. k \in DOMAIN records' /\ records'[k] = Gated(refs)
      BY <2>1, <2>3 DEF With
    <3>3. ~Lives(k)
      BY <3>1, <3>2, NewNumber
    <3> QED BY <3>1, <3>2, <3>3 DEF Changed, Superseded
  <2> QED BY <2>2, <2>3
<1>3. ASSUME NEW key \in Keys, SelfAddress(key) PROVE \A k \in DOMAIN records : Changed(k)
  <2> SUFFICES ASSUME NEW k \in DOMAIN records PROVE Changed(k)
    OBVIOUS
  <2>1. CASE key \notin DOMAIN records
    <3>1. records' = With(records, key, Stated) /\ k # key
      BY <1>3, <2>1 DEF SelfAddress
    <3>2. k \in DOMAIN records' /\ records'[k] = records[k]
      BY <3>1 DEF With
    <3> QED BY <3>2 DEF Changed
  <2>2. CASE key \in DOMAIN records /\ k # key
    <3>1. k \in DOMAIN records' /\ records'[k] = records[k]
      BY <1>3, <2>2 DEF SelfAddress
    <3> QED BY <3>1 DEF Changed
  <2>3. CASE key \in DOMAIN records /\ k = key
    <3>1. /\ k \in AddressKeys /\ DOMAIN records' = DOMAIN records
          /\ records'[k] \in {Upgraded(records[k]), [Stated EXCEPT !.id = records[k].id]}
      BY <1>3, <2>3 DEF SelfAddress
    <3>2. records[k] \in Record /\ records[k].id \in Nat
      BY DEF EvidenceInv, TypeOK, Maps, Record, Evidence, Legacy
    <3>3. records'[k].id = records[k].id
      BY <3>1, <3>2, UpgradedType, StatedAnewType DEF EvidenceInv
    <3> QED BY <3>1, <3>3 DEF Changed, Restated, Lives
  <2> QED BY <2>1, <2>2, <2>3
<1>4. ASSUME NEW c \in Commands, NEW key \in Keys, OwnerAdd(c, key)
      PROVE  \A k \in DOMAIN records : Changed(k)
  <2>1. key \notin DOMAIN records /\ records' = With(records, key, Stated)
    BY <1>4 DEF OwnerAdd
  <2>2. \A k \in DOMAIN records : k \in DOMAIN records' /\ records'[k] = records[k]
    BY <2>1 DEF With
  <2> QED BY <2>2 DEF Changed
<1>5. ASSUME NEW c \in Commands, NEW key \in Keys, OwnerUpdate(c, key)
      PROVE  \A k \in DOMAIN records : Changed(k)
  <2>1. /\ End(c) /\ Target(c, key) /\ key \in DOMAIN records
        /\ records' = [records EXCEPT ![key] = [Upgraded(shown[c][key]) EXCEPT !.id = records[key].id]]
    BY <1>5 DEF OwnerUpdate, Target
  <2>2. shown[c][key] \in Record
    BY <2>1, EndFacts DEF Target, Maps
  <2>3. PICK evidence \in Evidence : evidence = Upgraded(shown[c][key])
    BY <2>2, UpgradedType DEF EvidenceInv
  <2>4. [evidence EXCEPT !.id = records[key].id].id = records[key].id
    BY DEF Evidence
  <2>5. Lives(key)
    BY <2>1, <2>3, <2>4 DEF Lives
  <2>6. Commanded(key)
    BY <2>1, <2>5, CommandedTarget
  <2>7. \A k \in DOMAIN records \ {key} : k \in DOMAIN records' /\ records'[k] = records[k]
    BY <2>1
  <2> QED BY <2>6, <2>7 DEF Changed
<1>6. ASSUME NEW c \in Commands, NEW key \in Keys, OwnerDelete(c, key)
      PROVE  \A k \in DOMAIN records : Changed(k)
  <2>1. End(c) /\ Target(c, key) /\ records' = Without(records, {key})
    BY <1>6 DEF OwnerDelete
  <2>2. /\ key \notin DOMAIN records'
        /\ \A k \in DOMAIN records \ {key} : k \in DOMAIN records' /\ records'[k] = records[k]
    BY <2>1 DEF Without
  <2>3. Commanded(key)
    BY <2>1, <2>2, CommandedTarget
  <2> QED BY <2>2, <2>3 DEF Changed
<1>7. ASSUME UNCHANGED records PROVE \A k \in DOMAIN records : Changed(k)
  BY <1>7 DEF Changed
<1>8. ASSUME NEW c \in Commands, Command(c) \/ GiveUp(c) PROVE UNCHANGED records
  BY <1>8 DEF Command, GiveUp
<1>9. ASSUME NextBatch \/ Restart \/ Tick \/ StepBack PROVE UNCHANGED records
  BY <1>9 DEF NextBatch, Restart, Tick, StepBack
<1> QED BY <1>1, <1>2, <1>3, <1>4, <1>5, <1>6, <1>7, <1>8, <1>9 DEF Next

\* tryHandleExplicit, upsertCurrentSlot and upgradedExplicitEvidence: whatever
\* happened under the await, a command changes only what its prompt held, nothing
\* else changes a record but a new address or a new value of its slot, and a record
\* that had evidence from the beginning and is no address keeps its first.
THEOREM EvidenceStaysWithItsRecord == Spec => EvidenceIsKept
<1> DEFINE Keeps ==
      /\ \A k \in DOMAIN records' : Lives(k) \/ InOrder(records'[k])
      /\ \A k \in DOMAIN records :
           \/ k \in DOMAIN records' /\ records'[k] = records[k]
           \/ Commanded(k) \/ Restated(k) \/ Superseded(k)
      /\ \A k \in DOMAIN records \ AddressKeys :
           Lives(k) /\ records[k].id # Legacy.id
             => records'[k].firstEvidenceAt = records[k].firstEvidenceAt
<1>1. EvidenceInv /\ [Next]_vars => [Keeps]_vars
  <2> SUFFICES ASSUME EvidenceInv, Next PROVE Keeps
    OBVIOUS
  <2>1. RecordsEvolve
    BY NextInv
  <2>2. \A k \in DOMAIN records : Changed(k)
    BY NextChanges
  <2>3. ASSUME NEW k \in DOMAIN records \ AddressKeys, Lives(k), records[k].id # Legacy.id
        PROVE  records'[k].firstEvidenceAt = records[k].firstEvidenceAt
    <3>1. k \in DOMAIN records' /\ records'[k].id # issued + 1
      BY <2>3, NewNumber DEF Lives
    <3> QED BY <2>1, <2>3, <3>1 DEF RecordsEvolve, FirstStays, Legacy
  <2>4. \A k \in DOMAIN records' : Lives(k) \/ InOrder(records'[k])
    BY <2>1 DEF RecordsEvolve
  <2> QED BY <2>2, <2>3, <2>4 DEF Changed
<1> QED BY <1>1, EvidenceInvariance, PTL DEF Spec, EvidenceIsKept
-----------------------------------------------------------------------------
(* Counting.                                                               *)

\* The count of an entry is the number of the messages behind it, unless a batch
\* named the key twice for one of them.
CountedFrom(k) ==
  /\ IsFiniteSet(Messages(support[k]))
  /\ Repeats(support[k]) \/ pool[k].count = Cardinality(Messages(support[k]))

\* A record was admitted on enough messages, with the same exception.
AdmittedOn(history) ==
  history = <<>> \/ Repeats(history) \/ Cardinality(Messages(history)) >= Threshold

CountInv ==
  /\ EvidenceInv
  /\ \A k \in DOMAIN pool : CountedFrom(k)
  /\ \A k \in Keys : AdmittedOn(admitted[k])

\* No contribution, no message.
LEMMA MessagesOfNone == Messages(<<>>) = {}
BY DEF Messages

\* One contribution adds its own references.
LEMMA MessagesAppend ==
  ASSUME NEW history \in Seq(Contribution), NEW item \in Contribution
  PROVE  Messages(Append(history, item)) = Messages(history) \cup ({item.batch} \X item.refs)
<1>1. /\ Len(history) \in Nat /\ DOMAIN history = 1 .. Len(history)
      /\ DOMAIN Append(history, item) = 1 .. Len(history) + 1
      /\ Append(history, item)[Len(history) + 1] = item
      /\ \A j \in 1 .. Len(history) : Append(history, item)[j] = history[j]
  BY AppendProperties
<1>2. DOMAIN Append(history, item) = DOMAIN history \cup {Len(history) + 1}
  BY <1>1
<1>3. \A j \in DOMAIN history : Append(history, item)[j] = history[j]
  BY <1>1
<1> QED BY <1>1, <1>2, <1>3 DEF Messages

\* A contribution that makes no repetition is behind none of the messages so far.
LEMMA AppendRepeats ==
  ASSUME NEW history \in Seq(Contribution), NEW item \in Contribution
  PROVE  /\ Repeats(history) => Repeats(Append(history, item))
         /\ \/ Repeats(Append(history, item))
            \/ Messages(history) \cap ({item.batch} \X item.refs) = {}
<1> DEFINE longer == Append(history, item)
<1>1. /\ Len(history) \in Nat /\ DOMAIN history = 1 .. Len(history)
      /\ DOMAIN longer = 1 .. Len(history) + 1
      /\ longer[Len(history) + 1] = item
      /\ \A j \in 1 .. Len(history) : longer[j] = history[j]
  BY AppendProperties
<1> HIDE DEF longer
<1>2. ASSUME Repeats(history) PROVE Repeats(longer)
  <2>1. PICK i, j \in DOMAIN history :
             i # j /\ history[i].batch = history[j].batch /\ history[i].refs \cap history[j].refs # {}
    BY <1>2 DEF Repeats
  <2>2. i \in DOMAIN longer /\ j \in DOMAIN longer /\ longer[i] = history[i] /\ longer[j] = history[j]
    BY <1>1, <2>1
  <2> QED BY <2>1, <2>2 DEF Repeats
<1>3. ASSUME NEW m \in Messages(history) \cap ({item.batch} \X item.refs) PROVE Repeats(longer)
  <2>1. PICK i \in DOMAIN history : m \in {history[i].batch} \X history[i].refs
    BY <1>3 DEF Messages
  <2>2. /\ m[1] = history[i].batch /\ m[2] \in history[i].refs
        /\ m[1] = item.batch /\ m[2] \in item.refs
    BY <1>3, <2>1
  <2>3. /\ i \in DOMAIN longer /\ Len(history) + 1 \in DOMAIN longer /\ i # Len(history) + 1
        /\ longer[i] = history[i]
    BY <1>1, <2>1
  <2>4. longer[i].refs \cap longer[Len(history) + 1].refs # {}
    BY <1>1, <2>2, <2>3
  <2>5. longer[i].batch = longer[Len(history) + 1].batch
    BY <1>1, <2>2, <2>3
  <2> QED BY <2>3, <2>4, <2>5 DEF Repeats
<1> QED BY <1>2, <1>3 DEF longer

\* One more contribution counts its references.
LEMMA CandidateCounts ==
  ASSUME CountInv, NEW key \in Keys, NEW refs \in SUBSET Refs, Candidate(key, refs)
  PROVE  CountInv'
<1> DEFINE entry == NewEntry(key, refs)
           basis == Basis(key, refs)
<1>1. EvidenceInv' /\ EvidenceInv /\ TypeOK
  BY CandidateInv DEF CountInv, EvidenceInv
<1>2. /\ refs # {}
      /\ pool' = With([k \in Fresh(key) |-> pool[k]], key, entry)
      /\ support' = [support EXCEPT ![key] = basis]
  BY CandidateParts
<1>3. \/ UNCHANGED admitted
      \/ entry.count >= Threshold /\ admitted' = [admitted EXCEPT ![key] = basis]
  BY CandidateParts
<1>4. /\ IsFiniteSet(refs) /\ Cardinality(refs) \in Nat /\ entry \in Entry
      /\ entry.count = (IF key \in Fresh(key) THEN pool[key].count ELSE 0) + Cardinality(refs)
  BY <1>1, <1>2, NewEntryType
<1>5. PICK mention \in Contribution : mention = Mention(refs)
  <2>1. clock \in Nat /\ batch \in 1 .. MaxBatches
    BY <1>1, EvidenceAssumption DEF TypeOK
  <2>2. Mention(refs) \in Contribution
    BY <2>1 DEF Mention, Contribution
  <2> QED BY <2>2
<1>6. mention.batch = batch /\ mention.refs = refs
  BY <1>5 DEF Mention
<1>7. PICK earlier \in Seq(Contribution), counted \in Nat :
        /\ basis = Append(earlier, mention)
        /\ counted = IF key \in Fresh(key) THEN pool[key].count ELSE 0
        /\ IsFiniteSet(Messages(earlier))
        /\ Repeats(earlier) \/ counted = Cardinality(Messages(earlier))
  <2>1. CASE key \in Fresh(key)
    <3>1. key \in DOMAIN pool /\ CountedFrom(key)
      BY <2>1 DEF Fresh, CountInv
    <3>2. support[key] \in Seq(Contribution) /\ pool[key].count \in Nat
      BY <1>1, <3>1 DEF TypeOK, Maps, Entry
    <3> QED BY <1>5, <2>1, <3>1, <3>2 DEF Basis, CountedFrom
  <2>2. CASE key \notin Fresh(key)
    <3>1. IsFiniteSet(Messages(<<>>)) /\ Cardinality(Messages(<<>>)) = 0
      BY FS_EmptySet, MessagesOfNone
    <3>2. basis = Append(<<>>, mention) /\ <<>> \in Seq(Contribution)
      BY <1>5, <2>2 DEF Basis
    <3> HIDE DEF basis
    <3> WITNESS <<>> \in Seq(Contribution), 0 \in Nat
    <3> QED BY <2>2, <3>1, <3>2
  <2> QED BY <2>1, <2>2
<1>8. PICK own : own = {batch} \X refs
  OBVIOUS
<1>9. IsFiniteSet(own) /\ Cardinality(own) = Cardinality(refs)
  <2>1. IsFiniteSet({batch}) /\ Cardinality({batch}) = 1
    BY FS_Singleton
  <2>2. IsFiniteSet(own) /\ Cardinality(own) = 1 * Cardinality(refs)
    BY <1>4, <1>8, <2>1, FS_Product
  <2> QED BY <1>4, <2>2
<1>10. Messages(basis) = Messages(earlier) \cup own
  BY <1>6, <1>7, <1>8, MessagesAppend
<1>11. /\ IsFiniteSet(Messages(basis))
       /\ Cardinality(Messages(basis)) =
            Cardinality(Messages(earlier)) + Cardinality(refs) - Cardinality(Messages(earlier) \cap own)
  BY <1>7, <1>9, <1>10, FS_Union
<1>12. Cardinality(Messages(earlier)) \in Nat
  BY <1>7, FS_CardinalityType
<1>13. /\ Repeats(earlier) => Repeats(basis)
       /\ Repeats(basis) \/ Messages(earlier) \cap own = {}
  BY <1>6, <1>7, <1>8, AppendRepeats
<1>14. Repeats(basis) \/ entry.count = Cardinality(Messages(basis))
  <2> SUFFICES ASSUME ~Repeats(basis) PROVE entry.count = Cardinality(Messages(basis))
    OBVIOUS
  <2>1. Cardinality(Messages(earlier) \cap own) = 0
    BY <1>13, FS_EmptySet
  <2> QED BY <1>4, <1>7, <1>11, <1>12, <1>13, <2>1
<1>15. entry.count \in Nat /\ Threshold \in Nat
  BY <1>4, EvidenceAssumption DEF Entry
<1> HIDE DEF entry, basis
<1>16. ASSUME NEW k \in DOMAIN pool' PROVE CountedFrom(k)'
  <2>1. CASE k = key
    <3>1. pool'[k] = entry /\ support'[k] = basis
      BY <1>1, <1>2, <2>1 DEF With, TypeOK
    <3> QED BY <1>11, <1>14, <3>1 DEF CountedFrom
  <2>2. CASE k # key
    <3>1. k \in DOMAIN pool /\ pool'[k] = pool[k] /\ support'[k] = support[k]
      BY <1>1, <1>2, <1>16, <2>2 DEF With, TypeOK, Fresh, Maps
    <3>2. CountedFrom(k)
      BY <3>1 DEF CountInv
    <3> QED BY <3>1, <3>2 DEF CountedFrom
  <2> QED BY <2>1, <2>2
<1>17. ASSUME NEW k \in Keys PROVE AdmittedOn(admitted'[k])
  <2>1. CASE admitted'[k] = admitted[k]
    BY <2>1 DEF CountInv
  <2>2. CASE admitted'[k] = basis /\ entry.count >= Threshold
    BY <1>14, <2>2 DEF AdmittedOn
  <2> QED BY <1>1, <1>3, <2>1, <2>2 DEF TypeOK
<1> QED BY <1>1, <1>16, <1>17 DEF CountInv

\* Every other step leaves the entries and what they were counted from, or loses
\* them all.
LEMMA OthersCount ==
  ASSUME CountInv, EvidenceInv', UNCHANGED <<pool, support>> \/ pool' = Empty,
         \A k \in Keys : admitted'[k] \in {admitted[k], <<>>}
  PROVE  CountInv'
<1>1. ASSUME NEW k \in DOMAIN pool' PROVE CountedFrom(k)'
  <2>1. UNCHANGED <<pool, support>>
    BY <1>1 DEF Empty
  <2> QED BY <1>1, <2>1 DEF CountInv, CountedFrom
<1>2. \A k \in Keys : AdmittedOn(admitted'[k])
  BY DEF CountInv, AdmittedOn
<1> QED BY <1>1, <1>2 DEF CountInv

\* Nothing is counted yet.
LEMMA InitCount == Init => CountInv
<1> SUFFICES ASSUME Init PROVE CountInv
  OBVIOUS
<1>1. \A k \in Keys : AdmittedOn(admitted[k])
  BY DEF Init, AdmittedOn
<1>2. \A k \in DOMAIN pool : CountedFrom(k)
  BY DEF Init, Empty
<1> QED BY <1>1, <1>2, InitInv DEF CountInv

\* Every step keeps the counts behind the entries of the pool.
LEMMA NextCount ==
  ASSUME CountInv, [Next]_vars
  PROVE  CountInv'
<1>1. EvidenceInv' /\ EvidenceInv
  BY NextInv DEF CountInv
<1>2. ASSUME NEW key \in Keys, NEW refs \in SUBSET Refs, Candidate(key, refs) PROVE CountInv'
  BY <1>2, CandidateCounts
<1>3. ASSUME NEW c \in Commands, NEW key \in Keys, OwnerDelete(c, key) PROVE CountInv'
  <2>1. \A k \in Keys : admitted'[k] \in {admitted[k], <<>>}
    BY <1>1, <1>3 DEF OwnerDelete, EvidenceInv, TypeOK
  <2>2. UNCHANGED <<pool, support>>
    BY <1>3 DEF OwnerDelete, poolVars
  <2> QED BY <1>1, <2>1, <2>2, OthersCount
<1>4. ASSUME UNCHANGED <<pool, support, admitted>> PROVE CountInv'
  BY <1>1, <1>4, OthersCount
<1>5. ASSUME NEW c \in Commands, NEW key \in Keys, OwnerAdd(c, key) \/ OwnerUpdate(c, key)
      PROVE  UNCHANGED <<pool, support, admitted>>
  BY <1>5 DEF OwnerAdd, OwnerUpdate, poolVars
<1>6. ASSUME NEW key \in Keys, SelfAddress(key) \/ \E refs \in SUBSET Refs : Direct(key, refs)
      PROVE  UNCHANGED <<pool, support, admitted>>
  BY <1>6 DEF SelfAddress, Direct, poolVars
<1>7. ASSUME NEW c \in Commands, Command(c) \/ GiveUp(c) PROVE UNCHANGED <<pool, support, admitted>>
  BY <1>7 DEF Command, GiveUp, poolVars
<1>8. CASE Restart
  <2>1. pool' = Empty /\ UNCHANGED admitted
    BY <1>8 DEF Restart
  <2> QED BY <1>1, <2>1, OthersCount
<1>9. CASE NextBatch \/ Tick \/ StepBack \/ UNCHANGED vars
  <2>1. UNCHANGED <<pool, support, admitted>>
    BY <1>9 DEF NextBatch, Tick, StepBack, poolVars, vars
  <2> QED BY <1>4, <2>1
<1> QED BY <1>2, <1>3, <1>4, <1>5, <1>6, <1>7, <1>8, <1>9 DEF Next

\* The counts are right in every reachable state.
LEMMA CountInvariance == Spec => []CountInv
BY InitCount, NextCount, PTL DEF Spec

\* addEvidence and REPEATED_EVIDENCE_ADMISSION_THRESHOLD: the count of an entry is the
\* number of distinct messages behind it, and a record is admitted on at least the
\* threshold of them, unless a batch named the key twice for one message, which the
\* gate does not see.
THEOREM OnlyRepeatsInflateCounts == Spec => []OnlyRepeatsInflate
<1>1. CountInv => OnlyRepeatsInflate
  BY DEF CountInv, CountedFrom, AdmittedOn, OnlyRepeatsInflate
<1> QED BY <1>1, CountInvariance, PTL
=============================================================================
