-------------------------- MODULE PromptSourceProofs --------------------------
(***************************************************************************)
(* Theorems about the two stores a prompt is built from, for every value of*)
(* their constants.  They share nothing, so the parts of this module can be*)
(* read apart.                                                             *)
(*                                                                         *)
(* The long-term memory document: what is in memory agrees with what was   *)
(* reported written, an unreadable document is left alone, and no reported *)
(* record is erased or revived.                                            *)
(*                                                                         *)
(* The short-term context of a group: no line is summarised twice, a prompt*)
(* shows neither the current turn nor a reply twice, nothing of another    *)
(* member in the local section and in both sections only what the asker    *)
(* said, and the capsule that makes room is the one referenced least       *)
(* recently.                                                               *)
(***************************************************************************)
EXTENDS MemoryStore, GroupContext, ListProofs

-----------------------------------------------------------------------------
(* The memory document.                                                    *)

\* What a write may make of the records: rows are only added, dead ones stay.
Continues(old, new) ==
  /\ Len(old) <= Len(new)
  /\ \A i \in DOMAIN old : ~old[i].live => new[i] = old[i]

Sizes == Len(undo) <= MaxRecords /\ Len(reported) <= MaxRecords

\* Only an enabled store saves, and what it is saving continues what it has.
SavingIsOrderly == saving => mode = "enabled" /\ Continues(undo, records)

\* A step that changes neither the document nor what was reported.
UnreportedStep == disk' = disk /\ reported' = reported

IInv == TypeOK /\ Sizes /\ MemoryAgreesWithFile /\ SavingIsOrderly

-----------------------------------------------------------------------------
(* What the operators on records give.                                     *)

\* Retiring rows keeps the number of rows, their type and the dead ones.
LEMMA RetiredRows ==
  ASSUME TypeOK, NEW ids
  PROVE  /\ Retired(ids) \in Seq(Record)
         /\ Len(Retired(ids)) = Len(records)
         /\ DOMAIN Retired(ids) = DOMAIN records
         /\ Continues(records, Retired(ids))
<1>1. records \in Seq(Record) /\ Len(records) \in Nat /\ DOMAIN records = 1 .. Len(records)
  BY DEF TypeOK
<1>2. \A i \in DOMAIN records : records[i] \in Record
  BY <1>1
<1>3. \A i \in DOMAIN records : Retired(ids)[i] \in Record
  BY <1>2 DEF Retired, Record
<1>4. Retired(ids) \in [1 .. Len(records) -> Record]
  BY <1>1, <1>3 DEF Retired
<1>5. Retired(ids) \in Seq(Record) /\ Len(Retired(ids)) = Len(records)
  BY <1>1, <1>4, IsASeq, LenProperties
<1>6. \A i \in DOMAIN records : ~records[i].live => Retired(ids)[i] = records[i]
  BY <1>2 DEF Retired, Record
<1> QED
  BY <1>1, <1>4, <1>5, <1>6 DEF Continues

\* Rewriting one row keeps the number of rows and the type.
LEMMA RewrittenRow ==
  ASSUME NEW rows \in Seq(Record), NEW i \in DOMAIN rows, NEW row \in Record
  PROVE  /\ [rows EXCEPT ![i] = row] \in Seq(Record)
         /\ Len([rows EXCEPT ![i] = row]) = Len(rows)
<1>1. rows \in [1 .. Len(rows) -> Record] /\ Len(rows) \in Nat /\ DOMAIN rows = 1 .. Len(rows)
  OBVIOUS
<1>2. [rows EXCEPT ![i] = row] \in [1 .. Len(rows) -> Record]
  BY <1>1
<1> QED
  BY <1>1, <1>2, IsASeq, LenProperties

-----------------------------------------------------------------------------

\* The first half of every write: the change of the records.
LEMMA WriteStep ==
  ASSUME IInv, NEW new \in Seq(Record), Len(new) <= MaxRecords, Continues(records, new),
         Write(new)
  PROVE  IInv' /\ UnreportedStep
  BY DEF IInv, TypeOK, Sizes, MemoryAgreesWithFile, SavingIsOrderly, UnreportedStep, Write

\* Adding a row at the end.
LEMMA InsertStep ==
  ASSUME IInv, MaxRecords \in Nat,
         NEW kept \in Seq(Record), Len(kept) = Len(records), Continues(records, kept),
         NEW record \in Record, Insert(kept, record)
  PROVE  IInv' /\ UnreportedStep
<1>1. records \in Seq(Record) /\ Len(records) \in Nat
  BY DEF IInv, TypeOK
<1>2. Append(kept, record) \in Seq(Record) /\ Len(Append(kept, record)) = Len(records) + 1
  BY <1>1
<1>3. Len(records) + 1 <= MaxRecords /\ Write(Append(kept, record))
  BY <1>1 DEF Insert
<1>4. Continues(records, Append(kept, record))
  <2>1. \A i \in DOMAIN records : Append(kept, record)[i] = kept[i]
    BY <1>1
  <2> QED
    BY <1>1, <1>2, <2>1 DEF Continues
<1> QED
  BY <1>2, <1>3, <1>4, WriteStep

\* A replacement rewrites one live row of some that are otherwise retired.
LEMMA AddressReplaceStep ==
  ASSUME IInv, NEW matches, matches \subseteq Live, NEW content \in Contents,
         AddressReplace(matches, content)
  PROVE  IInv' /\ UnreportedStep
<1>1. PICK primary \in matches :
        Write([Retired(matches \ {primary}) EXCEPT
                 ![primary].content = content, ![primary].address = TRUE, ![primary].own = TRUE])
  BY DEF AddressReplace
<1> DEFINE rows == Retired(matches \ {primary})
           row == [rows[primary] EXCEPT !.content = content, !.address = TRUE, !.own = TRUE]
           new == [rows EXCEPT ![primary] = row]
<1>2. /\ records \in Seq(Record) /\ primary \in DOMAIN records /\ records[primary].live
      /\ Len(records) <= MaxRecords
  BY DEF Live, IInv, TypeOK
<1>3. /\ rows \in Seq(Record) /\ Len(rows) = Len(records)
      /\ DOMAIN rows = DOMAIN records /\ Continues(records, rows)
  BY RetiredRows DEF IInv
<1>4. Write(new)
  <2>1. new = [rows EXCEPT ![primary].content = content, ![primary].address = TRUE,
                           ![primary].own = TRUE]
    BY <1>2, <1>3
  <2> QED BY <1>1, <2>1
<1>5. row \in Record
  <2> HIDE DEF rows
  <2>1. rows[primary] \in Record
    BY <1>2, <1>3
  <2> QED BY <2>1 DEF Record
<1>6. new \in Seq(Record) /\ Len(new) = Len(records)
  <2> HIDE DEF rows, row
  <2> QED BY <1>2, <1>3, <1>5, RewrittenRow
<1>7. Continues(records, new)
  <2> HIDE DEF rows, row
  <2> QED BY <1>2, <1>3, <1>6 DEF Continues
<1> HIDE DEF new
<1> QED BY <1>2, <1>4, <1>6, <1>7, WriteStep

-----------------------------------------------------------------------------
(* The steps.                                                              *)

\* Starting, and dying at any instant.
LEMMA LoadStep ==
  ASSUME IInv, StartEnabled \/ StartDisabled \/ Crash
  PROVE  IInv' /\ UnreportedStep
<1>1. CASE StartEnabled
  BY <1>1
  DEF StartEnabled, IInv, TypeOK, Sizes, MemoryAgreesWithFile, SavingIsOrderly, UnreportedStep
<1>2. CASE StartDisabled
  BY <1>2
  DEF StartDisabled, IInv, TypeOK, Sizes, MemoryAgreesWithFile, SavingIsOrderly, UnreportedStep
<1>3. CASE Crash
  <2>1. <<>> \in Seq(Record) /\ Len(<<>>) <= MaxRecords
    BY EmptySeq, LenProperties, MemoryAssumption
  <2>2. /\ mode' = "down" /\ records' = <<>> /\ undo' = <<>> /\ saving' = FALSE
        /\ disk' = disk /\ reported' = reported
    BY <1>3 DEF Crash
  <2>3. TypeOK'
    BY <2>1, <2>2 DEF IInv, TypeOK
  <2>4. Sizes'
    BY <2>1, <2>2 DEF IInv, Sizes
  <2>5. MemoryAgreesWithFile' /\ SavingIsOrderly'
    BY <2>2 DEF IInv, MemoryAgreesWithFile, SavingIsOrderly
  <2> QED BY <2>2, <2>3, <2>4, <2>5 DEF IInv, UnreportedStep
<1> QED BY <1>1, <1>2, <1>3

\* The new record of an insertion is one.
LEMMA AddStep ==
  ASSUME IInv, NEW scope \in Scopes, NEW content \in Contents, NEW address \in BOOLEAN,
         NEW own \in BOOLEAN, Add(scope, content, address, own)
  PROVE  IInv' /\ UnreportedStep
<1>1. [scope |-> scope, content |-> content, address |-> address, own |-> own,
       slot |-> NoSlot, live |-> TRUE] \in Record
  BY DEF Record
<1>2. records \in Seq(Record) /\ Continues(records, records)
  BY DEF IInv, TypeOK, Continues
<1> QED BY <1>1, <1>2, InsertStep, MemoryAssumption DEF Add

\* The superseding row and the retired ones.
LEMMA UpsertCurrentSlotStep ==
  ASSUME IInv, NEW scope \in PersonalScopes, NEW content \in Contents, NEW slot \in Slots,
         UpsertCurrentSlot(scope, content, slot)
  PROVE  IInv' /\ UnreportedStep
<1> DEFINE kept == Retired(SlotMatches(scope, slot))
           new == [scope |-> scope, content |-> content, address |-> FALSE,
                   own |-> TRUE, slot |-> slot, live |-> TRUE]
<1>1. new \in Record
  BY DEF Record, Scopes
<1>2. kept \in Seq(Record) /\ Len(kept) = Len(records) /\ Continues(records, kept)
  BY RetiredRows DEF IInv
<1>3. Insert(kept, new)
  BY DEF UpsertCurrentSlot, SlotInsert
<1> HIDE DEF kept, new
<1> QED BY <1>1, <1>2, <1>3, InsertStep, MemoryAssumption

\* The rewritten row, or the first one.
LEMMA UpsertAddressPreferenceStep ==
  ASSUME IInv, NEW scope \in PersonalScopes, NEW content \in Contents,
         UpsertAddressPreference(scope, content)
  PROVE  IInv' /\ UnreportedStep
<1> DEFINE new == [scope |-> scope, content |-> content, address |-> TRUE,
                   own |-> TRUE, slot |-> NoSlot, live |-> TRUE]
<1>1. CASE AddressReplace(AddressMatches(scope), content)
  <2>1. AddressMatches(scope) \subseteq Live
    BY DEF AddressMatches
  <2> QED BY <1>1, <2>1, AddressReplaceStep
<1>2. CASE Insert(records, new)
  <2>1. new \in Record
    BY DEF Record, Scopes
  <2>2. records \in Seq(Record) /\ Continues(records, records)
    BY DEF IInv, TypeOK, Continues
  <2> HIDE DEF new
  <2> QED BY <1>2, <2>1, <2>2, InsertStep, MemoryAssumption
<1> QED BY <1>1, <1>2 DEF UpsertAddressPreference

\* The row of an update is one.
LEMMA UpdateStep ==
  ASSUME IInv, NEW i \in DOMAIN records, NEW content \in Contents, NEW address \in BOOLEAN,
         NEW own \in BOOLEAN, Update(i, content, address, own)
  PROVE  IInv' /\ UnreportedStep
<1> DEFINE row == [records[i] EXCEPT !.content = content, !.address = address, !.own = own]
           new == [records EXCEPT ![i] = row]
<1>1. /\ records \in Seq(Record) /\ Len(records) <= MaxRecords
      /\ records[i] \in Record /\ records[i].live
  BY DEF Update, Live, IInv, TypeOK
<1>2. Write(new)
  <2>1. new = [records EXCEPT ![i].content = content, ![i].address = address, ![i].own = own]
    BY <1>1
  <2> QED BY <2>1 DEF Update
<1>3. row \in Record
  BY <1>1 DEF Record
<1>4. new \in Seq(Record) /\ Len(new) = Len(records)
  <2> HIDE DEF row
  <2> QED BY <1>1, <1>3, RewrittenRow
<1>5. Continues(records, new)
  <2> HIDE DEF row
  <2> QED BY <1>1, <1>4 DEF Continues
<1> HIDE DEF new
<1> QED BY <1>1, <1>2, <1>4, <1>5, WriteStep

\* A deletion retires one row.
LEMMA DeleteStep ==
  ASSUME IInv, NEW i \in DOMAIN records, Delete(i)
  PROVE  IInv' /\ UnreportedStep
<1>1. /\ Retired({i}) \in Seq(Record) /\ Len(Retired({i})) = Len(records)
      /\ Continues(records, Retired({i}))
  BY RetiredRows DEF IInv
<1>2. Len(Retired({i})) <= MaxRecords /\ Write(Retired({i}))
  BY <1>1 DEF Delete, IInv, TypeOK
<1> QED BY <1>1, <1>2, WriteStep

\* The second half of every write: the save takes place, fails or is cut short.
LEMMA SaveStep ==
  ASSUME IInv, SaveOk \/ SaveFailed \/ SaveShort
  PROVE  IInv' /\ KeptForGood /\ mode = "enabled"
<1>1. mode = "enabled" /\ reported = undo /\ Continues(reported, records) /\ mode' = mode
  BY DEF IInv, MemoryAgreesWithFile, SavingIsOrderly, SaveOk, SaveFailed, SaveShort
<1>2. /\ records \in Seq(Record) /\ undo \in Seq(Record) /\ reported \in Seq(Record)
      /\ Len(records) <= MaxRecords /\ Len(undo) <= MaxRecords
  BY DEF IInv, TypeOK, Sizes
<1>3. <<>> \in Seq(Record) /\ Len(<<>>) <= MaxRecords
  BY EmptySeq, LenProperties, MemoryAssumption
<1>4. Len(reported) <= Len(reported)
  BY <1>2
<1>5. CASE SaveOk \/ SaveShort
  <2>1. /\ reported' = records /\ records' = records /\ saving' = FALSE /\ undo' = <<>>
        /\ disk' \in {records, Damaged}
    BY <1>5 DEF SaveOk, SaveShort
  <2>2. TypeOK'
    BY <1>1, <1>2, <1>3, <2>1 DEF IInv, TypeOK
  <2>3. Sizes'
    BY <1>2, <1>3, <2>1 DEF Sizes
  <2>4. MemoryAgreesWithFile' /\ SavingIsOrderly'
    BY <2>1 DEF MemoryAgreesWithFile, SavingIsOrderly
  <2>5. KeptForGood
    BY <1>1, <1>2, <2>1 DEF KeptForGood, Continues
  <2> QED BY <1>1, <2>2, <2>3, <2>4, <2>5 DEF IInv
<1>6. CASE SaveFailed
  <2>1. /\ reported' = reported /\ records' = undo /\ saving' = FALSE /\ undo' = <<>>
        /\ disk' = disk
    BY <1>6 DEF SaveFailed
  <2>2. TypeOK'
    BY <1>1, <1>2, <1>3, <2>1 DEF IInv, TypeOK
  <2>3. Sizes'
    BY <1>3, <2>1 DEF IInv, Sizes
  <2>4. MemoryAgreesWithFile' /\ SavingIsOrderly'
    BY <1>1, <2>1 DEF IInv, MemoryAgreesWithFile, SavingIsOrderly
  <2>5. KeptForGood
    BY <1>4, <2>1 DEF KeptForGood
  <2> QED BY <1>1, <2>2, <2>3, <2>4, <2>5 DEF IInv
<1> QED BY <1>5, <1>6

-----------------------------------------------------------------------------
(* The theorems.                                                           *)

\* Every step but the end of a save leaves document and history alone.
LEMMA OtherSteps ==
  ASSUME IInv, Next, ~(SaveOk \/ SaveFailed \/ SaveShort)
  PROVE  IInv' /\ UnreportedStep
<1>1. CASE StartEnabled \/ StartDisabled \/ Crash
  BY <1>1, LoadStep
<1>2. CASE \E scope \in Scopes, content \in Contents, address \in BOOLEAN, own \in BOOLEAN :
             Add(scope, content, address, own)
  BY <1>2, AddStep
<1>3. CASE \E scope \in PersonalScopes, content \in Contents, slot \in Slots :
             UpsertCurrentSlot(scope, content, slot)
  BY <1>3, UpsertCurrentSlotStep
<1>4. CASE \E scope \in PersonalScopes, content \in Contents :
             UpsertAddressPreference(scope, content)
  BY <1>4, UpsertAddressPreferenceStep
<1>5. CASE \E i \in DOMAIN records :
             \E content \in Contents, address \in BOOLEAN, own \in BOOLEAN :
               Update(i, content, address, own)
  BY <1>5, UpdateStep
<1>6. CASE \E i \in DOMAIN records : Delete(i)
  BY <1>6, DeleteStep
<1> QED BY <1>1, <1>2, <1>3, <1>4, <1>5, <1>6 DEF Next

\* The store starts empty.
LEMMA Initially == Init => IInv
<1> SUFFICES ASSUME Init PROVE IInv
  OBVIOUS
<1>1. <<>> \in Seq(Record) /\ Len(<<>>) <= MaxRecords
  BY EmptySeq, LenProperties, MemoryAssumption
<1>2. /\ mode = "down" /\ records = <<>> /\ undo = <<>> /\ saving = FALSE
      /\ disk = <<>> /\ reported = <<>>
  BY DEF Init
<1>3. TypeOK
  BY <1>1, <1>2 DEF TypeOK
<1>4. Sizes
  BY <1>1, <1>2 DEF Sizes
<1>5. MemoryAgreesWithFile /\ SavingIsOrderly
  BY <1>2 DEF MemoryAgreesWithFile, SavingIsOrderly
<1> QED BY <1>3, <1>4, <1>5 DEF IInv

\* Stuttering changes nothing.
LEMMA Stutters == ASSUME IInv, UNCHANGED vars PROVE IInv'
  BY DEF IInv, TypeOK, Sizes, MemoryAgreesWithFile, SavingIsOrderly, vars

\* The inductive invariant.
LEMMA Inductive == Spec => []IInv
<1>1. ASSUME IInv, [Next]_vars PROVE IInv'
  BY <1>1, SaveStep, OtherSteps, Stutters
<1> QED BY <1>1, Initially, PTL DEF Spec

\* The type invariant of the store.
THEOREM TypeCorrectness == Spec => []TypeOK
<1>1. IInv => TypeOK
  BY DEF IInv
<1> QED BY <1>1, Inductive, PTL

\* Memory and document agree, however saves fail and the process dies: save,
\* with the roll-backs of add, update, delete and the two upserts.
THEOREM MemoryAndFileAgree == Spec => []MemoryAgreesWithFile
<1>1. IInv => MemoryAgreesWithFile
  BY DEF IInv
<1> QED BY <1>1, Inductive, PTL

\* A disabled store leaves the document alone: initialize and the guards of
\* every write.
THEOREM DisabledStoreIsReadOnly == Spec => UnreadableIsKept
<1>1. ASSUME IInv, [Next]_vars PROVE [mode = "disabled" => disk' = disk]_vars
  <2>1. CASE SaveOk \/ SaveFailed \/ SaveShort
    BY <1>1, <2>1, SaveStep
  <2>2. CASE Next /\ ~(SaveOk \/ SaveFailed \/ SaveShort)
    BY <1>1, <2>2, OtherSteps DEF UnreportedStep
  <2> QED BY <1>1, <2>1, <2>2
<1> QED BY <1>1, Inductive, PTL DEF Spec, UnreadableIsKept

\* Nothing reported is erased and nothing deleted comes back: the soft delete and
\* the retirements of the upserts.
THEOREM SoftDeleteIsFinal == Spec => NothingIsErased
<1>1. ASSUME IInv, [Next]_vars PROVE [KeptForGood]_vars
  <2>1. CASE SaveOk \/ SaveFailed \/ SaveShort
    BY <1>1, <2>1, SaveStep
  <2>2. CASE Next /\ ~(SaveOk \/ SaveFailed \/ SaveShort)
    <3>1. reported' = reported /\ reported \in Seq(Record)
      BY <1>1, <2>2, OtherSteps DEF IInv, TypeOK, UnreportedStep
    <3>2. Len(reported) <= Len(reported)
      BY <3>1
    <3> QED BY <3>1, <3>2 DEF KeptForGood
  <2> QED BY <1>1, <2>1, <2>2
<1> QED BY <1>1, Inductive, PTL DEF Spec, NothingIsErased

\* The one match after a slot write is the row it added.
LEMMA SlotHasOneRow ==
  ASSUME TypeOK, NEW scope, NEW content, NEW slot, UpsertCurrentSlot(scope, content, slot)
  PROVE  Cardinality(SlotMatches(scope, slot)') = 1
<1> DEFINE matches == SlotMatches(scope, slot)
           kept == Retired(matches)
           row == [scope |-> scope, content |-> content, address |-> FALSE,
                   own |-> TRUE, slot |-> slot, live |-> TRUE]
           last == Len(records) + 1
<1>1. records' = Append(kept, row)
  BY DEF UpsertCurrentSlot, SlotInsert, Insert, Write
<1>2. /\ kept \in Seq(Record) /\ Len(kept) = Len(records) /\ Len(records) \in Nat
      /\ DOMAIN kept = DOMAIN records /\ DOMAIN records = 1 .. Len(records)
  BY RetiredRows DEF TypeOK
<1>3. \A i \in DOMAIN records : kept[i] = IF i \in matches THEN [records[i] EXCEPT !.live = FALSE] ELSE records[i]
  BY DEF Retired
<1>4. \A i \in matches : ~kept[i].live
  <2>1. \A i \in DOMAIN records : records[i] \in Record
    BY DEF TypeOK
  <2> QED BY <1>3, <2>1 DEF SlotMatches, Live, Record
<1>5. \A i \in DOMAIN records \ matches :
        ~(kept[i].live /\ kept[i].scope = scope /\ kept[i].own /\ kept[i].slot = slot)
  BY <1>3 DEF SlotMatches, Live
<1> HIDE DEF matches, kept
<1>6. /\ DOMAIN records' = 1 .. last /\ records'[last] = row
      /\ \A i \in DOMAIN records : records'[i] = kept[i]
  <2>1. \A s \in Seq(Record) : /\ DOMAIN Append(s, row) = 1 .. (Len(s) + 1)
                               /\ Append(s, row)[Len(s) + 1] = row
                               /\ \A i \in 1 .. Len(s) : Append(s, row)[i] = s[i]
    OBVIOUS
  <2> HIDE DEF row
  <2> QED BY <1>1, <1>2, <2>1
<1>7. \A i \in 1 .. last : i = last \/ i \in DOMAIN records
  BY <1>2
<1>8. \A i \in DOMAIN records :
        ~(records'[i].live /\ records'[i].scope = scope /\ records'[i].own /\ records'[i].slot = slot)
  BY <1>4, <1>5, <1>6
<1>9. last \in 1 .. last /\ row.live /\ row.scope = scope /\ row.own /\ row.slot = slot
  BY <1>2
<1> HIDE DEF last, row
<1>10. SlotMatches(scope, slot)' = {last}
  BY <1>6, <1>7, <1>8, <1>9 DEF SlotMatches, Live
<1> QED BY <1>10, FS_Singleton

\* A slot write leaves one current value of its slot, however many there were.
THEOREM SlotsHoldOneValue == Spec => OneCurrentValue
<1> DEFINE OneValueLeft == \A scope \in PersonalScopes, content \in Contents, slot \in Slots :
             UpsertCurrentSlot(scope, content, slot) => Cardinality(SlotMatches(scope, slot)') = 1
<1>1. TypeOK => [OneValueLeft]_vars
  BY SlotHasOneRow
<1> HIDE DEF OneValueLeft
<1>2. Spec => []TypeOK
  BY TypeCorrectness
<1> QED BY <1>1, <1>2, PTL DEF OneCurrentValue, OneValueLeft

-----------------------------------------------------------------------------
(* The context.  First, the parts of a transcript.                         *)

LEMMA LengthFrom ==
  ASSUME NEW n \in Nat, NEW d \in Nat, d <= n,
         NEW length, length = IF d + 1 <= n THEN n - (d + 1) + 1 ELSE 0
  PROVE  length = n - d
OBVIOUS

\* The last of a sequence are a part of it, in its order.
LEMMA LastOfProperties ==
  ASSUME NEW S, NEW seq \in Seq(S), NEW n \in Nat
  PROVE  /\ LastOf(seq, n) \in Seq(S)
         /\ Len(LastOf(seq, n)) = IF Len(seq) > n THEN n ELSE Len(seq)
         /\ \E d \in 0 .. Len(seq) :
              /\ d = IF Len(seq) > n THEN Len(seq) - n ELSE 0
              /\ \A k \in DOMAIN LastOf(seq, n) :
                   k + d \in DOMAIN seq /\ LastOf(seq, n)[k] = seq[k + d]
<1> DEFINE d == IF Len(seq) > n THEN Len(seq) - n ELSE 0
<1>1. Len(seq) \in Nat /\ DOMAIN seq = 1 .. Len(seq) /\ d \in 0 .. Len(seq)
  OBVIOUS
<1>2. LastOf(seq, n) = SubSeq(seq, d + 1, Len(seq))
  BY DEF LastOf
<1>3. /\ SubSeq(seq, d + 1, Len(seq)) \in Seq(S)
      /\ Len(SubSeq(seq, d + 1, Len(seq))) = Len(seq) - d
      /\ \A k \in 1 .. Len(seq) - d : SubSeq(seq, d + 1, Len(seq))[k] = seq[k + d]
  <2> HIDE DEF d
  <2>0. d \in Nat /\ Len(seq) \in Nat /\ d <= Len(seq)
    BY <1>1
  <2>1. d \in Int /\ d + 1 \in Int /\ \A i \in d + 1 .. Len(seq) : seq[i] \in S
    BY <1>1
  <2>2. /\ SubSeq(seq, d + 1, Len(seq)) \in Seq(S)
        /\ Len(SubSeq(seq, d + 1, Len(seq))) =
             IF d + 1 <= Len(seq) THEN Len(seq) - (d + 1) + 1 ELSE 0
        /\ \A k \in 1 .. Len(seq) - (d + 1) + 1 :
             SubSeq(seq, d + 1, Len(seq))[k] = seq[(d + 1) + k - 1]
    BY <1>1, <2>1, SubSeqProperties, SMTT(30)
  <2>3. Len(seq) - (d + 1) + 1 = Len(seq) - d /\ \A k \in 1 .. Len(seq) - d : (d + 1) + k - 1 = k + d
    BY <1>1
  <2>4. Len(SubSeq(seq, d + 1, Len(seq))) = Len(seq) - d
    BY <2>0, <2>2, LengthFrom
  <2>5. \A k \in 1 .. Len(seq) - d : SubSeq(seq, d + 1, Len(seq))[k] = seq[k + d]
    BY <2>2, <2>3
  <2> QED BY <2>2, <2>4, <2>5
<1> DEFINE last == LastOf(seq, n)
<1>4. /\ last \in Seq(S) /\ Len(last) = Len(seq) - d
      /\ \A k \in 1 .. Len(seq) - d : last[k] = seq[k + d]
  <2> HIDE DEF d
  <2> QED BY <1>2, <1>3
<1> HIDE DEF last
<1>5. DOMAIN last = 1 .. Len(last)
  BY <1>4
<1>6. Len(last) = IF Len(seq) > n THEN n ELSE Len(seq)
  BY <1>1, <1>4
<1>7. ASSUME NEW k \in DOMAIN last PROVE k + d \in DOMAIN seq /\ last[k] = seq[k + d]
  <2> HIDE DEF d
  <2>1. k \in 1 .. Len(seq) - d
    BY <1>4, <1>5
  <2> QED BY <1>1, <1>4, <2>1
<1> HIDE DEF d
<1>8. d = IF Len(seq) > n THEN Len(seq) - n ELSE 0
  BY DEF d
<1> QED BY <1>1, <1>4, <1>6, <1>7, <1>8 DEF last

\* The newest ids that fit a budget are among the given ones.
LEMMA NewestAmong ==
  ASSUME NEW S, NEW ids \in Seq(S), NEW max \in Nat \ {0}, NEW chars \in Nat
  PROVE  ToSet(Newest(ids, max, chars)) \subseteq ToSet(ids)
<1> DEFINE Fits(n) == n <= max /\ (n <= 1 \/ Chars(LastOf(ids, n)) <= chars)
           N == Len(ids)
           Most(n) == Fits(n) /\ (n < N => ~Fits(n + 1))
<1>1. N \in Nat
  OBVIOUS
<1>2. \E n \in 0 .. N : Most(n)
  <2>1. SUFFICES ASSUME \A n \in 0 .. N : ~Most(n) PROVE FALSE
    OBVIOUS
  <2> DEFINE Good == {n \in 0 .. N : Fits(n)}
  <2>2. 0 \in Good
    OBVIOUS
  <2>3. ASSUME NEW n \in 1 .. N, n - 1 \in Good PROVE n \in Good
    <3> HIDE DEF Fits, N
    <3>1. Fits(n - 1) /\ n - 1 \in 0 .. N /\ n - 1 < N /\ (n - 1) + 1 = n /\ n \in 0 .. N
      BY <1>1, <2>3
    <3>2. Fits((n - 1) + 1)
      BY <2>1, <3>1
    <3> QED BY <3>1, <3>2
  <2>4. N \in Good
    <3>1. \A n \in 0 .. N : n \in Good
      <4> HIDE DEF Good, N
      <4> QED BY <1>1, <2>2, <2>3, StepByStep
    <3>2. N \in 0 .. N
      <4> HIDE DEF N
      <4> QED BY <1>1
    <3> HIDE DEF Good
    <3> QED BY <3>1, <3>2
  <2>5. Fits(N) /\ N \in 0 .. N /\ ~(N < N)
    <3> HIDE DEF N, Fits
    <3> QED BY <1>1, <2>4
  <2> HIDE DEF Fits
  <2> QED BY <2>1, <2>5
<1> DEFINE n0 == CHOOSE n \in 0 .. N : Most(n)
<1>3. n0 \in 0 .. N
  <2> HIDE DEF Most
  <2> QED BY <1>2
<1>4. Newest(ids, max, chars) = LastOf(ids, n0)
  BY DEF Newest
<1> HIDE DEF n0
<1>5. n0 \in Nat
  BY <1>1, <1>3
<1> QED BY <1>4, <1>5, LastOfProperties DEF ToSet

\* Pruning keeps lines of a transcript, in their order.
LEMMA FreshProperties ==
  ASSUME NEW S, NEW transcript \in Seq(S)
  PROVE  /\ Fresh(transcript) \in Seq(S)
         /\ Ids(Fresh(transcript)) \subseteq Ids(transcript)
<1> DEFINE places == {k \in DOMAIN transcript : clock - transcript[k].at <= Ttl}
<1>1. Fresh(transcript) = Those(transcript, places)
  BY DEF Fresh
<1> HIDE DEF places
<1>2. /\ Fresh(transcript) \in Seq(S)
      /\ \E at : ArePicked(Fresh(transcript), at, transcript, places)
  BY <1>1, ThoseProperties
<1> QED BY <1>2 DEF Ids, ArePicked

\* Appending a line prunes first, and adds this line at most.
LEMMA AppendedProperties ==
  ASSUME NEW transcript \in Seq(StoredLine), NEW id \in Lines, NEW max \in Nat,
         clock \in 0 .. MaxClock
  PROVE  /\ Appended(transcript, id, max) \in Seq(StoredLine)
         /\ Ids(Appended(transcript, id, max)) \subseteq Ids(transcript) \cup {id}
<1> DEFINE kept == Fresh(transcript)
           line == [id |-> id, at |-> clock]
<1>1. kept \in Seq(StoredLine) /\ Ids(kept) \subseteq Ids(transcript)
  BY FreshProperties
<1>2. line \in StoredLine
  BY DEF StoredLine
<1> HIDE DEF kept
<1>3. /\ Append(kept, line) \in Seq(StoredLine)
      /\ DOMAIN Append(kept, line) = 1 .. (Len(kept) + 1)
      /\ DOMAIN kept = 1 .. Len(kept) /\ Len(kept) \in Nat
      /\ \A k \in 1 .. Len(kept) : Append(kept, line)[k] = kept[k]
      /\ Append(kept, line)[Len(kept) + 1] = line
  <2> HIDE DEF line
  <2> QED BY <1>1, <1>2, AppendProperties
<1>4. Ids(Append(kept, line)) \subseteq Ids(kept) \cup {id}
  <2>1. ASSUME NEW k \in 1 .. (Len(kept) + 1) PROVE Append(kept, line)[k].id \in Ids(kept) \cup {id}
    <3>1. CASE k = Len(kept) + 1
      BY <1>3, <3>1
    <3>2. CASE k # Len(kept) + 1
      <4>1. k \in 1 .. Len(kept)
        BY <1>3, <3>2
      <4> QED BY <1>3, <4>1 DEF Ids
    <3> QED BY <3>1, <3>2
  <2> QED BY <1>3, <2>1 DEF Ids
<1>5. CASE id \in Ids(kept)
  <2>1. Appended(transcript, id, max) = kept
    BY <1>5 DEF Appended, kept
  <2> QED BY <1>1, <2>1
<1>6. CASE id \notin Ids(kept)
  <2>1. Appended(transcript, id, max) = LastOf(Append(kept, line), max)
    BY <1>6 DEF Appended, kept
  <2> DEFINE all == Append(kept, line)
  <2>2. LastOf(all, max) \in Seq(StoredLine) /\ Ids(LastOf(all, max)) \subseteq Ids(all)
    <3> HIDE DEF all
    <3>1. all \in Seq(StoredLine)
      BY <1>3 DEF all
    <3> QED BY <3>1, LastOfProperties DEF Ids
  <2> QED BY <1>1, <1>4, <2>1, <2>2
<1> QED BY <1>5, <1>6

\* The ambient lines of a prompt are among those it chooses from.
LEMMA AmbientChoiceAmong ==
  ASSUME NEW T, NEW lines \in Seq(T)
  PROVE  AmbientChoice(lines) \subseteq {lines[i].id : i \in DOMAIN lines}
<1> DEFINE IsLow(i) == lines[i].id \in Low
           Repeats == {i \in DOMAIN lines : i < Len(lines) /\ IsLow(i) /\ IsLow(i + 1)
                                            /\ lines[i + 1].pos = lines[i].pos + 1}
           CharsOf(S) == MapThenSumSet(LAMBDA i : Weight[lines[i].id], S)
           Try(S, i) ==
             IF i \notin DOMAIN lines \/ i \in S \cup Repeats \/ Cardinality(S) >= AmbientMax
                \/ (S # {} /\ CharsOf(S \cup {i}) > AmbientChars)
             THEN S ELSE S \cup {i}
           IsAfter(f, start, turns) ==
             f = [n \in 0 .. Len(turns) |-> IF n = 0 THEN start ELSE Try(f[n - 1], turns[n])]
           Tried(start, turns) == (CHOOSE f : IsAfter(f, start, turns))[Len(turns)]
           NewestFirst(S) == Reverse(Those([i \in DOMAIN lines |-> i], S))
           informative == NewestFirst(Tried({}, NewestFirst({i \in DOMAIN lines : ~IsLow(i)})))
           before == [n \in 1 .. 2 * Len(informative) |-> informative[(n + 1) \div 2] - (2 - (n % 2))]
           low == NewestFirst({i \in DOMAIN lines : IsLow(i)})
           D == DOMAIN lines
<1>1. AmbientChoice(lines) = {lines[i].id : i \in Tried(ToSet(informative), before \o low)}
  BY DEF AmbientChoice
<1>2. \A S, i : S \in SUBSET D => Try(S, i) \in SUBSET D
  <2> HIDE DEF IsLow, Repeats, CharsOf
  <2> QED OBVIOUS
<1> HIDE DEF Try
<1>3. ASSUME NEW start \in SUBSET D, NEW turns, Len(turns) \in Nat
      PROVE  Tried(start, turns) \in SUBSET D
  <2> DEFINE N == Len(turns)
             T2 == SUBSET D
             step == [n \in 1 .. N |-> [S \in T2 |-> Try(S, turns[n])]]
             f == CHOOSE f : IsAfter(f, start, turns)
  <2>1. step \in [1 .. N -> [T2 -> T2]]
    BY <1>2
  <2>2. PICK g \in [0 .. N -> T2] : g[0] = start /\ \A n \in 1 .. N : g[n] = step[n][g[n - 1]]
    <3>1. start \in T2 /\ N \in Nat
      BY <1>3
    <3>2. step \in [1 .. N -> [T2 -> T2]]
      BY <2>1
    <3> HIDE DEF step, N, T2, D
    <3>3. \E g \in [0 .. N -> T2] : FollowsSteps(g, start, step, N)
      BY <3>1, <3>2, Recursion
    <3> QED BY <3>3 DEF FollowsSteps
  <2>3. ASSUME NEW n \in 1 .. N PROVE g[n] = Try(g[n - 1], turns[n])
    <3>1. g[n - 1] \in T2
      BY <1>3
    <3> QED BY <2>2, <3>1
  <2>4. g = [n \in 0 .. N |-> IF n = 0 THEN start ELSE Try(g[n - 1], turns[n])]
    <3>1. g = [n \in 0 .. N |-> g[n]]
      OBVIOUS
    <3>2. \A n \in 0 .. N : n # 0 => n \in 1 .. N
      BY <1>3
    <3> HIDE DEF N
    <3> QED BY <2>2, <2>3, <3>1, <3>2
  <2>5. IsAfter(g, start, turns)
    BY <2>4
  <2>6. IsAfter(f, start, turns)
    <3> HIDE DEF IsAfter
    <3> QED BY <2>5
  <2> HIDE DEF f
  <2>7. f[0] = start /\ \A n \in 1 .. N : f[n] = Try(f[n - 1], turns[n])
    <3>1. f = [n \in 0 .. N |-> IF n = 0 THEN start ELSE Try(f[n - 1], turns[n])]
      BY <2>6
    <3>2. 0 \in 0 .. N /\ \A n \in 1 .. N : n \in 0 .. N /\ n # 0
      BY <1>3
    <3> HIDE DEF N
    <3> QED BY <3>1, <3>2
  <2> DEFINE Good == {n \in 0 .. N : f[n] \in SUBSET D}
  <2>8. 0 \in Good /\ \A n \in 1 .. N : n - 1 \in Good => n \in Good
    <3>1. 0 \in 0 .. N /\ \A n \in 1 .. N : n \in 0 .. N
      BY <1>3
    <3> HIDE DEF N, D
    <3> QED BY <1>2, <1>3, <2>7, <3>1
  <2>9. \A n \in 0 .. N : n \in Good
    <3>1. N \in Nat
      BY <1>3
    <3> HIDE DEF Good, N
    <3> QED BY <2>8, <3>1, StepByStep
  <2>10. N \in 0 .. N
    BY <1>3
  <2>11. Tried(start, turns) = f[N]
    BY DEF f
  <2> QED BY <2>9, <2>10, <2>11
<1> HIDE DEF Tried
<1>4. ASSUME NEW S PROVE NewestFirst(S) \in Seq(D)
  <2> DEFINE places == [i \in DOMAIN lines |-> i]
             s == Those(places, S)
  <2>1. places \in Seq(D)
    <3>1. DOMAIN lines = 1 .. Len(lines) /\ Len(lines) \in Nat
      OBVIOUS
    <3>2. places \in [1 .. Len(lines) -> D]
      BY <3>1
    <3> QED BY <3>1, <3>2
  <2>2. s \in Seq(D)
    <3> HIDE DEF places
    <3> QED BY <2>1, ThoseProperties
  <2> HIDE DEF s
  <2>3. Len(s) \in Nat /\ \A k \in 1 .. Len(s) : s[k] \in D
    BY <2>2
  <2>4. Reverse(s) \in [1 .. Len(s) -> D]
    <3>1. \A k \in 1 .. Len(s) : (Len(s) - k) + 1 \in 1 .. Len(s)
      BY <2>3
    <3> QED BY <2>3, <3>1 DEF Reverse
  <2>5. Reverse(s) \in Seq(D)
    BY <2>3, <2>4
  <2> QED BY <2>5 DEF s
<1> HIDE DEF NewestFirst
<1>5. informative \in Seq(D)
  BY <1>4
<1> HIDE DEF informative
<1>6. Len(informative) \in Nat /\ ToSet(informative) \in SUBSET D
  BY <1>5 DEF ToSet
<1>7. Len(before \o low) \in Nat
  <2>1. D \in SUBSET Int
    OBVIOUS
  <2>2. before \in Seq(Int)
    <3>1. 2 * Len(informative) \in Nat
      BY <1>6
    <3>2. ASSUME NEW n \in 1 .. 2 * Len(informative) PROVE before[n] \in Int
      <4>1. (n + 1) \div 2 \in 1 .. Len(informative)
        BY <1>6
      <4>2. informative[(n + 1) \div 2] \in Int
        BY <1>5, <2>1, <4>1
      <4>3. n % 2 \in Int
        BY <1>6
      <4> QED BY <4>2, <4>3
    <3>3. before \in [1 .. 2 * Len(informative) -> Int]
      <4>1. before = [n \in 1 .. 2 * Len(informative) |-> before[n]]
        OBVIOUS
      <4> HIDE DEF before
      <4> QED BY <3>2, <4>1
    <3> HIDE DEF before
    <3> QED BY <3>1, <3>3
  <2>3. low \in Seq(Int)
    BY <1>4, <2>1
  <2> HIDE DEF before, low
  <2> QED BY <2>2, <2>3
<1> HIDE DEF before, low
<1>8. Tried(ToSet(informative), before \o low) \in SUBSET D
  BY <1>3, <1>6, <1>7
<1> QED BY <1>1, <1>8

-----------------------------------------------------------------------------
(* Drafts and capsules.                                                    *)

Apart(drafts) == \A k, l \in DOMAIN drafts : k # l => drafts[k] \cap drafts[l] = {}

\* One more draft that meets none of the others.
LEMMA ApartAppend ==
  ASSUME NEW S, NEW drafts \in Seq(S), Apart(drafts), NEW d \in S, d \cap UNION ToSet(drafts) = {}
  PROVE  Append(drafts, d) \in Seq(S) /\ Apart(Append(drafts, d))
<1> DEFINE more == Append(drafts, d)
<1>1. /\ more \in Seq(S) /\ DOMAIN more = 1 .. (Len(drafts) + 1)
      /\ DOMAIN drafts = 1 .. Len(drafts) /\ Len(drafts) \in Nat
      /\ \A k \in 1 .. Len(drafts) : more[k] = drafts[k]
      /\ more[Len(drafts) + 1] = d
  BY AppendProperties
<1> HIDE DEF more
<1>2. \A k \in DOMAIN more : k = Len(drafts) + 1 \/ k \in DOMAIN drafts
  BY <1>1
<1>3. \A k \in DOMAIN drafts : drafts[k] \cap d = {}
  BY DEF ToSet
<1>4. ASSUME NEW k \in DOMAIN more, NEW l \in DOMAIN more, k # l PROVE more[k] \cap more[l] = {}
  <2>1. CASE k \in DOMAIN drafts /\ l \in DOMAIN drafts
    BY <1>1, <1>4, <2>1 DEF Apart
  <2>2. CASE k = Len(drafts) + 1
    BY <1>1, <1>2, <1>3, <1>4, <2>2
  <2>3. CASE l = Len(drafts) + 1
    BY <1>1, <1>2, <1>3, <1>4, <2>3
  <2> QED BY <1>2, <2>1, <2>2, <2>3
<1>5. Apart(more)
  BY <1>4 DEF Apart
<1> QED BY <1>1, <1>5 DEF more

\* The parser lets drafts of known lines through, and no line twice.
LEMMA ParsedProperties ==
  ASSUME NEW raw, Len(raw) \in Nat
  PROVE  Parsed(raw) \in Seq(SUBSET batch) /\ Apart(Parsed(raw))
<1> DEFINE N == Len(raw)
           Valid(s, n) == raw[n] # {} /\ raw[n] \subseteq batch /\ raw[n] \cap UNION ToSet(s) = {}
           Item(s, n) == IF Valid(s, n) THEN Append(s, raw[n]) ELSE s
           IsKept(f) == f = [n \in 0 .. N |-> IF n = 0 THEN <<>> ELSE Item(f[n - 1], n)]
           kept == CHOOSE f : IsKept(f)
           T == Seq(SUBSET batch)
           base == <<>>
<1>1. \A n, s : s \in T => Item(s, n) \in T
  <2> SUFFICES ASSUME NEW n, NEW s \in T PROVE Item(s, n) \in T
    OBVIOUS
  <2>1. CASE Valid(s, n)
    <3>1. raw[n] \in SUBSET batch
      BY <2>1
    <3>2. Append(s, raw[n]) \in T
      <4> HIDE DEF Valid
      <4> QED BY <3>1, AppendProperties
    <3> HIDE DEF Valid
    <3> QED BY <2>1, <3>2
  <2>2. CASE ~Valid(s, n)
    <3> HIDE DEF Valid, T
    <3> QED BY <2>2
  <2> QED BY <2>1, <2>2
<1>2. \E f : IsKept(f)
  <2> DEFINE step == [n \in 1 .. N |-> [s \in T |-> Item(s, n)]]
  <2>1. step \in [1 .. N -> [T -> T]]
    <3> HIDE DEF T, Item
    <3> QED BY <1>1
  <2>2. base \in T
    OBVIOUS
  <2>3. PICK f \in [0 .. N -> T] : f[0] = base /\ \A n \in 1 .. N : f[n] = step[n][f[n - 1]]
    <3> HIDE DEF step, T, base, N
    <3>1. N \in Nat
      BY DEF N
    <3>2. \E f \in [0 .. N -> T] : FollowsSteps(f, base, step, N)
      BY <2>1, <2>2, <3>1, Recursion
    <3> QED BY <3>2 DEF FollowsSteps
  <2>4. ASSUME NEW n \in 1 .. N PROVE f[n] = Item(f[n - 1], n)
    <3> HIDE DEF Item, T
    <3>1. f[n - 1] \in T
      OBVIOUS
    <3> QED BY <2>3, <3>1
  <2>5. f = [n \in 0 .. N |-> IF n = 0 THEN <<>> ELSE Item(f[n - 1], n)]
    <3>1. f = [n \in 0 .. N |-> f[n]]
      OBVIOUS
    <3>2. \A n \in 0 .. N : n # 0 => n \in 1 .. N
      OBVIOUS
    <3> HIDE DEF N, Item
    <3> QED BY <2>3, <2>4, <3>1, <3>2
  <2> HIDE DEF Item, N
  <2> QED BY <2>5
<1>3. IsKept(kept)
  <2> HIDE DEF IsKept
  <2> QED BY <1>2
<1>4. Parsed(raw) = kept[N]
  BY DEF Parsed
<1> HIDE DEF kept
<1>5. kept[0] = <<>> /\ \A n \in 1 .. N : kept[n] = Item(kept[n - 1], n)
  <2>1. kept = [n \in 0 .. N |-> IF n = 0 THEN <<>> ELSE Item(kept[n - 1], n)]
    BY <1>3
  <2>2. 0 \in 0 .. N /\ \A n \in 1 .. N : n \in 0 .. N /\ n # 0
    OBVIOUS
  <2> HIDE DEF N, Item
  <2> QED BY <2>1, <2>2
<1> DEFINE Good == {n \in 0 .. N : kept[n] \in T /\ Apart(kept[n])}
<1>6. 0 \in Good
  <2>1. <<>> \in T /\ Apart(<<>>) /\ 0 \in 0 .. N
    BY DEF Apart
  <2> HIDE DEF T, N
  <2> QED BY <1>5, <2>1
<1>7. ASSUME NEW n \in 1 .. N, n - 1 \in Good PROVE n \in Good
  <2>1. kept[n - 1] \in T /\ Apart(kept[n - 1]) /\ n \in 0 .. N
    BY <1>7
  <2>2. CASE Valid(kept[n - 1], n)
    <3>1. kept[n] = Append(kept[n - 1], raw[n])
      <4> HIDE DEF Valid
      <4> QED BY <1>5, <2>2
    <3>2. raw[n] \in SUBSET batch /\ raw[n] \cap UNION ToSet(kept[n - 1]) = {}
      BY <2>2
    <3> HIDE DEF Valid
    <3>3. Append(kept[n - 1], raw[n]) \in T /\ Apart(Append(kept[n - 1], raw[n]))
      BY <2>1, <3>2, ApartAppend
    <3> HIDE DEF T
    <3> QED BY <2>1, <3>1, <3>3
  <2>3. CASE ~Valid(kept[n - 1], n)
    <3>1. kept[n] = kept[n - 1]
      <4> HIDE DEF Valid
      <4> QED BY <1>5, <2>3
    <3> HIDE DEF T, Valid
    <3> QED BY <2>1, <3>1
  <2> HIDE DEF Valid
  <2> QED BY <2>2, <2>3
<1>8. \A n \in 0 .. N : n \in Good
  <2>1. N \in Nat
    OBVIOUS
  <2> HIDE DEF Good, N
  <2> QED BY <1>6, <1>7, <2>1, StepByStep
<1>9. N \in 0 .. N
  OBVIOUS
<1> HIDE DEF N
<1> QED BY <1>4, <1>8, <1>9

NumbersDiffer(store) == \A k, l \in DOMAIN store : k # l => store[k].number # store[l].number

\* The order of eviction is one.
LEMMA BeforeIsTransitive ==
  ASSUME NEW c, NEW d, NEW e, Before(c, d), Before(d, e),
         c.referencedAt \in Int, c.createdAt \in Int, c.number \in Int,
         d.referencedAt \in Int, d.createdAt \in Int, d.number \in Int,
         e.referencedAt \in Int, e.createdAt \in Int, e.number \in Int
  PROVE  Before(c, e)
<1>1. c.referencedAt <= d.referencedAt /\ d.referencedAt <= e.referencedAt
  BY DEF Before
<1>2. CASE c.referencedAt < e.referencedAt
  BY <1>2 DEF Before
<1>3. CASE ~(c.referencedAt < e.referencedAt)
  <2>1. c.referencedAt = d.referencedAt /\ d.referencedAt = e.referencedAt
    BY <1>1, <1>3
  <2>2. c.createdAt <= d.createdAt /\ d.createdAt <= e.createdAt
    BY <2>1 DEF Before
  <2>3. CASE c.createdAt < e.createdAt
    BY <2>1, <2>3 DEF Before
  <2>4. CASE ~(c.createdAt < e.createdAt)
    <3>1. c.createdAt = d.createdAt /\ d.createdAt = e.createdAt
      BY <2>2, <2>4
    <3>2. c.number < d.number /\ d.number < e.number
      BY <2>1, <3>1 DEF Before
    <3>3. c.number < e.number
      BY <3>2
    <3> QED BY <2>1, <3>1, <3>3 DEF Before
  <2> QED BY <2>3, <2>4
<1> QED BY <1>2, <1>3

\* Sorting arranges the capsules anew, in the order of their last reference.
LEMMA SortedProperties ==
  ASSUME NEW all \in Seq(Capsule), NumbersDiffer(all)
  PROVE  LET sorted ==
               ByRank(all, [i \in DOMAIN all |-> {j \in DOMAIN all : Before(all[j], all[i])}])
         IN  /\ sorted \in Seq(Capsule) /\ DOMAIN sorted = DOMAIN all
             /\ \E place \in [DOMAIN all -> DOMAIN all] :
                  /\ \A k \in DOMAIN all : sorted[k] = all[place[k]]
                  /\ \A k, l \in DOMAIN all : k # l => place[k] # place[l]
                  /\ \A k, l \in DOMAIN all : k < l => Before(sorted[k], sorted[l])
                  /\ \A i \in DOMAIN all : \E k \in DOMAIN all : place[k] = i
<1> DEFINE earlier == [i \in DOMAIN all |-> {j \in DOMAIN all : Before(all[j], all[i])}]
           n == Len(all)
<1>1. n \in Nat /\ DOMAIN all = 1 .. n /\ \A i \in 1 .. n : all[i] \in Capsule
  OBVIOUS
<1>2. \A c \in Capsule : c.referencedAt \in Int /\ c.createdAt \in Int /\ c.number \in Int
  BY DEF Capsule
<1>3. \A i \in 1 .. n : ~Before(all[i], all[i])
  BY <1>1, <1>2 DEF Before
<1>4. ASSUME NEW i \in 1 .. n, NEW j \in 1 .. n, NEW k \in 1 .. n,
             Before(all[i], all[j]), Before(all[j], all[k])
      PROVE  Before(all[i], all[k])
  <2> HIDE DEF n
  <2>1. all[i] \in Capsule /\ all[j] \in Capsule /\ all[k] \in Capsule
    BY <1>1
  <2>2. /\ all[i].referencedAt \in Int /\ all[i].createdAt \in Int /\ all[i].number \in Int
        /\ all[j].referencedAt \in Int /\ all[j].createdAt \in Int /\ all[j].number \in Int
        /\ all[k].referencedAt \in Int /\ all[k].createdAt \in Int /\ all[k].number \in Int
    BY <1>2, <2>1
  <2> QED BY <1>4, <2>2, BeforeIsTransitive
<1>5. ASSUME NEW i \in 1 .. n, NEW j \in 1 .. n, i # j
      PROVE  Before(all[i], all[j]) \/ Before(all[j], all[i])
  <2> HIDE DEF n
  <2>1. all[i] \in Capsule /\ all[j] \in Capsule /\ all[i].number # all[j].number
    BY <1>1, <1>5 DEF NumbersDiffer
  <2> QED BY <1>2, <2>1 DEF Before
<1>6. /\ earlier \in [DOMAIN all -> SUBSET DOMAIN all]
      /\ \A i, j \in DOMAIN all : j \in earlier[i] <=> Before(all[j], all[i])
  OBVIOUS
<1> HIDE DEF n, earlier
<1>7. /\ \A i \in DOMAIN all : i \notin earlier[i]
      /\ \A i, j \in DOMAIN all : i # j => i \in earlier[j] \/ j \in earlier[i]
  BY <1>1, <1>3, <1>5, <1>6
<1>8. ASSUME NEW i \in DOMAIN all, NEW j \in DOMAIN all, j \in earlier[i]
      PROVE  earlier[j] \subseteq earlier[i]
  <2>1. \A k \in DOMAIN all : k \in earlier[j] => k \in earlier[i]
    BY <1>1, <1>4, <1>6, <1>8
  <2> QED BY <1>6, <2>1
<1>9. /\ ByRank(all, earlier) \in Seq(Capsule) /\ DOMAIN ByRank(all, earlier) = DOMAIN all
      /\ \E place : AreArranged(ByRank(all, earlier), place, all, earlier)
  <2>1. earlier \in [DOMAIN all -> SUBSET DOMAIN all]
    BY <1>6
  <2>2. \A i, j \in DOMAIN all : j \in earlier[i] => earlier[j] \subseteq earlier[i]
    BY <1>8
  <2> QED BY <1>7, <2>1, <2>2, ByRankProperties, Zenon
<1> DEFINE sorted == ByRank(all, earlier)
<1> HIDE DEF sorted
<1>10. PICK place \in [DOMAIN all -> DOMAIN all] :
         /\ \A k \in DOMAIN all : sorted[k] = all[place[k]]
         /\ \A k, l \in DOMAIN all : k # l => place[k] # place[l]
         /\ \A k, l \in DOMAIN all : k < l => place[k] \in earlier[place[l]]
         /\ \A i \in DOMAIN all : \E k \in DOMAIN all : place[k] = i
  BY <1>9 DEF sorted, AreArranged
<1>11. ASSUME NEW k \in DOMAIN all, NEW l \in DOMAIN all, k < l PROVE Before(sorted[k], sorted[l])
  <2>1. place[k] \in DOMAIN all /\ place[l] \in DOMAIN all /\ place[k] \in earlier[place[l]]
    BY <1>10, <1>11
  <2> QED BY <1>6, <1>10, <2>1
<1>12. sorted \in Seq(Capsule) /\ DOMAIN sorted = DOMAIN all
  BY <1>9 DEF sorted
<1> QED BY <1>10, <1>11, <1>12 DEF sorted, earlier

SourcesApart(store) == \A k, l \in DOMAIN store : k # l => store[k].sources \cap store[l].sources = {}
Distinct(store) == NumbersDiffer(store) /\ SourcesApart(store)

\* Some capsules of a store, in any order, are as distinct as the store's.
LEMMA PickedAreDistinct ==
  ASSUME NEW store, NEW picked, Distinct(store),
         NEW at \in [DOMAIN picked -> DOMAIN store],
         \A k, l \in DOMAIN picked : k # l => at[k] # at[l],
         \A k \in DOMAIN picked : /\ picked[k].number = store[at[k]].number
                                  /\ picked[k].sources = store[at[k]].sources
  PROVE  Distinct(picked)
BY DEF Distinct, NumbersDiffer, SourcesApart

\* What is kept of n and what goes make n.
LEMMA KeptAndGone ==
  ASSUME NEW n \in Nat, NEW max \in Nat,
         NEW kept, kept = IF n > max THEN max ELSE n,
         NEW gone, gone = IF n > max THEN n - max ELSE 0
  PROVE  gone \in Nat /\ kept = n - gone
OBVIOUS

\* What the store keeps of all capsules it holds and is given: some of them, and
\* whatever is left out comes before everything kept.
IsKeptOf(stored, all) ==
  /\ stored \in Seq(Capsule) /\ Distinct(stored)
  /\ \A l \in DOMAIN stored : \E i \in DOMAIN all : stored[l] = all[i]
  /\ \A i \in DOMAIN all : (\A l \in DOMAIN stored : stored[l].number # all[i].number)
                             => \A l \in DOMAIN stored : Before(all[i], stored[l])

\* Eviction takes those that come first in the order, and changes none.
LEMMA StoredProperties ==
  ASSUME NEW store, NEW new, store \o new \in Seq(Capsule), Distinct(store \o new)
  PROVE  IsKeptOf(Stored(store, new), store \o new)
<1> DEFINE all == store \o new
           sorted == ByRank(all, [i \in DOMAIN all |-> {j \in DOMAIN all : Before(all[j], all[i])}])
           rest == LastOf(sorted, CapsuleMax)
<1>1. Stored(store, new) = rest
  BY DEF Stored
<1>2. all \in Seq(Capsule) /\ NumbersDiffer(all) /\ CapsuleMax \in Nat
  BY ContextAssumption DEF Distinct
<1>3. /\ sorted \in Seq(Capsule) /\ DOMAIN sorted = DOMAIN all
      /\ \E place \in [DOMAIN all -> DOMAIN all] :
           /\ \A k \in DOMAIN all : sorted[k] = all[place[k]]
           /\ \A k, l \in DOMAIN all : k # l => place[k] # place[l]
           /\ \A k, l \in DOMAIN all : k < l => Before(sorted[k], sorted[l])
           /\ \A i \in DOMAIN all : \E k \in DOMAIN all : place[k] = i
  <2> HIDE DEF all
  <2> QED BY <1>2, SortedProperties
<1> HIDE DEF all, sorted
<1>4. PICK place \in [DOMAIN all -> DOMAIN all] :
        /\ \A k \in DOMAIN all : sorted[k] = all[place[k]]
        /\ \A k, l \in DOMAIN all : k # l => place[k] # place[l]
        /\ \A k, l \in DOMAIN all : k < l => Before(sorted[k], sorted[l])
        /\ \A i \in DOMAIN all : \E k \in DOMAIN all : place[k] = i
  BY <1>3
<1>5. /\ rest \in Seq(Capsule)
      /\ Len(rest) = IF Len(sorted) > CapsuleMax THEN CapsuleMax ELSE Len(sorted)
      /\ \E d \in 0 .. Len(sorted) :
           /\ d = IF Len(sorted) > CapsuleMax THEN Len(sorted) - CapsuleMax ELSE 0
           /\ \A k \in DOMAIN rest : k + d \in DOMAIN sorted /\ rest[k] = sorted[k + d]
  <2>1. sorted \in Seq(Capsule) /\ CapsuleMax \in Nat
    BY <1>2, <1>3
  <2> HIDE DEF rest
  <2>2. /\ LastOf(sorted, CapsuleMax) \in Seq(Capsule)
        /\ Len(LastOf(sorted, CapsuleMax)) =
             IF Len(sorted) > CapsuleMax THEN CapsuleMax ELSE Len(sorted)
        /\ \E d \in 0 .. Len(sorted) :
             /\ d = IF Len(sorted) > CapsuleMax THEN Len(sorted) - CapsuleMax ELSE 0
             /\ \A k \in DOMAIN LastOf(sorted, CapsuleMax) :
                  k + d \in DOMAIN sorted /\ LastOf(sorted, CapsuleMax)[k] = sorted[k + d]
    BY <2>1, LastOfProperties, Zenon
  <2> QED BY <2>2 DEF rest
<1> HIDE DEF rest
<1>6. PICK d \in 0 .. Len(sorted) :
        /\ d = IF Len(sorted) > CapsuleMax THEN Len(sorted) - CapsuleMax ELSE 0
        /\ \A k \in DOMAIN rest : k + d \in DOMAIN sorted /\ rest[k] = sorted[k + d]
  BY <1>5
<1>7. /\ Len(sorted) \in Nat /\ DOMAIN sorted = 1 .. Len(sorted)
      /\ DOMAIN rest = 1 .. Len(rest) /\ d \in Nat
      /\ Len(rest) = Len(sorted) - d
  <2>1. Len(sorted) \in Nat /\ DOMAIN sorted = 1 .. Len(sorted)
    BY <1>3
  <2>2. DOMAIN rest = 1 .. Len(rest)
    BY <1>5
  <2>3. Len(rest) = IF Len(sorted) > CapsuleMax THEN CapsuleMax ELSE Len(sorted)
    BY <1>5
  <2>4. d = IF Len(sorted) > CapsuleMax THEN Len(sorted) - CapsuleMax ELSE 0
    BY <1>6
  <2>5. CapsuleMax \in Nat
    BY <1>2
  <2>6. d \in Nat /\ Len(rest) = Len(sorted) - d
    BY <2>1, <2>3, <2>4, <2>5, KeptAndGone, ZenonT(30)
  <2> QED BY <2>1, <2>2, <2>6
<1>8. Distinct(rest)
  <2> DEFINE at == [k \in DOMAIN rest |-> place[k + d]]
  <2>1. \A k \in DOMAIN rest : k + d \in DOMAIN all /\ k \in Nat
    BY <1>3, <1>6, <1>7, SMTT(20)
  <2>2. at \in [DOMAIN rest -> DOMAIN all]
    BY <1>4, <2>1
  <2>3. \A k, l \in DOMAIN rest : k # l => at[k] # at[l]
    <3> SUFFICES ASSUME NEW k \in DOMAIN rest, NEW l \in DOMAIN rest, k # l PROVE at[k] # at[l]
      OBVIOUS
    <3>1. k + d # l + d
      BY <1>7, <2>1
    <3> QED BY <1>4, <2>1, <3>1
  <2>4. \A k \in DOMAIN rest : rest[k] = all[at[k]]
    BY <1>4, <1>6, <2>1
  <2> HIDE DEF at
  <2>5. Distinct(all)
    BY DEF all
  <2> QED BY <2>2, <2>3, <2>4, <2>5, PickedAreDistinct
<1>9. ASSUME NEW l \in DOMAIN rest PROVE \E i \in DOMAIN all : rest[l] = all[i]
  <2>1. l + d \in DOMAIN all /\ rest[l] = sorted[l + d]
    BY <1>3, <1>6
  <2>2. rest[l] = all[place[l + d]] /\ place[l + d] \in DOMAIN all
    BY <1>4, <2>1
  <2> QED BY <2>2
<1>10. ASSUME NEW i \in DOMAIN all, \A l \in DOMAIN rest : rest[l].number # all[i].number,
              NEW l \in DOMAIN rest
       PROVE  Before(all[i], rest[l])
  <2>1. PICK k \in DOMAIN all : place[k] = i
    BY <1>4
  <2>2. sorted[k] = all[i] /\ k \in 1 .. Len(sorted)
    BY <1>3, <1>4, <1>7, <2>1
  <2>3. ~(k > d)
    <3> SUFFICES ASSUME k > d PROVE FALSE
      OBVIOUS
    <3>1. k - d \in DOMAIN rest /\ (k - d) + d = k
      BY <1>7, <2>2
    <3>2. rest[k - d] = all[i]
      BY <1>6, <2>2, <3>1
    <3> QED BY <1>10, <3>1, <3>2
  <2>4. l + d \in DOMAIN all /\ rest[l] = sorted[l + d]
    BY <1>3, <1>6
  <2>5. k < l + d
    BY <1>7, <2>2, <2>3
  <2> QED BY <1>4, <2>2, <2>4, <2>5
<1>11. IsKeptOf(rest, all)
  BY <1>5, <1>8, <1>9, <1>10 DEF IsKeptOf
<1> QED BY <1>1, <1>11 DEF all

\* Capsules that have not expired are those of the store, each once.
LEMMA LiveProperties ==
  ASSUME capsules \in Seq(Capsule), Distinct(capsules)
  PROVE  /\ LiveCapsules \in Seq(Capsule)
         /\ Distinct(LiveCapsules)
         /\ \A k \in DOMAIN LiveCapsules : \E j \in DOMAIN capsules : LiveCapsules[k] = capsules[j]
<1> DEFINE places == {k \in DOMAIN capsules : clock - capsules[k].createdAt <= CapsuleTtl}
           live == LiveCapsules
<1>1. live = Those(capsules, places)
  BY DEF LiveCapsules
<1> HIDE DEF places, live
<1>2. /\ live \in Seq(Capsule)
      /\ \E at : ArePicked(live, at, capsules, places)
  BY <1>1, ThoseProperties
<1>3. PICK at \in [DOMAIN live -> DOMAIN capsules] :
        /\ \A k \in DOMAIN live : live[k] = capsules[at[k]]
        /\ \A k, l \in DOMAIN live : k < l => at[k] < at[l]
  BY <1>2 DEF ArePicked
<1>4. \A k, l \in DOMAIN live : k # l => at[k] # at[l]
  <2>1. DOMAIN live \subseteq Int /\ DOMAIN capsules \subseteq Int
    BY <1>2
  <2> QED BY <1>3, <2>1
<1>5. Distinct(live)
  BY <1>3, <1>4, PickedAreDistinct
<1> QED BY <1>2, <1>3, <1>5 DEF live

NumbersAreGiven == \A k \in DOMAIN capsules : capsules[k].number <= produced

\* New capsules have new numbers and new lines; a live one that goes came first in the order.
LEMMA AddManyProperties ==
  ASSUME capsules \in Seq(Capsule), Distinct(capsules), NumbersAreGiven,
         produced \in Nat, clock \in 0 .. MaxClock,
         NEW drafts \in Seq(SUBSET Lines), Apart(drafts), AddMany(drafts)
  PROVE  /\ capsules' \in Seq(Capsule) /\ Distinct(capsules') /\ NumbersAreGiven'
         /\ produced' \in 0 .. MaxProduced
         /\ \A k \in DOMAIN LiveCapsules :
              (\A l \in DOMAIN capsules' : capsules'[l].number # LiveCapsules[k].number)
                => \A l \in DOMAIN capsules' : Before(LiveCapsules[k], capsules'[l])
<1> DEFINE live == LiveCapsules
           places == {k \in DOMAIN drafts : drafts[k] \cap Covered(live) = {}}
           new == Those(drafts, places)
           added == [k \in DOMAIN new |-> [sources |-> new[k], createdAt |-> clock,
                                           referencedAt |-> clock, number |-> produced + k]]
           all == live \o added
<1>1. /\ live \in Seq(Capsule) /\ Distinct(live)
      /\ \A k \in DOMAIN live : live[k].number <= produced
  BY LiveProperties DEF NumbersAreGiven
<1>2. /\ produced + Len(new) <= MaxProduced /\ produced' = produced + Len(new)
      /\ capsules' = IF new = <<>> THEN live ELSE Stored(live, added)
  BY DEF AddMany
<1> HIDE DEF live
<1>3. /\ new \in Seq(SUBSET Lines) /\ Apart(new)
      /\ \A k \in DOMAIN new : new[k] \cap Covered(live) = {}
  <2> HIDE DEF places, new
  <2>1. /\ new \in Seq(SUBSET Lines)
        /\ \E at : ArePicked(new, at, drafts, places)
    <3> DEFINE S == SUBSET Lines
    <3>1. drafts \in Seq(S)
      OBVIOUS
    <3> HIDE DEF S
    <3>2. /\ new \in Seq(S)
          /\ \E at : ArePicked(new, at, drafts, places)
      BY <3>1, ThoseProperties DEF new
    <3> QED BY <3>2 DEF S
  <2>2. PICK at \in [DOMAIN new -> DOMAIN drafts] :
          /\ \A k \in DOMAIN new : at[k] \in places /\ new[k] = drafts[at[k]]
          /\ \A k, l \in DOMAIN new : k < l => at[k] < at[l]
    BY <2>1 DEF ArePicked
  <2>3. \A k, l \in DOMAIN new : k # l => at[k] # at[l]
    <3>1. DOMAIN new \subseteq Int /\ DOMAIN drafts \subseteq Int
      BY <2>1
    <3> QED BY <2>2, <3>1
  <2>4. Apart(new)
    BY <2>2, <2>3 DEF Apart
  <2>5. \A k \in DOMAIN new : new[k] \cap Covered(live) = {}
    BY <2>2 DEF places
  <2> QED BY <2>1, <2>4, <2>5
<1> HIDE DEF new
<1>4. Len(new) \in Nat /\ DOMAIN new = 1 .. Len(new) /\ produced' \in 0 .. MaxProduced
  BY <1>2, <1>3
<1>5. /\ added \in Seq(Capsule) /\ Len(added) = Len(new)
      /\ \A k \in 1 .. Len(new) : added[k].number = produced + k /\ added[k].sources = new[k]
  <2>1. ASSUME NEW k \in 1 .. Len(new)
        PROVE  [sources |-> new[k], createdAt |-> clock, referencedAt |-> clock, number |-> produced + k]
                 \in Capsule
    <3>1. new[k] \in SUBSET Lines
      BY <1>3, <1>4
    <3>2. produced + k \in 1 .. MaxProduced
      BY <1>2, <1>4, ContextAssumption
    <3> QED BY <3>1, <3>2 DEF Capsule
  <2>2. added \in [1 .. Len(new) -> Capsule]
    BY <1>4, <2>1
  <2>3. added \in Seq(Capsule) /\ Len(added) = Len(new)
    <3> HIDE DEF added
    <3> QED BY <1>4, <2>2
  <2> QED BY <1>4, <2>3
<1> HIDE DEF added
<1>6. /\ all \in Seq(Capsule)
      /\ DOMAIN all = 1 .. Len(live) + Len(new) /\ Len(live) \in Nat
      /\ DOMAIN live = 1 .. Len(live)
      /\ \A i \in 1 .. Len(live) : i \in DOMAIN all /\ all[i] = live[i]
      /\ \A i \in DOMAIN all : i \notin 1 .. Len(live) =>
           /\ i - Len(live) \in 1 .. Len(new)
           /\ all[i] = added[i - Len(live)]
  <2>1. /\ all \in Seq(Capsule)
        /\ Len(all) = Len(live) + Len(added)
        /\ \A i \in 1 .. Len(live) + Len(added) : all[i] =
                     IF i <= Len(live) THEN live[i] ELSE added[i - Len(live)]
    <3>1. live \in Seq(Capsule) /\ added \in Seq(Capsule)
      BY <1>1, <1>5
    <3> QED BY <3>1, ConcatProperties, Zenon
  <2>2. Len(live) \in Nat /\ DOMAIN live = 1 .. Len(live)
    BY <1>1
  <2> HIDE DEF all
  <2>3. DOMAIN all = 1 .. Len(all)
    BY <2>1
  <2> QED BY <1>4, <1>5, <2>1, <2>2, <2>3, SMTT(20)
<1> HIDE DEF all
<1>Old. ASSUME NEW i \in 1 .. Len(live)
       PROVE  /\ i \in DOMAIN live /\ all[i] = live[i]
              /\ live[i].number <= produced /\ live[i].number \in Nat
  <2>1. i \in DOMAIN live /\ all[i] = live[i]
    BY <1>6
  <2>2. live[i] \in Capsule /\ live[i].number <= produced
    BY <1>1, <2>1
  <2> QED BY <2>1, <2>2 DEF Capsule
<1>Added. ASSUME NEW i \in DOMAIN all, i \notin 1 .. Len(live)
       PROVE  /\ i - Len(live) \in 1 .. Len(new) /\ i \in Nat
              /\ all[i].number = produced + (i - Len(live))
              /\ all[i].sources = new[i - Len(live)]
  <2>1. i \in Nat
    BY <1>4, <1>6
  <2>2. i - Len(live) \in 1 .. Len(new) /\ all[i] = added[i - Len(live)]
    BY <1>6, <1>Added
  <2> QED BY <1>5, <2>1, <2>2
<1>7. NumbersDiffer(all)
  <2> SUFFICES ASSUME NEW k \in DOMAIN all, NEW l \in DOMAIN all, k # l
               PROVE  all[k].number # all[l].number
    BY DEF NumbersDiffer
  <2>1. CASE k \in 1 .. Len(live) /\ l \in 1 .. Len(live)
    BY <1>1, <1>Old, <2>1 DEF Distinct, NumbersDiffer
  <2>2. CASE k \in 1 .. Len(live) /\ l \notin 1 .. Len(live)
    <3>1. all[l].number > produced /\ all[k].number <= produced /\ all[k].number \in Nat
      BY <1>4, <1>6, <1>Old, <1>Added, <2>2, SMTT(20)
    <3> QED BY <3>1
  <2>3. CASE k \notin 1 .. Len(live) /\ l \in 1 .. Len(live)
    <3>1. all[k].number > produced /\ all[l].number <= produced /\ all[l].number \in Nat
      BY <1>4, <1>6, <1>Old, <1>Added, <2>3, SMTT(20)
    <3> QED BY <3>1
  <2>4. CASE k \notin 1 .. Len(live) /\ l \notin 1 .. Len(live)
    <3>1. /\ k \in Nat /\ l \in Nat
          /\ all[k].number = produced + (k - Len(live)) /\ all[l].number = produced + (l - Len(live))
      BY <1>Added, <2>4
    <3>2. Len(live) \in Nat
      BY <1>6
    <3> QED BY <3>1, <3>2
  <2> QED BY <2>1, <2>2, <2>3, <2>4
<1>8. SourcesApart(all)
  <2> SUFFICES ASSUME NEW k \in DOMAIN all, NEW l \in DOMAIN all, k # l
               PROVE  all[k].sources \cap all[l].sources = {}
    BY DEF SourcesApart
  <2>0. ASSUME NEW i \in 1 .. Len(live), NEW j \in 1 .. Len(new)
        PROVE  live[i].sources \cap new[j] = {}
    <3>1. live[i].sources \subseteq Covered(live)
      BY <1>Old DEF Covered
    <3>2. new[j] \cap Covered(live) = {}
      BY <1>3, <1>4
    <3> QED BY <3>1, <3>2
  <2>1. CASE k \in 1 .. Len(live) /\ l \in 1 .. Len(live)
    BY <1>1, <1>Old, <2>1 DEF Distinct, SourcesApart
  <2>2. CASE k \in 1 .. Len(live) /\ l \notin 1 .. Len(live)
    BY <1>Old, <1>Added, <2>0, <2>2
  <2>3. CASE k \notin 1 .. Len(live) /\ l \in 1 .. Len(live)
    BY <1>Old, <1>Added, <2>0, <2>3
  <2>4. CASE k \notin 1 .. Len(live) /\ l \notin 1 .. Len(live)
    <3>1. /\ k - Len(live) \in DOMAIN new /\ l - Len(live) \in DOMAIN new
          /\ all[k].sources = new[k - Len(live)] /\ all[l].sources = new[l - Len(live)]
      BY <1>4, <1>Added, <2>4
    <3>2. k - Len(live) # l - Len(live)
      <4>1. k \in Nat /\ l \in Nat /\ Len(live) \in Nat
        BY <1>6, <1>Added, <2>4
      <4> QED BY <4>1
    <3> QED BY <1>3, <3>1, <3>2 DEF Apart
  <2> QED BY <2>1, <2>2, <2>3, <2>4
<1>9. Distinct(all)
  BY <1>7, <1>8 DEF Distinct
<1>10. CASE new = <<>>
  <2>1. capsules' = live /\ produced' = produced
    BY <1>2, <1>10
  <2>2. \A k \in DOMAIN live : live[k].number = capsules'[k].number /\ k \in DOMAIN capsules'
    BY <2>1
  <2>3. NumbersAreGiven'
    BY <1>1, <2>1 DEF NumbersAreGiven
  <2>4. \A k \in DOMAIN live : ~ \A l \in DOMAIN capsules' : capsules'[l].number # live[k].number
    BY <2>2
  <2> QED BY <1>1, <1>4, <2>1, <2>3, <2>4 DEF live
<1>11. CASE new # <<>>
  <2> DEFINE stored == Stored(live, added)
  <2>1. capsules' = stored
    BY <1>2, <1>11
  <2>2. /\ stored \in Seq(Capsule) /\ Distinct(stored)
        /\ \A l \in DOMAIN stored : \E i \in DOMAIN all : stored[l] = all[i]
        /\ \A i \in DOMAIN all : (\A l \in DOMAIN stored : stored[l].number # all[i].number)
             => \A l \in DOMAIN stored : Before(all[i], stored[l])
    <3>1. live \o added \in Seq(Capsule) /\ Distinct(live \o added)
      BY <1>6, <1>9 DEF all
    <3>2. IsKeptOf(stored, live \o added)
      BY <3>1, StoredProperties
    <3> HIDE DEF stored
    <3> QED BY <3>2 DEF IsKeptOf, all
  <2> HIDE DEF stored
  <2>3. \A i \in DOMAIN all : all[i].number <= produced'
    <3>1. ASSUME NEW i \in 1 .. Len(live) PROVE all[i].number <= produced'
      <4>1. all[i].number <= produced /\ all[i].number \in Nat
        BY <1>Old
      <4> QED BY <1>2, <1>4, <4>1
    <3>2. ASSUME NEW i \in DOMAIN all, i \notin 1 .. Len(live) PROVE all[i].number <= produced'
      <4>1. /\ all[i].number = produced + (i - Len(live)) /\ i - Len(live) \in 1 .. Len(new)
            /\ i \in Nat /\ Len(live) \in Nat
        BY <1>6, <1>Added, <3>2
      <4> QED BY <1>2, <1>4, <4>1
    <3> QED BY <3>1, <3>2
  <2>4. NumbersAreGiven'
    BY <2>1, <2>2, <2>3 DEF NumbersAreGiven
  <2>5. ASSUME NEW k \in DOMAIN live, \A l \in DOMAIN capsules' : capsules'[l].number # live[k].number
        PROVE  \A l \in DOMAIN capsules' : Before(live[k], capsules'[l])
    <3>1. k \in DOMAIN all /\ all[k] = live[k]
      BY <1>6
    <3> QED BY <2>1, <2>2, <2>5, <3>1
  <2> QED BY <1>4, <2>1, <2>2, <2>4, <2>5 DEF live
<1> QED BY <1>10, <1>11

-----------------------------------------------------------------------------
(* The inductive invariant.                                                *)

\* A member's transcript holds its own conversation.
OwnLines == \A m \in Members : Ids(local[m]) \subseteq OwnConversation(m)

ContextInv == ContextTypeOK /\ Distinct(capsules) /\ NumbersAreGiven /\ OwnLines

\* The part of a step that leaves the transcripts alone, and the one that leaves the capsules.
Transcripts ==
  /\ ambient \in Seq(StoredLine) /\ local \in [Members -> Seq(StoredLine)]
  /\ recent \in Seq(Requests) /\ OwnLines

Capsules ==
  /\ capsules \in Seq(Capsule) /\ produced \in 0 .. MaxProduced
  /\ Distinct(capsules) /\ NumbersAreGiven

Others ==
  /\ clock \in 0 .. MaxClock /\ delivered \in 0 .. MaxDelivered
  /\ scheduled \in BOOLEAN /\ batch \subseteq Lines
  /\ open \subseteq Requests \cup Proactive \cup Aliases

LEMMA ContextInvParts == ContextInv <=> Transcripts /\ Capsules /\ Others
BY DEF ContextInv, ContextTypeOK, Transcripts, Capsules, Others

LEMMA TranscriptsUnchanged == Transcripts /\ UNCHANGED <<storeVars, clock>> => Transcripts'
BY DEF Transcripts, storeVars, OwnLines, Ids, OwnConversation

LEMMA CapsulesUnchanged == Capsules /\ UNCHANGED <<capsules, produced>> => Capsules'
BY DEF Capsules, Distinct, NumbersDiffer, SourcesApart, NumbersAreGiven

\* A line of its speaker joins the transcript of the speaker.
LEMMA OverheardProperties ==
  ASSUME Transcripts, clock \in 0 .. MaxClock, NEW p \in Heard
  PROVE  /\ Overheard(p) \in [Members -> Seq(StoredLine)]
         /\ \A m \in Members : Ids(Overheard(p)[m]) \subseteq OwnConversation(m)
<1> DEFINE m0 == SpeakerOf[p]
           line == Appended(local[m0], p, LocalMax)
<1>1. m0 \in Members /\ p \in Lines /\ LocalMax \in Nat /\ local[m0] \in Seq(StoredLine)
  BY ContextAssumption DEF Lines, Transcripts
<1>2. line \in Seq(StoredLine) /\ Ids(line) \subseteq Ids(local[m0]) \cup {p}
  <2> HIDE DEF m0
  <2> QED BY <1>1, AppendedProperties
<1>3. p \in OwnConversation(m0)
  BY DEF OwnConversation, SaidBy
<1> HIDE DEF line
<1>4. Overheard(p) = [local EXCEPT ![m0] = line]
  BY DEF Overheard, line
<1> HIDE DEF m0
<1> QED BY <1>1, <1>2, <1>3, <1>4 DEF Transcripts, OwnLines

\* The acknowledged reply to a request joins the transcript of its requester.
LEMMA RepliedProperties ==
  ASSUME Transcripts, clock \in 0 .. MaxClock, NEW r \in Requests,
         local' = [local EXCEPT ![SpeakerOf[r]] = Appended(@, Reply(r), LocalMax)]
  PROVE  local' \in [Members -> Seq(StoredLine)] /\ OwnLines'
<1> DEFINE m0 == SpeakerOf[r]
           line == Appended(local[m0], Reply(r), LocalMax)
<1>1. m0 \in Members /\ Reply(r) \in Lines /\ LocalMax \in Nat /\ local[m0] \in Seq(StoredLine)
  BY ContextAssumption DEF Lines, Replies, Heard, Transcripts
<1>2. line \in Seq(StoredLine) /\ Ids(line) \subseteq Ids(local[m0]) \cup {Reply(r)}
  <2> HIDE DEF m0
  <2> QED BY <1>1, AppendedProperties
<1>3. Reply(r) \in OwnConversation(m0)
  BY DEF OwnConversation, SaidBy, Heard
<1> HIDE DEF line
<1>4. local' = [local EXCEPT ![m0] = line]
  BY DEF line
<1> HIDE DEF m0
<1>5. \A m \in Members : Ids(local'[m]) \subseteq OwnConversation(m)
  BY <1>1, <1>2, <1>3, <1>4 DEF Transcripts, OwnLines
<1> QED BY <1>1, <1>2, <1>4, <1>5 DEF Transcripts, OwnLines, Ids, OwnConversation

\* Building a prompt prunes, and changes no capsule but its last reference.
LEMMA AssembleProperties ==
  ASSUME Capsules, clock \in 0 .. MaxClock,
         NEW locals \in [Members -> Seq(StoredLine)],
         \A m \in Members : Ids(locals[m]) \subseteq OwnConversation(m),
         Assemble(locals), produced' = produced
  PROVE  /\ local' \in [Members -> Seq(StoredLine)] /\ OwnLines' /\ Capsules'
         /\ DOMAIN capsules' = DOMAIN LiveCapsules
         /\ \A k \in DOMAIN LiveCapsules : capsules'[k].number = LiveCapsules[k].number
<1> DEFINE live == LiveCapsules
<1>1. local' = [m \in Members |-> Fresh(locals[m])]
  BY DEF Assemble
<1>2. ASSUME NEW m \in Members
      PROVE  Fresh(locals[m]) \in Seq(StoredLine) /\ Ids(Fresh(locals[m])) \subseteq OwnConversation(m)
  BY FreshProperties
<1>3. local' \in [Members -> Seq(StoredLine)]
  BY <1>1, <1>2
<1>4. \A m \in Members : Ids(local'[m]) \subseteq OwnConversation(m)
  BY <1>1, <1>2
<1>5. OwnLines'
  BY <1>4 DEF OwnLines, Ids, OwnConversation
<1>6. /\ live \in Seq(Capsule) /\ Distinct(live)
      /\ \A k \in DOMAIN live : live[k].number <= produced
  BY LiveProperties DEF Capsules, NumbersAreGiven
<1>7. PICK chosen \in SUBSET DOMAIN live :
        capsules' = [k \in DOMAIN live |->
          IF k \in chosen THEN [live[k] EXCEPT !.referencedAt = clock] ELSE live[k]]
  BY DEF Assemble
<1> HIDE DEF live
<1>8. ASSUME NEW k \in DOMAIN live
      PROVE  /\ capsules'[k] \in Capsule /\ capsules'[k].number = live[k].number
             /\ capsules'[k].sources = live[k].sources
  <2>1. live[k] \in Capsule
    BY <1>6
  <2>2. capsules'[k] = IF k \in chosen THEN [live[k] EXCEPT !.referencedAt = clock] ELSE live[k]
    BY <1>7
  <2> QED BY <2>1, <2>2 DEF Capsule
<1>9. DOMAIN live = 1 .. Len(live) /\ Len(live) \in Nat /\ DOMAIN capsules' = DOMAIN live
  BY <1>6, <1>7
<1>10. capsules' \in Seq(Capsule)
  <2>1. capsules' = [k \in DOMAIN live |-> capsules'[k]]
    BY <1>7
  <2>2. capsules' \in [1 .. Len(live) -> Capsule]
    BY <1>8, <1>9, <2>1
  <2> QED BY <1>9, <2>2
<1>11. Distinct(capsules')
  BY <1>6, <1>8, <1>9 DEF Distinct, NumbersDiffer, SourcesApart
<1>12. NumbersAreGiven'
  BY <1>6, <1>8, <1>9 DEF NumbersAreGiven
<1>13. Capsules'
  BY <1>10, <1>11, <1>12 DEF Capsules, Distinct, NumbersDiffer, SourcesApart
<1> QED BY <1>3, <1>5, <1>8, <1>9, <1>13 DEF live

\* Appending a line to the ambient transcript, and pruning it.
LEMMA AmbientAppended ==
  ASSUME ambient \in Seq(StoredLine), clock \in 0 .. MaxClock, NEW id \in Lines
  PROVE  Appended(ambient, id, AmbientMax) \in Seq(StoredLine)
<1>1. AmbientMax \in Nat
  BY ContextAssumption
<1> QED BY <1>1, AppendedProperties

\* The lines a compaction is given are lines of the transcript.
LEMMA EligibleLines ==
  ASSUME ambient \in Seq(StoredLine)
  PROVE  Eligible \subseteq Lines
<1> DEFINE stored == Fresh(ambient)
<1>1. stored \in Seq(StoredLine)
  BY FreshProperties
<1>2. Eligible \subseteq ToSet(IdSeq(stored))
  BY DEF Eligible
<1> HIDE DEF stored
<1>3. \A k \in DOMAIN stored : stored[k].id \in Lines
  <2>1. \A k \in DOMAIN stored : stored[k] \in StoredLine
    BY <1>1
  <2> QED BY <2>1 DEF StoredLine
<1>4. ToSet(IdSeq(stored)) \subseteq Lines
  BY <1>3 DEF ToSet, IdSeq
<1> QED BY <1>2, <1>4

-----------------------------------------------------------------------------
(* Steps.                                                                  *)

LEMMA InitInv == ContextInit => ContextInv
<1> SUFFICES ASSUME ContextInit PROVE ContextInv
  OBVIOUS
<1>1. ContextTypeOK
  <2>1. clock \in 0 .. MaxClock /\ delivered \in 0 .. MaxDelivered /\ produced \in 0 .. MaxProduced
    BY ContextAssumption DEF ContextInit
  <2>2. ambient \in Seq(StoredLine) /\ recent \in Seq(Requests) /\ capsules \in Seq(Capsule)
    BY DEF ContextInit
  <2>3. local \in [Members -> Seq(StoredLine)]
    <3>1. <<>> \in Seq(StoredLine)
      OBVIOUS
    <3> QED BY <3>1 DEF ContextInit
  <2>4. scheduled \in BOOLEAN /\ batch \subseteq Lines /\ open \subseteq Requests \cup Proactive \cup Aliases
    BY DEF ContextInit
  <2> QED BY <2>1, <2>2, <2>3, <2>4 DEF ContextTypeOK
<1>2. Distinct(capsules) /\ NumbersAreGiven
  BY DEF ContextInit, Distinct, NumbersDiffer, SourcesApart, NumbersAreGiven
<1>3. OwnLines
  BY DEF ContextInit, OwnLines, Ids
<1> QED BY <1>1, <1>2, <1>3 DEF ContextInv

\* What a step makes of the invariant, and of the capsules that have not expired.
StepIsSafe == ContextInv' /\ LeastReferencedGoes

\* Where the live capsules all stay, none makes room.
LEMMA NoneGoes ==
  ASSUME \A k \in DOMAIN LiveCapsules : \E l \in DOMAIN capsules' : capsules'[l].number = LiveCapsules[k].number
  PROVE  LeastReferencedGoes
BY DEF LeastReferencedGoes

LEMMA NoneGoesUnchanged ==
  ASSUME Capsules, capsules' = capsules
  PROVE  LeastReferencedGoes
<1>1. \A k \in DOMAIN LiveCapsules : \E j \in DOMAIN capsules : LiveCapsules[k] = capsules[j]
  BY LiveProperties DEF Capsules
<1> QED BY <1>1, NoneGoes

LEMMA ObserveStep ==
  ASSUME ContextInv, NEW p \in Passive, Observe(p)
  PROVE  StepIsSafe
<1>1. Transcripts /\ Capsules /\ Others /\ p \in Heard /\ p \in Lines
  BY ContextInvParts DEF Heard, Lines
<1>2. clock \in 0 .. MaxClock /\ ambient \in Seq(StoredLine)
  BY <1>1 DEF Others, Transcripts
<1>3. ambient' \in Seq(StoredLine)
  BY <1>1, <1>2, AmbientAppended DEF Observe
<1>4. local' \in [Members -> Seq(StoredLine)] /\ \A m \in Members : Ids(local'[m]) \subseteq OwnConversation(m)
  BY <1>1, <1>2, OverheardProperties DEF Observe
<1>5. Transcripts'
  BY <1>1, <1>3, <1>4 DEF Transcripts, OwnLines, Observe, Ids, OwnConversation
<1>6. Capsules' /\ LeastReferencedGoes
  BY <1>1, CapsulesUnchanged, NoneGoesUnchanged DEF Observe, capsuleVars
<1>7. Others'
  BY <1>1, ContextAssumption DEF Others, Observe, Deliver, capsuleVars
<1> QED BY <1>5, <1>6, <1>7, ContextInvParts DEF StepIsSafe, ContextInv, Transcripts, Capsules, Others, ContextTypeOK

LEMMA WakeStep ==
  ASSUME ContextInv, NEW p \in Passive, Wake(p)
  PROVE  StepIsSafe
<1>1. Transcripts /\ Capsules /\ Others
  BY ContextInvParts
<1>2. clock \in 0 .. MaxClock /\ ambient \in Seq(StoredLine) /\ local \in [Members -> Seq(StoredLine)]
  BY <1>1 DEF Others, Transcripts
<1>3. ambient' \in Seq(StoredLine)
  BY <1>2, FreshProperties DEF Wake
<1>4. /\ local' \in [Members -> Seq(StoredLine)] /\ OwnLines' /\ Capsules'
      /\ DOMAIN capsules' = DOMAIN LiveCapsules
      /\ \A k \in DOMAIN LiveCapsules : capsules'[k].number = LiveCapsules[k].number
  <2>1. \A m \in Members : Ids(local[m]) \subseteq OwnConversation(m)
    BY <1>1 DEF Transcripts, OwnLines
  <2>2. Assemble(local) /\ produced' = produced
    BY DEF Wake
  <2> QED BY <1>1, <1>2, <2>1, <2>2, AssembleProperties
<1>5. Transcripts'
  BY <1>1, <1>3, <1>4 DEF Transcripts, Wake
<1>6. LeastReferencedGoes
  BY <1>4, NoneGoes
<1>7. Others'
  BY <1>1 DEF Others, Wake
<1> QED BY <1>4, <1>5, <1>6, <1>7, ContextInvParts DEF StepIsSafe, ContextInv, Transcripts, Capsules, Others, ContextTypeOK

LEMMA AskStep ==
  ASSUME ContextInv, NEW r \in Requests, Ask(r)
  PROVE  StepIsSafe
<1>1. Transcripts /\ Capsules /\ Others /\ r \in Heard /\ r \in Lines
  BY ContextInvParts DEF Heard, Lines
<1>2. clock \in 0 .. MaxClock /\ ambient \in Seq(StoredLine) /\ recent \in Seq(Requests)
  BY <1>1 DEF Others, Transcripts
<1>3. ambient' \in Seq(StoredLine)
  BY <1>1, <1>2, AmbientAppended DEF Ask
<1>4. /\ local' \in [Members -> Seq(StoredLine)] /\ OwnLines' /\ Capsules'
      /\ DOMAIN capsules' = DOMAIN LiveCapsules
      /\ \A k \in DOMAIN LiveCapsules : capsules'[k].number = LiveCapsules[k].number
  <2> DEFINE locals == Overheard(r)
  <2>1. /\ locals \in [Members -> Seq(StoredLine)]
        /\ \A m \in Members : Ids(locals[m]) \subseteq OwnConversation(m)
    BY <1>1, <1>2, OverheardProperties
  <2>2. Assemble(locals) /\ produced' = produced
    BY DEF Ask
  <2> HIDE DEF locals
  <2> QED BY <1>1, <1>2, <2>1, <2>2, AssembleProperties
<1>5. recent' \in Seq(Requests)
  <2>1. Append(recent, r) \in Seq(Requests) /\ RecentMax \in Nat
    BY <1>2, ContextAssumption
  <2>2. LastOf(Append(recent, r), RecentMax) \in Seq(Requests)
    BY <2>1, LastOfProperties
  <2> QED BY <2>2 DEF Ask
<1>6. Transcripts'
  BY <1>3, <1>4, <1>5 DEF Transcripts
<1>7. LeastReferencedGoes
  BY <1>4, NoneGoes
<1>8. Others'
  BY <1>1, ContextAssumption DEF Others, Ask, Deliver
<1> QED BY <1>4, <1>6, <1>7, <1>8, ContextInvParts DEF StepIsSafe, ContextInv, Transcripts, Capsules, Others, ContextTypeOK

LEMMA AckStep ==
  ASSUME ContextInv, \/ \E r \in Requests : AckReply(r)
                     \/ \E t \in Proactive : AckProactive(t)
  PROVE  StepIsSafe
<1>1. Transcripts /\ Capsules /\ Others
  BY ContextInvParts
<1>2. clock \in 0 .. MaxClock /\ ambient \in Seq(StoredLine)
  BY <1>1 DEF Others, Transcripts
<1>3. \A q \in Requests \cup Proactive : Reply(q) \in Lines
  BY DEF Lines, Replies
<1>4. capsules' = capsules /\ produced' = produced
  BY DEF AckReply, AckProactive, capsuleVars
<1>5. Capsules' /\ LeastReferencedGoes
  BY <1>1, <1>4, CapsulesUnchanged, NoneGoesUnchanged
<1>6. ambient' \in Seq(StoredLine)
  BY <1>2, <1>3, AmbientAppended DEF AckReply, AckProactive
<1>7. Transcripts'
  <2>1. CASE \E r \in Requests : AckReply(r)
    <3>1. local' \in [Members -> Seq(StoredLine)] /\ OwnLines'
      BY <1>1, <1>2, <2>1, RepliedProperties DEF AckReply
    <3> QED BY <1>1, <1>6, <2>1, <3>1 DEF Transcripts, AckReply
  <2>2. CASE \E t \in Proactive : AckProactive(t)
    BY <1>1, <1>6, <2>2 DEF Transcripts, AckProactive, OwnLines, Ids, OwnConversation
  <2> QED BY <2>1, <2>2
<1>8. Others'
  <2>1. clock' = clock /\ batch' = batch /\ produced' = produced /\ open' \subseteq open
    BY DEF AckReply, AckProactive, capsuleVars
  <2>2. delivered' \in 0 .. MaxDelivered
    BY <1>1, ContextAssumption DEF Others, AckReply, AckProactive, Deliver
  <2>3. scheduled' \in BOOLEAN
    <3>1. CASE \E r \in Requests : AckReply(r)
      <4>1. scheduled' = (scheduled \/ batch = {})
        BY <3>1 DEF AckReply
      <4> QED BY <4>1
    <3>2. CASE \E t \in Proactive : AckProactive(t)
      <4>1. scheduled' = scheduled
        BY <3>2 DEF AckProactive, capsuleVars
      <4> QED BY <1>1, <4>1 DEF Others
    <3> QED BY <3>1, <3>2
  <2> QED BY <1>1, <2>1, <2>2, <2>3 DEF Others
<1> QED BY <1>5, <1>7, <1>8, ContextInvParts DEF StepIsSafe, ContextInv, Transcripts, Capsules, Others, ContextTypeOK

LEMMA TimerStep ==
  ASSUME ContextInv, TimerFires
  PROVE  StepIsSafe
<1>1. Transcripts /\ Capsules /\ Others
  BY ContextInvParts
<1>2. ambient' \in Seq(StoredLine)
  BY <1>1, FreshProperties DEF TimerFires, Transcripts
<1>3. Transcripts'
  BY <1>1, <1>2 DEF Transcripts, TimerFires, OwnLines, Ids, OwnConversation
<1>4. /\ capsules' \in Seq(Capsule) /\ Distinct(capsules')
      /\ \A k \in DOMAIN capsules' : capsules'[k].number <= produced
  BY <1>1, LiveProperties DEF Capsules, NumbersAreGiven, TimerFires
<1>5. Capsules'
  BY <1>1, <1>4 DEF Capsules, NumbersAreGiven, TimerFires, Distinct, NumbersDiffer, SourcesApart
<1>6. LeastReferencedGoes
  BY NoneGoes DEF TimerFires
<1>7. Others'
  <2>1. Eligible \subseteq Lines
    BY <1>1, EligibleLines DEF Transcripts
  <2>2. batch' \subseteq Lines
    BY <2>1 DEF TimerFires
  <2> QED BY <1>1, <2>2 DEF Others, TimerFires
<1> QED BY <1>3, <1>5, <1>6, <1>7, ContextInvParts DEF StepIsSafe, ContextInv, Transcripts, Capsules, Others, ContextTypeOK

LEMMA CompactedStep ==
  ASSUME ContextInv, NEW raw \in Answers, Compacted(raw)
  PROVE  StepIsSafe
<1>1. Transcripts /\ Capsules /\ Others
  BY ContextInvParts
<1>2. Transcripts'
  BY <1>1, TranscriptsUnchanged DEF Compacted
<1>3. Others'
  BY <1>1 DEF Others, Compacted
<1>4. CASE Parsed(raw) = <<>>
  <2>1. capsules' = capsules /\ produced' = produced
    BY <1>4 DEF Compacted
  <2> QED BY <1>1, <1>2, <1>3, <2>1, CapsulesUnchanged, NoneGoesUnchanged, ContextInvParts
      DEF StepIsSafe, ContextInv, Transcripts, Capsules, Others, ContextTypeOK
<1>5. CASE Parsed(raw) # <<>>
  <2> DEFINE drafts == Parsed(raw)
  <2>1. AddMany(drafts)
    BY <1>5 DEF Compacted
  <2>2. Len(raw) \in Nat
    BY DEF Answers
  <2>3. drafts \in Seq(SUBSET batch) /\ Apart(drafts)
    BY <2>2, ParsedProperties
  <2>4. drafts \in Seq(SUBSET Lines)
    <3>1. SUBSET batch \subseteq SUBSET Lines
      BY <1>1 DEF Others
    <3> HIDE DEF drafts
    <3> QED BY <2>3, <3>1
  <2> HIDE DEF drafts
  <2>5. /\ capsules' \in Seq(Capsule) /\ Distinct(capsules') /\ NumbersAreGiven'
        /\ produced' \in 0 .. MaxProduced
        /\ \A k \in DOMAIN LiveCapsules :
             (\A l \in DOMAIN capsules' : capsules'[l].number # LiveCapsules[k].number)
               => \A l \in DOMAIN capsules' : Before(LiveCapsules[k], capsules'[l])
    <3>1. /\ capsules \in Seq(Capsule) /\ Distinct(capsules) /\ NumbersAreGiven
          /\ produced \in Nat /\ clock \in 0 .. MaxClock
      BY <1>1 DEF Capsules, Others
    <3> QED BY <2>1, <2>3, <2>4, <3>1, AddManyProperties
  <2>6. Capsules'
    BY <2>5 DEF Capsules, Distinct, NumbersDiffer, SourcesApart
  <2>7. LeastReferencedGoes
    <3>1. \A c, d \in Capsule : Before(c, d) => d.referencedAt >= c.referencedAt
      BY DEF Capsule, Before
    <3>2. LiveCapsules \in Seq(Capsule)
      BY <1>1, LiveProperties DEF Capsules
    <3>3. /\ \A k \in DOMAIN LiveCapsules : LiveCapsules[k] \in Capsule
          /\ \A l \in DOMAIN capsules' : capsules'[l] \in Capsule
      BY <2>5, <3>2
    <3> QED BY <2>5, <3>1, <3>3 DEF LeastReferencedGoes
  <2> QED BY <1>2, <1>3, <2>6, <2>7, ContextInvParts
      DEF StepIsSafe, ContextInv, Transcripts, Capsules, Others, ContextTypeOK
<1> QED BY <1>4, <1>5

\* A refused wake, a failed compaction and the clock touch neither transcripts nor capsules.
LEMMA QuietStep ==
  ASSUME ContextInv, \/ \E p \in Passive : SkipWake(p)
                     \/ CompactionFails
                     \/ Tick
                     \/ UNCHANGED contextVars
  PROVE  StepIsSafe
<1>1. Transcripts /\ Capsules /\ Others
  BY ContextInvParts
<1>2. UNCHANGED <<storeVars, capsules, produced>>
  BY DEF SkipWake, CompactionFails, Tick, contextVars, capsuleVars
<1>3. Transcripts'
  BY <1>1, <1>2 DEF Transcripts, storeVars, OwnLines, Ids, OwnConversation
<1>4. Capsules' /\ LeastReferencedGoes
  BY <1>1, <1>2, CapsulesUnchanged, NoneGoesUnchanged
<1>5. Others'
  BY <1>1, ContextAssumption DEF Others, SkipWake, CompactionFails, Tick, contextVars, capsuleVars
<1> QED BY <1>3, <1>4, <1>5, ContextInvParts DEF StepIsSafe, ContextInv, Transcripts, Capsules, Others, ContextTypeOK

LEMMA ContextStep == ContextInv /\ [ContextNext]_contextVars => StepIsSafe
BY ObserveStep, WakeStep, AskStep, AckStep, TimerStep, CompactedStep, QuietStep DEF ContextNext

-----------------------------------------------------------------------------
(* Prompts.                                                                *)

\* The requester-local section shows stored lines of the asker, and not the current turn.
LEMMA LocalSectionLines ==
  ASSUME NEW asker \in Members, NEW current, NEW locals \in [Members -> Seq(StoredLine)]
  PROVE  LocalSection(asker, current, locals) \subseteq Ids(locals[asker]) \ {current}
<1> DEFINE stored == Fresh(locals[asker])
           ids == IdSeq(stored)
           others == Those(ids, {k \in DOMAIN ids : ids[k] # current})
<1>1. stored \in Seq(StoredLine) /\ Ids(stored) \subseteq Ids(locals[asker])
  BY FreshProperties
<1>2. LocalSection(asker, current, locals) = ToSet(Newest(others, LocalMax, LocalChars))
  BY DEF LocalSection
<1> HIDE DEF stored
<1>3. ids \in Seq(Lines)
  <2>1. \A k \in DOMAIN stored : stored[k].id \in Lines
    <3>1. \A k \in DOMAIN stored : stored[k] \in StoredLine
      BY <1>1
    <3> QED BY <3>1 DEF StoredLine
  <2>2. DOMAIN stored = 1 .. Len(stored) /\ Len(stored) \in Nat
    BY <1>1
  <2> QED BY <2>1, <2>2 DEF IdSeq
<1>4. \A k \in DOMAIN ids : ids[k] \in Ids(stored)
  BY DEF IdSeq, Ids
<1> DEFINE places == {k \in DOMAIN ids : ids[k] # current}
<1> HIDE DEF ids
<1>5. /\ others \in Seq(Lines)
      /\ \E at : ArePicked(others, at, ids, places)
  <2> HIDE DEF places
  <2>1. others = Those(ids, places)
    BY DEF places
  <2> HIDE DEF others
  <2> QED BY <1>3, <2>1, ThoseProperties
<1> HIDE DEF others
<1>6. ToSet(others) \subseteq Ids(stored) \ {current}
  BY <1>4, <1>5 DEF ToSet, ArePicked, places
<1>7. ToSet(Newest(others, LocalMax, LocalChars)) \subseteq ToSet(others)
  <2>1. LocalMax \in Nat \ {0} /\ LocalChars \in Nat
    BY ContextAssumption
  <2> QED BY <1>5, <2>1, NewestAmong
<1> QED BY <1>1, <1>2, <1>6, <1>7

\* The ambient section never shows the current turn, nor a request of the asker that
\* is still in the recent window, nor a reply that the other section shows.
LEMMA AmbientSectionLines ==
  ASSUME ambient \in Seq(StoredLine), NEW asker, NEW current, NEW locals
  PROVE  /\ current \notin AmbientSection(asker, current, locals)
         /\ LocalSection(asker, current, locals) \cap AmbientSection(asker, current, locals) \cap Replies = {}
         /\ \A r \in AmbientSection(asker, current, locals) \cap RecentWindow : SpeakerOf[r] # asker
<1> DEFINE hidden == {current} \cup {r \in RecentWindow : SpeakerOf[r] = asker} \cup Covered(LiveCapsules)
           stored == Fresh(ambient)
           lines == [k \in DOMAIN stored |-> [id |-> stored[k].id, pos |-> k]]
           places == {k \in DOMAIN stored : stored[k].id \notin hidden}
           candidates == Those(lines, places)
<1>1. AmbientSection(asker, current, locals) = Shown(LocalSection(asker, current, locals), AmbientChoice(candidates))
  BY DEF AmbientSection
<1>2. stored \in Seq(StoredLine)
  BY FreshProperties
<1> DEFINE T == {lines[k] : k \in DOMAIN stored}
<1>3. lines \in Seq(T) /\ DOMAIN lines = DOMAIN stored
  <2> HIDE DEF stored
  <2>1. DOMAIN stored = 1 .. Len(stored) /\ Len(stored) \in Nat
    BY <1>2
  <2>2. lines \in [1 .. Len(stored) -> T]
    <3>1. lines = [k \in 1 .. Len(stored) |-> lines[k]]
      BY <2>1
    <3> HIDE DEF lines
    <3> QED BY <2>1, <3>1
  <2> QED BY <2>1, <2>2
<1> DEFINE Offered(id) == id # current /\ (id \in RecentWindow => SpeakerOf[id] # asker)
<1>4. \A k \in places : Offered(lines[k].id)
  <2> HIDE DEF stored
  <2> QED OBVIOUS
<1> HIDE DEF stored, lines, places, T
<1>5. /\ candidates \in Seq(T)
      /\ \E at : ArePicked(candidates, at, lines, places)
  <2>1. lines \in Seq(T) /\ candidates = Those(lines, places)
    BY <1>3
  <2> HIDE DEF candidates
  <2> QED BY <2>1, ThoseProperties
<1> HIDE DEF candidates
<1>6. \A k \in DOMAIN candidates : Offered(candidates[k].id)
  <2> HIDE DEF Offered
  <2> QED BY <1>4, <1>5 DEF ArePicked
<1>7. AmbientChoice(candidates) \subseteq {candidates[k].id : k \in DOMAIN candidates}
  BY <1>5, AmbientChoiceAmong
<1>8. /\ current \notin AmbientChoice(candidates)
      /\ \A r \in AmbientChoice(candidates) \cap RecentWindow : SpeakerOf[r] # asker
  BY <1>6, <1>7
<1> QED BY <1>1, <1>8 DEF Shown

LEMMA PromptFromInv == ContextInv => PromptIsHonest
<1> SUFFICES ASSUME ContextInv PROVE PromptIsHonest
  OBVIOUS
<1>1. Transcripts /\ clock \in 0 .. MaxClock
  BY ContextInvParts DEF Others
<1>2. ASSUME NEW asker \in Members, NEW current, NEW locals \in [Members -> Seq(StoredLine)],
             Ids(locals[asker]) \subseteq OwnConversation(asker)
      PROVE  IsHonest(asker, current, locals)
  <2>1. LocalSection(asker, current, locals) \subseteq Ids(locals[asker]) \ {current}
    BY LocalSectionLines
  <2>2. /\ current \notin AmbientSection(asker, current, locals)
        /\ LocalSection(asker, current, locals) \cap AmbientSection(asker, current, locals) \cap Replies = {}
        /\ \A r \in AmbientSection(asker, current, locals) \cap RecentWindow : SpeakerOf[r] # asker
    BY <1>1, AmbientSectionLines DEF Transcripts
  <2>3. OwnConversation(asker) \subseteq SaidBy(asker) \cup Replies
    BY DEF OwnConversation, Replies
  <2>4. \A r \in SaidBy(asker) : SpeakerOf[r] = asker
    BY DEF SaidBy
  <2> QED BY <1>2, <2>1, <2>2, <2>3, <2>4 DEF IsHonest
<1>3. ASSUME NEW r \in Requests PROVE IsHonest(SpeakerOf[r], r, Overheard(r))
  <2> DEFINE locals == Overheard(r)
             asker == SpeakerOf[r]
  <2>1. r \in Heard /\ asker \in Members
    BY ContextAssumption DEF Heard
  <2>2. /\ locals \in [Members -> Seq(StoredLine)]
        /\ \A m \in Members : Ids(locals[m]) \subseteq OwnConversation(m)
    BY <1>1, <2>1, OverheardProperties
  <2> HIDE DEF locals, asker
  <2>3. IsHonest(asker, r, locals)
    BY <1>2, <2>1, <2>2
  <2> QED BY <2>3 DEF locals, asker
<1>4. ASSUME NEW p \in open \cap Aliases PROVE IsHonest(SpeakerOf[p], p, local)
  <2> DEFINE asker == SpeakerOf[p]
  <2>1. asker \in Members
    BY ContextAssumption DEF Heard
  <2>2. local \in [Members -> Seq(StoredLine)] /\ Ids(local[asker]) \subseteq OwnConversation(asker)
    BY <1>1, <2>1 DEF Transcripts, OwnLines
  <2> HIDE DEF asker
  <2>3. IsHonest(asker, p, local)
    BY <1>2, <2>1, <2>2
  <2> QED BY <2>3 DEF asker
<1> QED BY <1>3, <1>4 DEF PromptIsHonest

-----------------------------------------------------------------------------
(* Theorems.                                                               *)

LEMMA ContextInvariance == ContextSpec => []ContextInv
<1>1. ContextInv /\ [ContextNext]_contextVars => ContextInv'
  BY ContextStep DEF StepIsSafe
<1> QED BY InitInv, <1>1, PTL DEF ContextSpec

\* The types of the transcripts, the capsules and the compactor.
THEOREM ContextTypeCorrectness == ContextSpec => []ContextTypeOK
<1>1. ContextInv => ContextTypeOK
  BY DEF ContextInv
<1> QED BY <1>1, ContextInvariance, PTL

\* No line is summarised by two live capsules.
THEOREM SummarisedOnce == ContextSpec => []CompactedOnce
<1>1. ContextInv => CompactedOnce
  BY DEF ContextInv, Distinct, SourcesApart, CompactedOnce
<1> QED BY <1>1, ContextInvariance, PTL

\* The current turn is not shown again, the local section is the asker's, and only a line
\* the asker said itself, outside the recent window, can stand in both sections.
THEOREM PromptsAreHonest == ContextSpec => []PromptIsHonest
BY PromptFromInv, ContextInvariance, PTL

\* A live capsule makes room only for those referenced no earlier.
THEOREM LeastReferencedMakesRoom == ContextSpec => EvictsLeastReferenced
<1>1. ContextInv /\ [ContextNext]_contextVars => LeastReferencedGoes
  BY ContextStep DEF StepIsSafe
<1>2. ContextInv /\ [ContextNext]_contextVars => [LeastReferencedGoes]_contextVars
  BY <1>1
<1> QED BY <1>2, ContextInvariance, PTL DEF ContextSpec, EvictsLeastReferenced
=============================================================================
