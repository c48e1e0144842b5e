---------------------------- MODULE MemoryStore -----------------------------
(***************************************************************************)
(* The persistent memory of the Agent (src/src/memory-store.ts): records   *)
(* in the process, and one JSON document that every write replaces: a      *)
(* sibling file is written, synced and renamed over it.  A save that fails *)
(* rolls the records back; the process may die at any instant; a document  *)
(* that cannot be read disables the store.                                 *)
(*                                                                         *)
(* Abstractions.  A record keeps what the writes tell apart: its scope,    *)
(* its content (the hash is the content), whether it is an address         *)
(* preference, whether its subject is the current requester, its current-  *)
(* value slot and whether it is live.  A missing document is an empty one. *)
(* Writes that are refused (duplicate, invalid, unknown id, disabled)      *)
(* change nothing and are not steps.  `reported` is a history variable.    *)
(***************************************************************************)
EXTENDS Naturals, Sequences, FiniteSets

CONSTANTS
  OwnerScopes,     \* the personal scopes of Owners, who alone give commands
  MemberScopes,    \* the personal scopes of members
  GroupScopes,     \* the scopes of groups
  Contents,        \* normalized contents
  Slots,           \* MEMORY_SLOTS
  NoSlot,
  Damaged,         \* a document that does not parse
  ShortWrites,     \* writeSync may write only a part: its result is not looked at
  MaxRecords       \* bound of the model: records ever stored

ASSUME MemoryAssumption ==
  /\ GroupScopes \cap (OwnerScopes \cup MemberScopes) = {}
  /\ OwnerScopes \cap MemberScopes = {}
  /\ NoSlot \notin Slots
  /\ ShortWrites \in BOOLEAN
  /\ MaxRecords \in Nat

VARIABLES
  mode,      \* "down", "enabled", or "disabled" by initialize
  records,   \* this.records
  saving,    \* a write is between its change of records and the end of save
  undo,      \* the records to restore if that save fails
  disk,      \* the document
  reported   \* history: records after the last write that reported success

vars == <<mode, records, saving, undo, disk, reported>>

PersonalScopes == OwnerScopes \cup MemberScopes
Scopes == PersonalScopes \cup GroupScopes

Record == [scope : Scopes, content : Contents, address : BOOLEAN, own : BOOLEAN,
           slot : Slots \cup {NoSlot}, live : BOOLEAN]

Init ==
  /\ mode = "down"
  /\ records = <<>> /\ undo = <<>> /\ saving = FALSE
  /\ disk = <<>> /\ reported = <<>>

-----------------------------------------------------------------------------
(* Loading.                                                                *)

\* initialize: the document is read once.
StartEnabled ==
  /\ mode = "down" /\ disk # Damaged
  /\ mode' = "enabled"
  /\ records' = disk
  /\ UNCHANGED <<saving, undo, disk, reported>>

\* CORRUPT, or UNREADABLE for this process only.
StartDisabled ==
  /\ mode = "down"
  /\ mode' = "disabled"
  /\ UNCHANGED <<records, saving, undo, disk, reported>>

\* The process dies, also in the middle of a save, and its memory with it.
Crash ==
  /\ mode # "down"
  /\ mode' = "down"
  /\ records' = <<>> /\ undo' = <<>> /\ saving' = FALSE
  /\ UNCHANGED <<disk, reported>>

-----------------------------------------------------------------------------
(* Writing: the records change first, then they are saved.                 *)

Live == {i \in DOMAIN records : records[i].live}

\* The one match that already has this content: SKIPPED.
IsSettledOn(matches, content) ==
  \E i \in matches : matches = {i} /\ records[i].content = content

Retired(ids) ==
  [i \in DOMAIN records |-> IF i \in ids THEN [records[i] EXCEPT !.live = FALSE] ELSE records[i]]

Write(new) ==
  /\ mode = "enabled" /\ ~saving
  /\ records' = new /\ undo' = records /\ saving' = TRUE
  /\ UNCHANGED <<mode, disk, reported>>

Insert(kept, record) == Len(records) < MaxRecords /\ Write(Append(kept, record))

\* add: an explicit or automatic fact.  Preferences of the requester are routed
\* to the personal scope before they get here.
Add(scope, content, address, own) ==
  /\ \A i \in Live : ~(records[i].scope = scope /\ records[i].content = content)
  /\ ~(scope \in GroupScopes /\ address /\ own)
  /\ Insert(records, [scope |-> scope, content |-> content, address |-> address, own |-> own,
                      slot |-> NoSlot, live |-> TRUE])

SlotMatches(scope, slot) ==
  {i \in Live : records[i].scope = scope /\ records[i].own /\ records[i].slot = slot}

SlotInsert(scope, content, slot, retired) ==
  /\ ~IsSettledOn(SlotMatches(scope, slot), content)
  /\ Insert(Retired(retired), [scope |-> scope, content |-> content, address |-> FALSE,
                               own |-> TRUE, slot |-> slot, live |-> TRUE])

\* Mutant: only one of the matches is retired.
UpsertCurrentSlotRetiringOne(scope, content, slot) ==
  LET matches == SlotMatches(scope, slot)
  IN  SlotInsert(scope, content, slot, {i \in matches : \A j \in matches : i <= j})

\* upsertCurrentSlot: the new value supersedes every live one of the slot.
UpsertCurrentSlot(scope, content, slot) ==
  SlotInsert(scope, content, slot, SlotMatches(scope, slot))

AddressMatches(scope) ==
  {i \in Live : records[i].scope = scope /\ records[i].own /\ records[i].address}

AddressReplace(matches, content) ==
  \E primary \in matches :
    Write([Retired(matches \ {primary}) EXCEPT
             ![primary].content = content, ![primary].address = TRUE, ![primary].own = TRUE])

\* upsertAddressPreference: the newest match is rewritten, the others retired.
\* (Which one is the newest is not told apart here.)
UpsertAddressPreference(scope, content) ==
  LET matches == AddressMatches(scope)
  IN  /\ ~IsSettledOn(matches, content)
      /\ \/ AddressReplace(matches, content)
         \/ /\ matches = {}
            /\ Insert(records, [scope |-> scope, content |-> content, address |-> TRUE,
                                own |-> TRUE, slot |-> NoSlot, live |-> TRUE])

\* update, by a command of the Owner: content, kind and subject change; scope
\* and slot stay, and no other row is looked at.
Update(i, content, address, own) ==
  /\ i \in Live /\ records[i].scope \notin MemberScopes
  /\ Write([records EXCEPT ![i].content = content, ![i].address = address, ![i].own = own])

\* Mutant: the row is removed.
DeleteHard(i) ==
  /\ i \in Live /\ records[i].scope \notin MemberScopes
  /\ Write(SubSeq(records, 1, i - 1) \o SubSeq(records, i + 1, Len(records)))

\* delete: the row stays, marked.
Delete(i) ==
  /\ i \in Live /\ records[i].scope \notin MemberScopes
  /\ Write(Retired({i}))

-----------------------------------------------------------------------------
(* save.                                                                   *)

\* The rename happened: the document is the records.
SaveOk ==
  /\ saving
  /\ disk' = records /\ reported' = records
  /\ saving' = FALSE /\ undo' = <<>>
  /\ UNCHANGED <<mode, records>>

\* Mutant: a failed save keeps the change in memory.
SaveFailedKeeping ==
  /\ saving
  /\ saving' = FALSE /\ undo' = <<>>
  /\ UNCHANGED <<mode, records, disk, reported>>

\* Any step of save throws before the rename: the writes put back what was there.
SaveFailed ==
  /\ saving
  /\ records' = undo
  /\ saving' = FALSE /\ undo' = <<>>
  /\ UNCHANGED <<mode, disk, reported>>

\* Only a part of the document reached the sibling file, which then replaced it.
SaveShort ==
  /\ saving /\ ShortWrites
  /\ disk' = Damaged /\ reported' = records
  /\ saving' = FALSE /\ undo' = <<>>
  /\ UNCHANGED <<mode, records>>

Next ==
  \/ StartEnabled \/ StartDisabled \/ Crash
  \/ \E scope \in Scopes, content \in Contents, address \in BOOLEAN, own \in BOOLEAN :
       Add(scope, content, address, own)
  \/ \E scope \in PersonalScopes, content \in Contents :
       \/ \E slot \in Slots : UpsertCurrentSlot(scope, content, slot)
       \/ UpsertAddressPreference(scope, content)
  \/ \E i \in DOMAIN records :
       \/ \E content \in Contents, address \in BOOLEAN, own \in BOOLEAN : Update(i, content, address, own)
       \/ Delete(i)
  \/ SaveOk \/ SaveFailed \/ SaveShort

Spec == Init /\ [][Next]_vars

-----------------------------------------------------------------------------
(* Properties.                                                             *)

TypeOK ==
  /\ mode \in {"down", "enabled", "disabled"}
  /\ records \in Seq(Record) /\ undo \in Seq(Record) /\ reported \in Seq(Record)
  /\ disk = Damaged \/ disk \in Seq(Record)
  /\ saving \in BOOLEAN
  /\ Len(records) <= MaxRecords

\* Whatever saves have failed and whenever the process died, what the store
\* answers from is what it last reported as written, and the document never
\* holds a write that was rolled back.
MemoryAgreesWithFile ==
  /\ disk \in {reported, Damaged}
  /\ mode = "enabled" => reported = IF saving THEN undo ELSE records

\* A document this process could not read is left as it is.
UnreadableIsKept == [][mode = "disabled" => disk' = disk]_vars

\* Soft delete is final and nothing is erased: across rewrites, crashes and
\* restarts a reported record stays, and a dead one stays dead.
KeptForGood ==
  /\ Len(reported') >= Len(reported)
  /\ \A i \in DOMAIN reported : ~reported[i].live => reported'[i] = reported[i]

NothingIsErased == [][KeptForGood]_vars

\* A successful slot write leaves exactly one current value, also where updates
\* of a record's subject had let several of them coexist.
OneCurrentValue ==
  [][\A scope \in PersonalScopes, content \in Contents, slot \in Slots :
       UpsertCurrentSlot(scope, content, slot) => Cardinality(SlotMatches(scope, slot)') = 1]_vars

\* Claimed by the header of the store (memory-store.ts 4-6, 15-17), not held: a
\* partial unique index over the live rows, so two live records of a scope differ in
\* content.  Only add looks for the content; an update or a slot write does not.
LiveContentIsUnique ==
  \A i, j \in Live :
    records[i].scope = records[j].scope /\ records[i].content = records[j].content => i = j

\* The claim of save: the document is replaced atomically, so no write leaves one
\* that cannot be read.
DocumentIsWhole == disk # Damaged
=============================================================================
