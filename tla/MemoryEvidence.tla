--------------------------- MODULE MemoryEvidence ---------------------------
(***************************************************************************)
(* Evidence for memories (src/src/memory-evidence-accumulator.ts and       *)
(* memory-evidence.ts, called from memory-service.ts).  A habit becomes a  *)
(* record once enough messages showed it; what was seen waits in a pool    *)
(* that forgets what stays idle.  A command of the Owner reads candidates, *)
(* awaits the provider and then adds, updates or deletes; meanwhile other  *)
(* commands, automatic writes and address preferences go on.  A record     *)
(* carries the number and the times of its evidence, and the document is   *)
(* refused if the times of one record are not in order.                    *)
(*                                                                         *)
(* Abstractions.  A key stands for all wordings that share a candidate     *)
(* key, and has one live record, which keeps the key when it is updated.  A*)
(* reference is a message of the current batch.  Only REPEATED_BEHAVIOR is *)
(* pooled; what the requester states goes straight to the store, where a   *)
(* current slot (his city, say) has one value that a new one replaces.     *)
(* Records written before evidence was kept have none until an update.  The*)
(* updatedAt of a record is its lastEvidenceAt: one reading of the clock   *)
(* sets both (but for an admission after the clock was set back).          *)
(* `support` and `admitted` are histories: the contributions an entry was  *)
(* counted from, and those a record was admitted on, in their order.       *)
(***************************************************************************)
EXTENDS Integers, Sequences, FiniteSets

CONSTANTS
  Keys,             \* candidate keys
  AddressKeys,      \* those of the address preference of a scope
  SlotKeys,         \* those of a current slot
  LegacyKeys,       \* those that may have a record from before evidence was kept
  Scopes, GroupScopes,
  ScopeOf,          \* key -> scope
  Commands,         \* explicit commands of Owners
  Reach,            \* command -> its Owner's personal scope and its group's
  Refs,             \* references valid in a batch (M1, M2, ...)
  Threshold,        \* REPEATED_EVIDENCE_ADMISSION_THRESHOLD
  TTL,              \* REPEATED_EVIDENCE_TTL_MS
  EligibleLimit,    \* MEMORY_ELIGIBLE_LIMIT
  ClockStepsBack,   \* the wall clock may be set back
  MaxMentions,      \* bound of the model: contributions counted in one entry
  MaxIds,           \* bound of the model: ids before the last direct write
  MaxCount,         \* bound of the model: address preferences counted on one record
  MaxBatches,       \* bound of the model: batches
  MaxClock          \* bound of the model: clock readings

ASSUME EvidenceAssumption ==
  /\ IsFiniteSet(Refs) /\ LegacyKeys \subseteq Keys
  /\ AddressKeys \subseteq Keys /\ SlotKeys \subseteq Keys \ AddressKeys
  /\ ScopeOf \in [Keys -> Scopes] /\ GroupScopes \subseteq Scopes
  /\ \A k \in AddressKeys \cup SlotKeys : ScopeOf[k] \notin GroupScopes
  /\ Reach \in [Commands -> SUBSET Scopes]
  /\ Threshold \in Nat \ {0} /\ TTL \in Nat \ {0} /\ EligibleLimit \in Nat \ {0}
  /\ ClockStepsBack \in BOOLEAN /\ MaxMentions \in Nat /\ MaxIds \in Nat
  /\ MaxCount \in Nat /\ MaxBatches \in Nat \ {0} /\ MaxClock \in Nat

VARIABLES
  clock,     \* Date.now
  batch,     \* number of the batch whose candidates are written
  pool,      \* MemoryEvidenceAccumulator.entries
  records,   \* key -> its live record: id, count and times of its evidence
  issued,    \* ids given so far
  fresh,     \* commands not given yet
  shown,     \* running command -> the candidates its prompt holds
  loaded,    \* the store is enabled
  support,   \* history: key -> what the pool entry was counted from
  admitted   \* history: key -> what the record was admitted on

poolVars == <<batch, pool, support>>
commandVars == <<fresh, shown>>
vars == <<clock, poolVars, records, issued, commandVars, loaded, admitted>>

Entry == [count : Nat \ {0}, firstSeenAt : Nat, lastSeenAt : Nat]
Evidence == [id : Nat, count : Nat \ {0}, firstEvidenceAt : Nat, lastEvidenceAt : Nat]

\* A record from before evidence was kept, which no field of it was added to since.
Never == -1
Legacy == [id |-> 0, count |-> 0, firstEvidenceAt |-> Never, lastEvidenceAt |-> Never]
Record == Evidence \cup {Legacy}

Contribution == [batch : 1 .. MaxBatches, refs : SUBSET Refs, at : Nat]

Empty == [k \in {} |-> {}]

Init ==
  /\ clock = 0 /\ batch = 1 /\ loaded = TRUE
  /\ pool = Empty /\ issued = 0
  /\ \E old \in SUBSET LegacyKeys : records = [k \in old |-> Legacy]
  /\ fresh = Commands /\ shown = Empty
  /\ support = [k \in Keys |-> <<>>] /\ admitted = [k \in Keys |-> <<>>]

Without(f, ks) == [k \in DOMAIN f \ ks |-> f[k]]
With(f, key, value) == [k \in DOMAIN f \cup {key} |-> IF k = key THEN value ELSE f[k]]

-----------------------------------------------------------------------------

\* Idle beyond the time to live.
Stale(entry) == clock - entry.lastSeenAt > TTL

\* Mutant: only the other keys are swept.
FreshButKey(key) == {k \in DOMAIN pool : k = key \/ ~Stale(pool[k])}

\* What survives the sweep of a contribution.
Fresh(key) == {k \in DOMAIN pool : ~Stale(pool[k])}

\* Mutant: the contribution counts once, whatever it refers to.
EntryCountingOne(key, refs) ==
  IF key \in Fresh(key)
    THEN [pool[key] EXCEPT !.count = @ + 1, !.lastSeenAt = clock]
    ELSE [count |-> 1, firstSeenAt |-> clock, lastSeenAt |-> clock]

\* addEvidence
NewEntry(key, refs) ==
  IF key \in Fresh(key)
    THEN [pool[key] EXCEPT !.count = @ + Cardinality(refs), !.lastSeenAt = clock]
    ELSE [count |-> Cardinality(refs), firstSeenAt |-> clock, lastSeenAt |-> clock]

\* accumulatedRepeatedEvidenceMetadata
Accumulated(entry) ==
  [id |-> issued + 1, count |-> entry.count,
   firstEvidenceAt |-> IF entry.firstSeenAt < clock THEN entry.firstSeenAt ELSE clock,
   lastEvidenceAt |-> IF entry.firstSeenAt < clock THEN clock ELSE entry.firstSeenAt]

\* The gate's check of references to this batch; at least one is needed.
ValidRefs(refs) == refs # {}

\* One REPEATED_BEHAVIOR candidate of the batch, with references the gate found
\* valid; at the threshold the record is added, unless it is there.  A batch may
\* name a key in several candidates.  Nothing automatic is written to a group.
Candidate(key, refs) ==
  LET entry == NewEntry(key, refs)
      earlier == IF key \in Fresh(key) THEN support[key] ELSE <<>>
      basis == Append(earlier, [batch |-> batch, refs |-> refs, at |-> clock])
      adds == entry.count >= Threshold /\ key \notin DOMAIN records
  IN  /\ loaded /\ ValidRefs(refs)
      /\ ScopeOf[key] \notin GroupScopes /\ key \notin AddressKeys \cup SlotKeys
      /\ Len(earlier) < MaxMentions
      /\ pool' = With([k \in Fresh(key) |-> pool[k]], key, entry)
      /\ support' = [support EXCEPT ![key] = basis]
      /\ records' = IF adds THEN With(records, key, Accumulated(entry)) ELSE records
      /\ issued' = IF adds THEN issued + 1 ELSE issued
      /\ admitted' = IF adds THEN [admitted EXCEPT ![key] = basis] ELSE admitted
      /\ UNCHANGED <<clock, batch, loaded, commandVars>>

\* admitAutomaticEvidence of a statement, and what becomes of its record.
Gated(refs) ==
  [id |-> issued + 1, count |-> Cardinality(refs),
   firstEvidenceAt |-> clock, lastEvidenceAt |-> clock]

\* A candidate of a class that is not pooled: a record is added unless it is there,
\* and another value of a current slot replaces the live one.
Direct(key, refs) ==
  /\ loaded /\ ValidRefs(refs) /\ issued < MaxIds
  /\ ScopeOf[key] \notin GroupScopes /\ key \notin AddressKeys
  /\ key \in SlotKeys \/ key \notin DOMAIN records
  /\ records' = With(records, key, Gated(refs)) /\ issued' = issued + 1
  /\ UNCHANGED <<clock, poolVars, commandVars, loaded, admitted>>

NextBatch ==
  /\ batch < MaxBatches
  /\ batch' = batch + 1
  /\ UNCHANGED <<clock, pool, records, issued, commandVars, loaded, support, admitted>>

-----------------------------------------------------------------------------
(* Commands of Owners.                                                     *)

\* The authoritative evidence of a command or an address preference: the first time
\* of the previous record if it has evidence, and one item more.
Upgraded(previous) ==
  [id |-> previous.id, count |-> previous.count + 1,
   firstEvidenceAt |-> IF previous.firstEvidenceAt = Never THEN clock ELSE previous.firstEvidenceAt,
   lastEvidenceAt |-> clock]
Stated == [id |-> issued + 1, count |-> 1, firstEvidenceAt |-> clock, lastEvidenceAt |-> clock]

\* tryHandleExplicit up to its await: the prompt holds the newest readable records
\* of the scopes the command reaches, so many as fit.
Command(c) ==
  /\ loaded /\ c \in fresh
  /\ \E candidates \in SUBSET {k \in DOMAIN records : ScopeOf[k] \in Reach[c]} :
       shown' = With(shown, c, [k \in candidates |-> records[k]])
  /\ fresh' = fresh \ {c}
  /\ UNCHANGED <<clock, poolVars, records, issued, loaded, admitted>>

End(c) == c \in DOMAIN shown /\ shown' = Without(shown, {c})

\* ADD: to the group if the request says so, else to the Owner's own scope.
OwnerAdd(c, key) ==
  /\ End(c)
  /\ ScopeOf[key] \in Reach[c] /\ key \notin DOMAIN records \cup SlotKeys
  /\ records' = With(records, key, Stated) /\ issued' = issued + 1
  /\ UNCHANGED <<clock, poolVars, fresh, loaded, admitted>>

\* Mutant: the record is looked up by its key, not by its id.
TargetOfKey(c, key) == key \in DOMAIN shown[c] /\ key \in DOMAIN records

\* resolveMutationTarget, and the live row of that id.
Target(c, key) ==
  /\ key \in DOMAIN shown[c] /\ key \in DOMAIN records
  /\ records[key].id = shown[c][key].id

\* UPDATE: the evidence is computed from the candidate, not from the row.
OwnerUpdate(c, key) ==
  /\ End(c) /\ Target(c, key)
  /\ records' = [records EXCEPT ![key] = [Upgraded(shown[c][key]) EXCEPT !.id = records[key].id]]
  /\ UNCHANGED <<clock, poolVars, issued, fresh, loaded, admitted>>

\* DELETE: the pool keeps its entry.
OwnerDelete(c, key) ==
  /\ End(c) /\ Target(c, key)
  /\ records' = Without(records, {key})
  /\ admitted' = [admitted EXCEPT ![key] = <<>>]
  /\ UNCHANGED <<clock, poolVars, issued, fresh, loaded>>

\* No mutation, one that is refused or has no live target, a save that fails, or
\* an error or the deadline under the await.
GiveUp(c) ==
  /\ End(c)
  /\ UNCHANGED <<clock, poolVars, records, issued, fresh, loaded, admitted>>

\* The newest records of a scope are retrieved; of two of one time either may come
\* first.
Beside(key) == {k \in DOMAIN records \ {key} : ScopeOf[k] = ScopeOf[key]}
MayBeFound(key) ==
  Cardinality({k \in Beside(key) : records[k].lastEvidenceAt > records[key].lastEvidenceAt}) < EligibleLimit
MayBeMissed(key) ==
  Cardinality({k \in Beside(key) : records[k].lastEvidenceAt >= records[key].lastEvidenceAt}) >= EligibleLimit

\* tryHandleSelfAddressPreference, without an await: the requester's own address
\* is rewritten in place, or added.  Its evidence is that of a first statement if
\* the record was not among those retrieved.
SelfAddress(key) ==
  /\ loaded /\ key \in AddressKeys
  /\ IF key \in DOMAIN records
     THEN /\ records[key].count < MaxCount
          /\ \/ MayBeFound(key) /\ records' = [records EXCEPT ![key] = Upgraded(@)]
             \/ MayBeMissed(key) /\ records' = [records EXCEPT ![key] = [Stated EXCEPT !.id = records[key].id]]
          /\ UNCHANGED issued
     ELSE records' = With(records, key, Stated) /\ issued' = issued + 1
  /\ UNCHANGED <<clock, poolVars, commandVars, loaded, admitted>>

-----------------------------------------------------------------------------

InOrder(times) == times.firstEvidenceAt <= times.lastEvidenceAt

\* The process starts anew: pool and commands are lost, and parseRecord refuses the document
\* if the times of one record are not in order.
Restart ==
  /\ batch < MaxBatches
  /\ batch' = batch + 1
  /\ pool' = Empty /\ support' = [k \in Keys |-> <<>>]
  /\ loaded' = \A k \in DOMAIN records : InOrder(records[k])
  /\ shown' = Empty
  /\ UNCHANGED <<clock, records, issued, fresh, admitted>>

Tick ==
  /\ clock < MaxClock /\ clock' = clock + 1
  /\ UNCHANGED <<poolVars, records, issued, commandVars, loaded, admitted>>

\* The wall clock is set back.
StepBack ==
  /\ ClockStepsBack /\ clock > 0 /\ clock' = clock - 1
  /\ UNCHANGED <<poolVars, records, issued, commandVars, loaded, admitted>>

Next ==
  \/ \E key \in Keys :
       \/ \E refs \in SUBSET Refs : Candidate(key, refs) \/ Direct(key, refs)
       \/ SelfAddress(key)
       \/ \E c \in Commands : OwnerAdd(c, key) \/ OwnerUpdate(c, key) \/ OwnerDelete(c, key)
  \/ \E c \in Commands : Command(c) \/ GiveUp(c)
  \/ NextBatch \/ Restart \/ Tick \/ StepBack

Spec == Init /\ [][Next]_vars

-----------------------------------------------------------------------------
(* Properties.                                                             *)

Maps(f, S) == DOMAIN f \subseteq Keys /\ \A k \in DOMAIN f : f[k] \in S

TypeOK ==
  /\ clock \in 0 .. MaxClock /\ batch \in 1 .. MaxBatches /\ loaded \in BOOLEAN
  /\ Maps(pool, Entry) /\ Maps(records, Record) /\ issued \in Nat
  /\ fresh \subseteq Commands /\ DOMAIN shown \subseteq Commands \ fresh
  /\ \A c \in DOMAIN shown : Maps(shown[c], Record)
  /\ support \in [Keys -> Seq(Contribution)] /\ admitted \in [Keys -> Seq(Contribution)]

\* The messages behind some contributions: the references of one batch are its own.
Messages(history) == UNION {{history[i].batch} \X history[i].refs : i \in DOMAIN history}

\* Two contributions of one batch refer to the same message: the extractor named the
\* key twice.
Repeats(history) ==
  \E i, j \in DOMAIN history :
    /\ i # j /\ history[i].batch = history[j].batch
    /\ history[i].refs \cap history[j].refs # {}

\* Across batches, expiry, restarts and deletions of the record, nothing but a key
\* named twice in one batch for the same message makes a count differ from the number
\* of distinct messages behind it, or lets fewer of them than the threshold make a
\* record (addEvidence; the gate compares the references of one candidate only).
OnlyRepeatsInflate ==
  /\ \A k \in DOMAIN pool :
       Repeats(support[k]) \/ pool[k].count = Cardinality(Messages(support[k]))
  /\ \A k \in Keys :
       \/ admitted[k] = <<>> \/ Repeats(admitted[k])
       \/ Cardinality(Messages(admitted[k])) >= Threshold

\* Mentions of a habit count together only if no pause between two of them was
\* longer than the time to live, however long ago the first was and whatever else
\* was swept meanwhile.
NoPauseBeyondTTL ==
  \A k \in Keys : \A i \in DOMAIN admitted[k] \ {1} :
    admitted[k][i].at - admitted[k][i - 1].at <= TTL

\* The live record of a key stays the same record.
Lives(k) == k \in DOMAIN records \cap DOMAIN records' /\ records'[k].id = records[k].id

ShownTo(c, k) ==
  k \in DOMAIN shown[c] /\ shown[c][k].id = records[k].id /\ ScopeOf[k] \in Reach[c]

\* What may become of a record: a command updates or deletes it, its requester
\* states his address anew, or another value takes its slot.
Commanded(k) ==
  /\ \E c \in DOMAIN shown \ DOMAIN shown' : ShownTo(c, k)
  /\ Lives(k) \/ k \notin DOMAIN records'
Restated(k) == k \in AddressKeys /\ Lives(k)
Superseded(k) == k \in SlotKeys /\ k \in DOMAIN records' /\ ~Lives(k)

\* Whatever happened to a memory while the provider was asked, a command changes
\* only a record its own prompt held and its scopes reach, never a later one of
\* the same key; nothing else changes one but a new address or a new value of its
\* slot.  A record begins with its times in order, even if the clock was set back,
\* and keeps its first evidence if it had some from the beginning and is no address,
\* however old the candidate is that a command computes from (tryHandleExplicit;
\* upsertCurrentSlot; upgradedExplicitEvidence).
EvidenceIsKept ==
  [][/\ \A k \in DOMAIN records' : Lives(k) \/ InOrder(records'[k])
     /\ \A k \in DOMAIN records :
          \/ k \in DOMAIN records' /\ records'[k] = records[k]
          \/ Commanded(k) \/ Restated(k) \/ Superseded(k)
     /\ \A k \in DOMAIN records \ AddressKeys :
          Lives(k) /\ records[k].id # Legacy.id
            => records'[k].firstEvidenceAt = records[k].firstEvidenceAt]_vars

\* Claimed of an update (memory-service.ts 1072-1074, 768-770), not held: the
\* first-evidence time of a record is kept.  Two overlapping updates of a record
\* without evidence both begin it, and an address that retrieval misses begins anew.
FirstEvidenceIsKept ==
  [][\A k \in DOMAIN records :
       Lives(k) /\ records[k].firstEvidenceAt # Never
         => records'[k].firstEvidenceAt = records[k].firstEvidenceAt]_vars

\* Claimed there too (memory-evidence.ts 263-264), not held: a statement counts as one
\* item more.  Of two overlapping updates one is not counted.
StatementIsCounted ==
  [][\A k \in DOMAIN records :
       Lives(k) /\ records'[k] # records[k] => records'[k].count = records[k].count + 1]_vars

\* Claimed by the header of the accumulator (22-23), not held: the count is that of
\* distinct references.
CountIsDistinct ==
  \A k \in DOMAIN pool : pool[k].count = Cardinality(Messages(support[k]))

\* Claimed by the type of the metadata (memory-evidence.ts 72), not held once the clock
\* was set back: the first evidence is not after the last.
EvidenceTimesInOrder == \A k \in DOMAIN records : InOrder(records[k])
=============================================================================
