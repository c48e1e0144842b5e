-------------------------- MODULE PendingOutbound --------------------------
(***************************************************************************)
(* The pending outbound store of the Agent (src/src/outbound-delivery.ts): *)
(* a generated reply is staged here before its command leaves the process, *)
(* and only a matching SENT acknowledgement turns it into a committed      *)
(* reply.  Acknowledgements come from the external runtime, which may      *)
(* repeat them, delay them past the time to live, or never send them.      *)
(*                                                                         *)
(* Abstractions.  The random UUID of a reply is its issue number, so the   *)
(* insertion order of the Map is the order of its keys; the content hash   *)
(* is the text itself (SHA-256 taken as injective); Date.now never runs    *)
(* backwards.  `settled` is a history variable the code does not keep.     *)
(***************************************************************************)
EXTENDS Integers, Sequences, FiniteSets, Functions

CONSTANTS
  Requests,    \* requestMessageId values
  Texts,       \* reply texts
  MaxEntries,  \* options.maxEntries, the bound of each of the three memories
  Ttl,         \* options.ttlMs, in clock units
  MaxIssued,   \* bound of the model: replies staged in one behaviour
  MaxClock     \* bound of the model: last clock reading

ASSUME StoreAssumption ==
  /\ MaxEntries \in Nat \ {0}
  /\ Ttl \in Nat \ {0}
  /\ MaxIssued \in Nat
  /\ MaxClock \in Nat

VARIABLES
  pending,     \* id -> staged reply
  finalized,   \* settled ids with their status, oldest first
  expired,     \* ids dropped for age and still remembered
  issued,      \* ids handed out so far
  clock,       \* Date.now()
  settled      \* history: every outcome, with the age the reply had

vars == <<pending, finalized, expired, issued, clock, settled>>

Reply == [request : Requests, text : Texts, stagedAt : 0 .. MaxClock]
Ack == [id : 0 .. MaxIssued, request : Requests, text : Texts, status : {"SENT", "FAILED"}]
Accepted == {"SENT_COMMITTED", "FAILED_DISCARDED"}

Init ==
  /\ pending = <<>>
  /\ finalized = <<>>
  /\ expired = {}
  /\ issued = 0
  /\ clock = 0
  /\ settled = <<>>

-----------------------------------------------------------------------------
(* Helpers: what the Maps still hold after prune() ran at this instant.    *)

\* The n most recently inserted members of a set of ids.
Newest(S, n) == {i \in S : Cardinality({j \in S : j > i}) < n}

\* Mutant: the time to live is still alive.
LiveInclusive == {i \in DOMAIN pending : clock <= pending[i].stagedAt + Ttl}

\* prune() keeps the entries younger than the time to live ...
Live == {i \in DOMAIN pending : clock < pending[i].stagedAt + Ttl}

\* ... and remembers at most MaxEntries of the others, the oldest dropped first.
ExpiredNow == Newest(expired \cup (DOMAIN pending \ Live), MaxEntries)

FinalizedIds == {finalized[k].id : k \in DOMAIN finalized}

\* trimHistory() after one insertion into a history within its bound.
Trim(history) == IF Len(history) > MaxEntries THEN Tail(history) ELSE history

\* getIdentityFor: the first live entry staged for this request with this text.
Matches(request, text) ==
  {i \in Live : pending[i].request = request /\ pending[i].text = text}

IdentityFor(request, text) ==
  IF Matches(request, text) = {} THEN 0
  ELSE CHOOSE i \in Matches(request, text) : \A j \in Matches(request, text) : i <= j

\* The checks of settle in the order the code makes them.
Verdict(ack) ==
  IF ack.id \in FinalizedIds THEN "DUPLICATE_ACK"
  ELSE IF ack.id \in ExpiredNow THEN "PENDING_EXPIRED"
  ELSE IF ack.id \notin Live THEN "UNKNOWN_OUTBOUND"
  ELSE IF pending[ack.id].request # ack.request THEN "REQUEST_ID_MISMATCH"
  ELSE IF ack.status = "FAILED" THEN "FAILED_DISCARDED"
  ELSE IF pending[ack.id].text # ack.text THEN "CONTENT_HASH_MISMATCH"
  ELSE "SENT_COMMITTED"

Outcome(ack) ==
  [id |-> ack.id, status |-> ack.status, age |-> clock - pending[ack.id].stagedAt]

-----------------------------------------------------------------------------
(* Operations.                                                             *)

\* stage: insert under a fresh id next to the entries that are kept.
StageKeeping(request, text, kept) ==
  LET id == issued + 1
      reply == [request |-> request, text |-> text, stagedAt |-> clock]
  IN  /\ issued < MaxIssued
      /\ pending' = [i \in kept \cup {id} |-> IF i = id THEN reply ELSE pending[i]]
      /\ expired' = ExpiredNow
      /\ issued' = id
      /\ UNCHANGED <<finalized, clock, settled>>

\* Mutant: the newest makes room.
StageEvictingNewest(request, text) ==
  StageKeeping(request, text, {i \in Live : Cardinality({j \in Live : j < i}) < MaxEntries - 1})

\* stage: prune and make room for one by dropping the oldest.
Stage(request, text) == StageKeeping(request, text, Newest(Live, MaxEntries - 1))

\* getIdentityFor: a query, but one that prunes.
Lookup ==
  /\ pending' = Restrict(pending, Live)
  /\ expired' = ExpiredNow
  /\ UNCHANGED <<finalized, issued, clock, settled>>

\* settle, when the acknowledgement is accepted, leaving these entries.
SettleLeaving(ack, left) ==
  /\ Verdict(ack) \in Accepted
  /\ pending' = Restrict(pending, left)
  /\ finalized' = Trim(Append(finalized, [id |-> ack.id, status |-> ack.status]))
  /\ settled' = Append(settled, Outcome(ack))
  /\ expired' = ExpiredNow
  /\ UNCHANGED <<issued, clock>>

\* Mutant: the settled entry is only remembered, not removed.
SettleKeepingEntry(ack) == SettleLeaving(ack, Live)

\* The entry leaves pending for the finalized history in one step (and onSent
\* runs for SENT: the composing modules add what it does).
SettleAccepted(ack) == SettleLeaving(ack, Live \ {ack.id})

\* settle, when a check refuses the acknowledgement: only the pruning shows.  (A
\* malformed one is refused before the pruning and changes nothing at all.)
SettleRejected(ack) ==
  /\ Verdict(ack) \notin Accepted
  /\ pending' = Restrict(pending, Live)
  /\ expired' = ExpiredNow
  /\ UNCHANGED <<finalized, issued, clock, settled>>

Settle(ack) == SettleAccepted(ack) \/ SettleRejected(ack)

Tick ==
  /\ clock < MaxClock
  /\ clock' = clock + 1
  /\ UNCHANGED <<pending, finalized, expired, issued, settled>>

Next ==
  \/ \E request \in Requests, text \in Texts : Stage(request, text)
  \/ Lookup
  \/ \E ack \in Ack : Settle(ack)
  \/ Tick

Spec == Init /\ [][Next]_vars

-----------------------------------------------------------------------------
(* Properties.                                                             *)

TypeOK ==
  /\ issued \in 0 .. MaxIssued
  /\ clock \in 0 .. MaxClock
  /\ DOMAIN pending \subseteq 1 .. issued
  /\ pending \in [DOMAIN pending -> Reply]
  /\ finalized \in Seq([id : 1 .. issued, status : {"SENT", "FAILED"}])
  /\ expired \subseteq 1 .. issued
  /\ settled \in Seq([id : 1 .. issued, status : {"SENT", "FAILED"}, age : 0 .. MaxClock])

\* The three memories never disagree about a reply: settle and prune move an id
\* from one to the other, so the order of the membership tests in settle never
\* decides which verdict an acknowledgement gets.
OneMemoryPerReply ==
  /\ DOMAIN pending \cap expired = {}
  /\ DOMAIN pending \cap FinalizedIds = {}
  /\ expired \cap FinalizedIds = {}

\* No memory grows past maxEntries, whatever mix of staging, expiry and settling
\* has happened: each trims only its own insertions.
WithinCapacity ==
  /\ Cardinality(DOMAIN pending) <= MaxEntries
  /\ Len(finalized) <= MaxEntries
  /\ Cardinality(expired) <= MaxEntries

\* A reply gets one outcome, even when its acknowledgement is repeated after the
\* finalized history has forgotten it, and a reply once reported FAILED is never
\* committed by a later SENT.
SettledOnce ==
  \A k, l \in DOMAIN settled : settled[k].id = settled[l].id => k = l

\* No reply is committed at or past its time to live, also when nothing pruned
\* the store between the expiry and the acknowledgement.
NeverSettledLate ==
  \A k \in DOMAIN settled : settled[k].age < Ttl

\* A reply leaves the store only because it settled, because it is too old, or
\* because the store was full of live replies and it was the oldest of
\* them: no other operation loses a reply that may still be acknowledged.
LossIsNamed ==
  \A i \in DOMAIN pending \ DOMAIN pending' :
    \/ i \notin Live
    \/ settled' # settled /\ settled'[Len(settled')].id = i
    \/ /\ Cardinality(Live) = MaxEntries
       /\ \A j \in Live : i <= j

NoSilentLoss == [][LossIsNamed]_vars

\* The store implements the ledger: replies are numbered once, closed once, and
\* what was dropped is never closed.
Statuses(history) == [k \in DOMAIN history |-> [id |-> history[k].id, status |-> history[k].status]]

Ledger == INSTANCE ReplyLedger WITH open <- DOMAIN pending, outcomes <- Statuses(settled)

ImplementsLedger == Ledger!LedgerSpec
=============================================================================
