---------------------------- MODULE MemoryBuffer ----------------------------
(***************************************************************************)
(* The automatic side of the memory service (src/src/memory-service.ts):   *)
(* group messages are admitted once, buffered per requester, and handed in *)
(* batches to an extractor that runs in the background with a deadline.    *)
(* Observations, the timer and the ends of several flushes interleave; a   *)
(* batch whose extraction fails goes back to the front of its buffer.      *)
(*                                                                         *)
(* Abstractions.  A buffered entry is the number of its admission; what    *)
(* the extractor makes of a batch is one step (FlushSucceeds), as the code *)
(* writes all records of a batch without an await.  `admitted` gives the   *)
(* admissions their message; `admitted` and `extracted` are histories.     *)
(***************************************************************************)
EXTENDS Naturals, Sequences, FiniteSets, SequencesExt

CONSTANTS
  Requesters,     \* (conversation, requester) pairs
  Messages,       \* messageIds
  Sender,         \* the requester of each message
  Cap,            \* MEMORY_MAX_PENDING_MESSAGES
  BatchSize,      \* MEMORY_AUTO_FLUSH_BATCH_SIZE
  Minimum,        \* MEMORY_CHAT_FLUSH_MINIMUM
  SeenLimit,      \* MEMORY_SEEN_MESSAGE_LIMIT
  MaxAdmissions   \* bound of the model

ASSUME BufferAssumption ==
  /\ Sender \in [Messages -> Requesters]
  /\ Minimum \in Nat \ {0} /\ BatchSize \in Nat /\ Cap \in Nat
  /\ Minimum <= BatchSize /\ BatchSize <= Cap
  /\ SeenLimit \in Nat \ {0} /\ MaxAdmissions \in Nat

VARIABLES
  entries,    \* PendingBuffer.entries of each requester
  flushing,   \* PendingBuffer.flushing
  batch,      \* what the running flush of a requester works on
  seen,       \* seenMessageIds, shared by all requesters
  admitted,   \* history: the messages admitted, in order
  extracted   \* history: admissions whose batch was extracted

bufferVars == <<entries, flushing, batch, seen, admitted, extracted>>

Admission == 1 .. Len(admitted)

BufferInit ==
  /\ entries = [r \in Requesters |-> <<>>]
  /\ flushing = [r \in Requesters |-> FALSE]
  /\ batch = [r \in Requesters |-> <<>>]
  /\ seen = <<>> /\ admitted = <<>> /\ extracted = {}

Newest(s, n) == SubSeq(s, IF Len(s) > n THEN Len(s) - n + 1 ELSE 1, Len(s))

-----------------------------------------------------------------------------

\* Mutant: the list of seen messages forgets one too early.
RememberFewer(message) == Newest(Append(seen, message), SeenLimit - 1)

\* rememberMessage: the oldest ids make room.
Remember(message) == Newest(Append(seen, message), SeenLimit)

\* PendingBuffer.add
Add(r, entry) == Append(Newest(entries[r], Cap - 1), entry)

\* Mutant: a second flush may begin while one is running.
MayFlushTwice(r, pending, minimum) == Len(pending) >= minimum

\* tryBeginFlush: whether it returns a batch.
MayFlush(r, pending, minimum) == ~flushing[r] /\ Len(pending) >= minimum

\* observeHumanMessage, for a message not seen; any other one is refused.
Observe(message, chatTriggered) ==
  LET r == Sender[message]
      pending == Add(r, Len(admitted) + 1)
      minimum == IF chatTriggered THEN Minimum ELSE BatchSize
  IN  /\ Len(admitted) < MaxAdmissions
      /\ ~Contains(seen, message)
      /\ seen' = Remember(message)
      /\ admitted' = Append(admitted, message)
      /\ IF MayFlush(r, pending, minimum)
           THEN /\ flushing' = [flushing EXCEPT ![r] = TRUE]
                /\ batch' = [batch EXCEPT ![r] = pending]
                /\ entries' = [entries EXCEPT ![r] = <<>>]
           ELSE /\ entries' = [entries EXCEPT ![r] = pending]
                /\ UNCHANGED <<flushing, batch>>
      /\ UNCHANGED extracted

\* flushPendingBuffers, every five minutes, for all buffers at once.
TimerFlush ==
  LET due == {r \in Requesters : MayFlush(r, entries[r], Minimum)}
  IN  /\ due # {}
      /\ flushing' = [r \in Requesters |-> r \in due \/ flushing[r]]
      /\ batch' = [r \in Requesters |-> IF r \in due THEN entries[r] ELSE batch[r]]
      /\ entries' = [r \in Requesters |-> IF r \in due THEN <<>> ELSE entries[r]]
      /\ UNCHANGED <<seen, admitted, extracted>>

\* flushAsync to its end: the candidates were written and the batch is done.
FlushSucceeds(r) ==
  /\ batch[r] # <<>>
  /\ extracted' = extracted \cup Range(batch[r])
  /\ flushing' = [flushing EXCEPT ![r] = FALSE]
  /\ batch' = [batch EXCEPT ![r] = <<>>]
  /\ UNCHANGED <<entries, seen, admitted>>

\* Mutant: what arrived meanwhile goes before the restored batch.
RestoredLast(r) == Newest(entries[r] \o batch[r], Cap)

\* PendingBuffer.complete(batch, false)
Restored(r) == Newest(batch[r] \o entries[r], Cap)

\* Mutant: the flag stays set.
FlushFailsHolding(r) ==
  /\ batch[r] # <<>>
  /\ entries' = [entries EXCEPT ![r] = Restored(r)]
  /\ batch' = [batch EXCEPT ![r] = <<>>]
  /\ UNCHANGED <<flushing, seen, admitted, extracted>>

\* The extractor threw, or its deadline passed, also when an answer came late.
FlushFails(r) ==
  /\ batch[r] # <<>>
  /\ entries' = [entries EXCEPT ![r] = Restored(r)]
  /\ flushing' = [flushing EXCEPT ![r] = FALSE]
  /\ batch' = [batch EXCEPT ![r] = <<>>]
  /\ UNCHANGED <<seen, admitted, extracted>>

BufferNext ==
  \/ \E message \in Messages, chatTriggered \in BOOLEAN : Observe(message, chatTriggered)
  \/ TimerFlush
  \/ \E r \in Requesters : FlushSucceeds(r) \/ FlushFails(r)

\* The interval keeps firing; the background deadline ends every flush.
Fairness ==
  /\ WF_bufferVars(TimerFlush)
  /\ \A r \in Requesters : WF_bufferVars(FlushSucceeds(r) \/ FlushFails(r))

BufferSpec == BufferInit /\ [][BufferNext]_bufferVars

-----------------------------------------------------------------------------
(* Properties.                                                             *)

\* What the service still has of a requester's messages, oldest first.
Held(r) == batch[r] \o entries[r]

BufferTypeOK ==
  /\ entries \in [Requesters -> Seq(Admission)]
  /\ flushing \in [Requesters -> BOOLEAN]
  /\ batch \in [Requesters -> Seq(Admission)]
  /\ \A r \in Requesters : flushing[r] <=> batch[r] # <<>>
  /\ seen \in Seq(Messages) /\ admitted \in Seq(Messages)
  /\ extracted \subseteq Admission

\* The extractor reads a requester's own messages, in the order they came and
\* each once, however flushes fail and whatever arrives during them: evidence is
\* counted by position in the batch.
InOrder ==
  \A r \in Requesters :
    /\ \A i, j \in DOMAIN Held(r) : i < j => Held(r)[i] < Held(r)[j]
    /\ \A n \in Range(Held(r)) : Sender[admitted[n]] = r /\ n \notin extracted

\* A message delivered again is buffered again only if enough others were
\* admitted since for its id to be forgotten.
RepeatedOnlyWhenForgotten ==
  \A i, j \in Admission : i < j /\ admitted[i] = admitted[j] => j - i > SeenLimit

\* A message leaves the service by being extracted, or because Cap newer ones of its
\* requester are still held: it was the oldest of a full buffer when one more came
\* (add), or of a failed batch that did not fit before what arrived meanwhile and was
\* cut (complete).
LossIsOverflow ==
  \A r \in Requesters :
    LET arrived == {n \in DOMAIN admitted' : n \notin DOMAIN admitted /\ Sender[admitted'[n]] = r}
        lost == (Range(Held(r)) \cup arrived) \ (Range(Held(r)') \cup extracted')
    IN  \A n \in lost : Cardinality({k \in Range(Held(r)') : n < k}) >= Cap

OnlyOverflowIsLost == [][LossIsOverflow]_bufferVars

\* The claim beside the restore (memory-service.ts 424-425): a failed flush loses
\* nothing, all of its batch is in the buffer again.
RestoreLosesNothing ==
  [][\A r \in Requesters :
       batch'[r] = <<>> => Range(batch[r]) \subseteq Range(entries'[r]) \cup extracted']_bufferVars

\* A buffer that reached the minimum is taken up by a flush, also after flushes
\* of it failed.
BufferIsDrained ==
  \A r \in Requesters : Len(entries[r]) >= Minimum ~> Len(entries[r]) < Minimum
=============================================================================
