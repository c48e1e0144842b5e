---------------------------- MODULE GroupContext -----------------------------
(***************************************************************************)
(* The short-term context of one group: the ambient transcript             *)
(* (src/src/group-ambient-context.ts), the requester-local transcripts     *)
(* (requester-local-context.ts), the transcript of the requests (context.ts)*)
(* the topic capsules and their compactor (group-topic-capsule.ts), and    *)
(* the assembly of all four into one prompt (group-conversation-context.ts,*)
(* chat.ts).  The handlers that feed them are those of                     *)
(* production-agent-receiver.ts; each is synchronous, so they interleave   *)
(* whole, and only a compaction awaits the provider.                       *)
(*                                                                         *)
(* Abstractions.  The stores are keyed by group and share nothing between  *)
(* groups, so one group is modelled.  A line has a weight instead of its   *)
(* characters and is LOW or informative by its text.  Relevance and        *)
(* staleness, which only order capsules, are a free choice among them.     *)
(* A prompt is a function of the state, so properties speak of the prompt   *)
(* that would be built now; there is no history variable.                   *)
(***************************************************************************)
EXTENDS Integers, Sequences, FiniteSets, FiniteSetsExt, SequencesExt, Lists

CONSTANTS
  Members,
  Passive,       \* messages that do not address the bot
  Requests,      \* messages that do
  Proactive,     \* tasks of the proactive queue that are sent to the group
  SpeakerOf,     \* message -> member
  Aliases,       \* passive messages that name the Owner's alias and wake the bot
  Low,           \* lines of the LOW quality class, all of one text
  Weight,        \* line -> characters it takes in a prompt
  AmbientMax, AmbientChars, LocalMax, LocalChars, RecentMax, WindowMax, WindowChars,
  Ttl,           \* of ambient and local lines
  RawMax, RawChars,         \* recentRawEntries, recentRawMaxChars
  TriggerLines, TriggerChars,
  CapsuleMax, CapsuleTtl, SelectedMax,
  Unknown,       \* a source id the provider made up
  MaxDelivered,  \* bound of the model: messages heard and proactive ones sent
  MaxProduced,   \* bound of the model: capsules ever stored
  MaxClock       \* bound of the model: last clock reading

\* The acknowledged reply to a request or task is the line `assistant:<id>`.
Reply(of) == <<"assistant", of>>
Heard == Passive \cup Requests
Replies == {Reply(r) : r \in Requests \cup Proactive}
Lines == Heard \cup Replies

ASSUME ContextAssumption ==
  /\ Passive \cap Requests = {} /\ Heard \cap Proactive = {}
  /\ SpeakerOf \in [Heard -> Members]
  /\ Aliases \subseteq Passive /\ Low \subseteq Lines /\ Weight \in [Lines -> Nat \ {0}]
  /\ Unknown \notin Lines
  /\ {AmbientMax, AmbientChars, LocalMax, LocalChars, RecentMax, WindowMax, WindowChars,
      RawMax, RawChars, TriggerLines, TriggerChars, CapsuleMax, SelectedMax} \subseteq Nat \ {0}
  /\ Ttl \in Nat /\ CapsuleTtl \in Nat
  /\ MaxDelivered \in Nat /\ MaxProduced \in Nat /\ MaxClock \in Nat

VARIABLES
  clock,
  delivered,  \* of them so far
  ambient,    \* stored lines of the group, oldest first
  local,      \* member -> stored lines of its own conversation
  recent,     \* requests of the group, without time to live
  capsules,   \* the group's capsules, in the order of the store
  produced,   \* capsules ever stored: the store's sequence
  scheduled,  \* a compaction timer is set
  batch,      \* lines the running compaction was given; empty when none runs
  open        \* requests and tasks whose reply may yet be acknowledged, wakes due

storeVars == <<ambient, local, recent>>
capsuleVars == <<capsules, produced, scheduled, batch>>
contextVars == <<clock, delivered, storeVars, capsuleVars, open>>

ContextInit ==
  /\ clock = 0 /\ delivered = 0
  /\ ambient = <<>> /\ local = [m \in Members |-> <<>>] /\ recent = <<>>
  /\ capsules = <<>> /\ produced = 0 /\ scheduled = FALSE /\ batch = {}
  /\ open = Proactive

-----------------------------------------------------------------------------
(* Transcripts.                                                            *)

Ids(transcript) == {transcript[k].id : k \in DOMAIN transcript}
IdSeq(transcript) == [k \in DOMAIN transcript |-> transcript[k].id]
Chars(ids) == FoldLeft(LAMBDA total, id : total + Weight[id], 0, ids)

\* prune: the age counts from the arrival here, not from the message's own time.
Fresh(transcript) ==
  Those(transcript, {k \in DOMAIN transcript : clock - transcript[k].at <= Ttl})

LastOf(seq, n) == SubSeq(seq, (IF Len(seq) > n THEN Len(seq) - n ELSE 0) + 1, Len(seq))

\* append: prune, ignore a line that is still stored, keep the newest.
Appended(transcript, id, max) ==
  LET kept == Fresh(transcript)
  IN  IF id \in Ids(kept) THEN kept
      ELSE LastOf(Append(kept, [id |-> id, at |-> clock]), max)

\* The newest ids within both budgets; the newest of all is never refused.
Newest(ids, max, chars) ==
  LET Fits(n) == n <= max /\ (n <= 1 \/ Chars(LastOf(ids, n)) <= chars)
  IN  LastOf(ids, CHOOSE n \in 0 .. Len(ids) : Fits(n) /\ (n < Len(ids) => ~Fits(n + 1)))

\* The ambient lines of a prompt, chosen from these (each with its position in
\* the store): informative lines newest first, then the two before each of them,
\* then LOW ones, a run of equal LOW lines only once, as far as the budget goes.
AmbientChoice(lines) ==
  LET IsLow(i) == lines[i].id \in Low
      Repeats == {i \in DOMAIN lines : i < Len(lines) /\ IsLow(i) /\ IsLow(i + 1)
                                       /\ lines[i + 1].pos = lines[i].pos + 1}
      CharsOf(S) == MapThenSumSet(LAMBDA i : Weight[lines[i].id], S)
      Try(S, i) ==
        IF i \notin DOMAIN lines \/ i \in S \cup Repeats \/ Cardinality(S) >= AmbientMax
           \/ (S # {} /\ CharsOf(S \cup {i}) > AmbientChars)
        THEN S ELSE S \cup {i}
      Tried(start, turns) ==
        LET after[n \in 0 .. Len(turns)] ==
              IF n = 0 THEN start ELSE Try(after[n - 1], turns[n])
        IN  after[Len(turns)]
      NewestFirst(S) == Reverse(Those([i \in DOMAIN lines |-> i], S))
      informative == NewestFirst(Tried({}, NewestFirst({i \in DOMAIN lines : ~IsLow(i)})))
      before == [n \in 1 .. 2 * Len(informative) |-> informative[(n + 1) \div 2] - (2 - (n % 2))]
  IN  {lines[i].id : i \in Tried(ToSet(informative), before \o NewestFirst({i \in DOMAIN lines : IsLow(i)}))}

-----------------------------------------------------------------------------
(* Topic capsules.                                                         *)

LiveCapsules == Those(capsules, {k \in DOMAIN capsules : clock - capsules[k].createdAt <= CapsuleTtl})

\* Mutant: only the newest capsule is looked at.
CoveredByLast(store) == IF store = <<>> THEN {} ELSE store[Len(store)].sources

\* coveredSourceEventIds.
Covered(store) == UNION {store[k].sources : k \in DOMAIN store}

Before(c, d) ==
  \/ c.referencedAt < d.referencedAt
  \/ c.referencedAt = d.referencedAt /\ c.createdAt < d.createdAt
  \/ c.referencedAt = d.referencedAt /\ c.createdAt = d.createdAt /\ c.number < d.number

\* Mutant: the order of the last sort stands, whatever was referenced since.
StoredUnsorted(store, new) == LastOf(store \o new, CapsuleMax)

\* The least recently referenced make room.
Stored(store, new) ==
  LET all == store \o new
      sorted == ByRank(all, [i \in DOMAIN all |-> {j \in DOMAIN all : Before(all[j], all[i])}])
  IN  LastOf(sorted, CapsuleMax)

\* addMany: a draft that covers a covered line again is dropped.
AddMany(drafts) ==
  LET new == Those(drafts, {k \in DOMAIN drafts : drafts[k] \cap Covered(LiveCapsules) = {}})
  IN  /\ produced + Len(new) <= MaxProduced
      /\ produced' = produced + Len(new)
      /\ capsules' = IF new = <<>> THEN LiveCapsules ELSE
           Stored(LiveCapsules,
                  [k \in DOMAIN new |-> [sources |-> new[k], createdAt |-> clock,
                                         referencedAt |-> clock, number |-> produced + k]])

\* The strict parser: known lines only, and none in two drafts of one answer.
Parsed(raw) ==
  LET kept[n \in 0 .. Len(raw)] ==
        IF n = 0 THEN <<>>
        ELSE IF raw[n] # {} /\ raw[n] \subseteq batch /\ raw[n] \cap UNION ToSet(kept[n - 1]) = {}
             THEN Append(kept[n - 1], raw[n]) ELSE kept[n - 1]
  IN  kept[Len(raw)]

-----------------------------------------------------------------------------
(* Building a prompt.                                                      *)

\* Mutant: both sections show the assistant's lines.
ShownUnfiltered(localIds, ambientIds) == ambientIds

\* buildUserPrompt leaves the assistant's lines to the requester-local section.
Shown(localIds, ambientIds) == ambientIds \ (localIds \cap Replies)

\* The two raw sections of the prompt of this turn, given the local transcripts:
\* the asker's conversation, and of the ambient lines those that are not the
\* current turn, not covered by any capsule, and not a request of the asker's in
\* the recent window.
LocalSection(asker, current, locals) ==
  LET ids == IdSeq(Fresh(locals[asker]))
  IN  ToSet(Newest(Those(ids, {k \in DOMAIN ids : ids[k] # current}), LocalMax, LocalChars))

RecentWindow == ToSet(Newest(recent, WindowMax, WindowChars))

AmbientSection(asker, current, locals) ==
  LET hidden == {current} \cup {r \in RecentWindow : SpeakerOf[r] = asker} \cup Covered(LiveCapsules)
      stored == Fresh(ambient)
      candidates == Those([k \in DOMAIN stored |-> [id |-> stored[k].id, pos |-> k]],
                          {k \in DOMAIN stored : stored[k].id \notin hidden})
  IN  Shown(LocalSection(asker, current, locals), AmbientChoice(candidates))

\* assemble: what it leaves behind in the stores it reads.  Some capsules are
\* selected, and being selected they count as referenced.
Assemble(locals) ==
  /\ local' = [m \in Members |-> Fresh(locals[m])]
  /\ \E chosen \in SUBSET DOMAIN LiveCapsules :
       /\ Cardinality(chosen) <= SelectedMax
       /\ capsules' = [k \in DOMAIN LiveCapsules |->
            IF k \in chosen THEN [LiveCapsules[k] EXCEPT !.referencedAt = clock]
            ELSE LiveCapsules[k]]

-----------------------------------------------------------------------------
(* Handlers.                                                               *)

Deliver == delivered < MaxDelivered /\ delivered' = delivered + 1

Overheard(p) == [local EXCEPT ![SpeakerOf[p]] = Appended(@, p, LocalMax)]

\* observePassiveContext, also for a line delivered again.
Observe(p) ==
  /\ Deliver
  /\ ambient' = Appended(ambient, p, AmbientMax)
  /\ local' = Overheard(p)
  /\ open' = open \cup ({p} \cap Aliases)
  /\ UNCHANGED <<clock, recent, capsuleVars>>

\* handleOwnerAliasWake, moments later: the prompt of a wake appends nothing.
Wake(p) ==
  /\ p \in open
  /\ Assemble(local)
  /\ ambient' = Fresh(ambient)
  /\ open' = open \ {p}
  /\ UNCHANGED <<clock, delivered, recent, produced, scheduled, batch>>

\* The gate refuses it.
SkipWake(p) ==
  /\ p \in open
  /\ open' = open \ {p}
  /\ UNCHANGED <<clock, delivered, storeVars, capsuleVars>>

\* completeWithinDeadline up to its first await: the request joins the local
\* transcript, the prompt is built, then it joins the two group transcripts.
Ask(r) ==
  /\ Deliver
  /\ Assemble(Overheard(r))
  /\ ambient' = Appended(ambient, r, AmbientMax)
  /\ recent' = LastOf(Append(recent, r), RecentMax)
  /\ open' = open \cup {r}
  /\ UNCHANGED <<clock, produced, scheduled, batch>>

\* observeOutboundDelivery of a SENT reply; schedule ignores a group that has a
\* compaction set or running.
AckReply(r) ==
  /\ r \in open \cap Requests
  /\ ambient' = Appended(ambient, Reply(r), AmbientMax)
  /\ local' = [local EXCEPT ![SpeakerOf[r]] = Appended(@, Reply(r), LocalMax)]
  /\ scheduled' = (scheduled \/ batch = {})
  /\ open' = open \ {r}
  /\ UNCHANGED <<clock, delivered, recent, capsules, produced, batch>>

\* The same for a proactive message: no requester, no compaction.
AckProactive(t) ==
  /\ Deliver
  /\ t \in open \cap Proactive
  /\ ambient' = Appended(ambient, Reply(t), AmbientMax)
  /\ open' = open \ {t}
  /\ UNCHANGED <<clock, local, recent, capsuleVars>>

-----------------------------------------------------------------------------
(* The compactor.                                                          *)

\* selectForCompaction: old lines that no capsule covers.
Eligible ==
  LET ids == IdSeq(Fresh(ambient))
      raw == ToSet(Newest(ids, RawMax, RawChars))
  IN  ToSet(ids) \ (raw \cup Covered(LiveCapsules))

IsWorthIt(lines) ==
  /\ lines # {}
  /\ Cardinality(lines) >= TriggerLines \/ MapThenSumSet(LAMBDA id : Weight[id], lines) >= TriggerChars

\* The timer fires: compactGroup runs up to the provider call, or is done.
TimerFires ==
  /\ scheduled
  /\ scheduled' = FALSE
  /\ ambient' = Fresh(ambient) /\ capsules' = LiveCapsules
  /\ LET lines == Eligible IN batch' = IF IsWorthIt(lines) THEN lines ELSE {}
  /\ UNCHANGED <<clock, delivered, local, recent, produced, open>>

\* The provider answers with these drafts.
Compacted(raw) ==
  /\ batch # {}
  /\ IF Parsed(raw) = <<>> THEN UNCHANGED <<capsules, produced>> ELSE AddMany(Parsed(raw))
  /\ batch' = {}
  /\ UNCHANGED <<clock, delivered, storeVars, scheduled, open>>

\* Mutant: a failure leaves the group in flight.
CompactionFailsHeld ==
  /\ batch # {}
  /\ UNCHANGED contextVars

\* The provider fails, or the deadline of the compaction passes.
CompactionFails ==
  /\ batch # {}
  /\ batch' = {}
  /\ UNCHANGED <<clock, delivered, storeVars, capsules, produced, scheduled, open>>

Tick ==
  /\ clock < MaxClock
  /\ open \cap Aliases = {}
  /\ clock' = clock + 1
  /\ UNCHANGED <<delivered, storeVars, capsuleVars, open>>

\* One draft or two, which may overlap or name a line that does not exist.
Answers ==
  LET drafts == SUBSET (batch \cup {Unknown}) \ {{}}
  IN  {<<a>> : a \in drafts} \cup {<<a, b>> : a \in drafts, b \in {batch}} \cup {<<a, batch \ a>> : a \in drafts}

ContextNext ==
  \/ \E p \in Passive : Observe(p) \/ Wake(p) \/ SkipWake(p)
  \/ \E r \in Requests : Ask(r) \/ AckReply(r)
  \/ \E t \in Proactive : AckProactive(t)
  \/ TimerFires
  \/ \E raw \in Answers : Compacted(raw)
  \/ CompactionFails
  \/ Tick

ContextSpec == ContextInit /\ [][ContextNext]_contextVars

\* The timer of a zero delay fires (TimerFires alone clears `scheduled`), and the
\* deadline bounds the provider.
ContextFairness ==
  /\ WF_scheduled(scheduled /\ scheduled' = FALSE)
  /\ WF_contextVars(CompactionFails)

-----------------------------------------------------------------------------
(* Properties.                                                             *)

StoredLine == [id : Lines, at : 0 .. MaxClock]
Capsule == [sources : SUBSET Lines, createdAt : 0 .. MaxClock, referencedAt : 0 .. MaxClock,
            number : 1 .. MaxProduced]

ContextTypeOK ==
  /\ clock \in 0 .. MaxClock /\ delivered \in 0 .. MaxDelivered
  /\ ambient \in Seq(StoredLine) /\ local \in [Members -> Seq(StoredLine)]
  /\ recent \in Seq(Requests)
  /\ capsules \in Seq(Capsule) /\ produced \in 0 .. MaxProduced
  /\ scheduled \in BOOLEAN /\ batch \subseteq Lines
  /\ open \subseteq Requests \cup Proactive \cup Aliases

\* No line is summarised by two live capsules of the group, whatever expires or
\* is evicted while a compaction waits for the provider.
CompactedOnce ==
  \A k, l \in DOMAIN capsules : k # l => capsules[k].sources \cap capsules[l].sources = {}

\* The current turn is never shown again as context; the local section holds only
\* the asker's conversation: what it said in the group, addressed to the bot or
\* not, and what it was answered; and what both sections show is a line the asker
\* said itself, passive or a request the recent window no longer has: a reply, a
\* request still in the window and every line of another member are shown once.
SaidBy(m) == {h \in Heard : SpeakerOf[h] = m}
OwnConversation(m) == SaidBy(m) \cup {Reply(r) : r \in Requests \cap SaidBy(m)}

IsHonest(asker, current, locals) ==
  LET own == LocalSection(asker, current, locals)
      others == AmbientSection(asker, current, locals)
  IN  /\ current \notin own \cup others
      /\ own \subseteq OwnConversation(asker)
      /\ own \cap others \subseteq SaidBy(asker) \ RecentWindow

PromptIsHonest ==
  /\ \A r \in Requests : IsHonest(SpeakerOf[r], r, Overheard(r))
  /\ \A p \in open \cap Aliases : IsHonest(SpeakerOf[p], p, local)

\* Claimed by the comments of the ambient transcript (group-ambient-context.ts
\* 22-26), not held: one event, one render.  buildUserPrompt filters only
\* the assistant's lines, so a passive line of the asker stands in both sections.
EventRenderedOnce ==
  \A r \in Requests :
    LocalSection(SpeakerOf[r], r, Overheard(r)) \cap AmbientSection(SpeakerOf[r], r, Overheard(r)) = {}

\* Claimed by the same comments (13-15), not held: a message that does not
\* mention the bot never enters the conversation of whoever asks next.
OnlyMentionsInConversation ==
  \A r \in Requests : LocalSection(SpeakerOf[r], r, Overheard(r)) \cap Passive = {}

LeastReferencedGoes ==
  LET live == LiveCapsules
  IN  \A k \in DOMAIN live :
        (\A l \in DOMAIN capsules' : capsules'[l].number # live[k].number)
          => \A l \in DOMAIN capsules' : capsules'[l].referencedAt >= live[k].referencedAt

\* A live capsule that makes room was referenced no later than any that stays,
\* although prompts reference capsules between two writes of the store.
EvictsLeastReferenced == [][LeastReferencedGoes]_contextVars

\* A group never stays in flight: every compaction ends, and one more can start.
CompactionEnds == (scheduled \/ batch # {}) ~> (~scheduled /\ batch = {})
=============================================================================
