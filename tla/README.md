# Verification of the WeChat Agent

This directory holds TLA+ models of the Agent process of this repository (`src/src/*.ts`), the TLC
configurations that check them on small instances, and proofs that TLAPS checks for every value of the
constants. `PROJECT.json` says which lines of the source each definition models, which runs exist, which
mutation of the model each property refutes, and which hazards of the code the properties are aimed at.

## 1. Inventory of the system

The Agent is one Node.js process. An external native runtime (C#, not in the repository) owns WeChat: it sends
lines over a named pipe (active messages, passive group messages, polls, delivery acknowledgements, private
Owner chat) and receives outbound commands. JavaScript runs one callback at a time, so interleaving happens
at `await`s only; every step of the models is a run between two awaits.

| component (source) | state | operations | interacts with | hard behaviour | what makes it correct |
|---|---|---|---|---|---|
| pending outbound store (`outbound-delivery.ts`) | `pending` map, `finalized` and `expired` histories | `stage`, `getIdentityFor`, `settle`, `prune` | receiver stages, adapter looks up, acknowledgements settle | late, repeated, contradicting acks; eviction; expiry | one outcome per reply, never a late one, losses only by age or room |
| proactive queue (`proactive-group-queue.ts`) | `items` map, `ready` list | `enqueue`, `claimReady`, `finalize`, `pruneExpired` | wakes and dispatches enqueue, polls claim | two structures updated apart; stale ids; full queue | at most once, oldest first, nothing stale, everything served |
| alias wake (`owner-alias-wake.ts`, `handleOwnerAliasWake`) | per group: seen ids, last admission; set of groups in flight | `admit`, generate, finish | passive messages start it, the queue takes its answer | handlers interleave, provider hangs | single flight, cooldown, flag released |
| request deadline (`request-deadline.ts`) | start time, budget | `throwIfExpired`, `withRequestDeadline` | wraps every provider call | answer races timer | every request ends |
| receiver (`production-agent-receiver.ts`) | all of the above | `complete`, `pollProactiveOutbound`, `observeOutboundDelivery`, dispatches | everything | a deadline after staging; two records per request | "generated is not sent": context holds only what was sent |
| transport (`production-agent-transport.ts`) | the server, its sockets, a promise chain per socket, the message counter, the stop task | `start`, `accept`, `processLine`, handlers per kind, `writeResponse`, `stop` | receiver | one socket is serial, two are not; a stop asked for from inside a chain; lines chained behind a closed socket | a delivery is answered once and in order, the stop ends |
| ambient and requester-local context, request window, topic capsules (`group-ambient-context.ts`, `requester-local-context.ts`, `context.ts`, `group-topic-capsule.ts`, `group-conversation-context.ts`) | three bounded transcripts of a group, its capsules, `scheduled` and `inFlight` groups | `append`, `select`, `selectForCompaction`, `addMany`, `schedule`, `compactGroup`, `assemble` | receiver commits lines and builds prompts, compactor asks the provider | duplicates, expiry and eviction during a compaction, one line in two transcripts | a line is summarised once, a prompt is honest about who said what, no group stays in flight |
| memory store (`memory-store.ts`) | records in memory and in one JSON file | `add`, `upsertCurrentSlot`, `upsertAddressPreference`, `update`, `delete`, `retrieve`, load and save | memory service | save fails, process dies while saving, file damaged | memory and file agree, nothing is overwritten, live records unique |
| memory service (`memory-service.ts`) | a buffer per requester, seen ids, evidence pool | `observeHumanMessage`, flushes, timer, explicit commands | extractor, store | failed flush restores, messages arrive meanwhile, stale candidates | a message is consumed once, in order, bounded |
| evidence pool (`memory-evidence-accumulator.ts`) | key -> count, times | `addEvidence`, sweep | memory service | sliding expiry | counts only what was seen |
| chat service (`chat.ts`, `answer-guard.ts`, `final-answer.ts`) | none across requests | draft, repair of control markup, redraft after a recovery search, guard and rewrite, grounding repair | receiver calls it, provider, recovery gate | five generations under one deadline, each may fail; results must belong to the text | nothing internal leaves, an answer is presented with its own evidence |
| web search (`web-search*.ts`, `adaptive-search.ts`, `retrieval-quality.ts`, `providers/`) | none across requests | plan, search with windows and fallback, merge and rank, page fetch, quality gate, one retry, context section | receiver | a clock that moves between the check of a budget and its use; evidence merged from two rounds | the final answer keeps its reserve, evidence survives |
| rendering, style, identity, message contract | none | pure text functions | receiver | - | admission decision |
| persistent log | file, size, count | write, rotate | all | rotation | diagnostics only |

The properties each component owes are the `properties` of its runs below; the list of what is hard, line by
line, is `hazards` in `PROJECT.json`.

## 2. Plan

Order of work: delivery first (it is the contract the repository states most often: `GENERATED != SENT`,
`docs/architecture.md`, `docs/runtime-and-native-integration.md`), then memory, then context, then the rest.

1. **Done** - `PendingOutbound` with the abstract `ReplyLedger`; `ProactiveQueue` with the abstract
   `TaskQueue`; `OwnerAliasWake`; the compositions `ProactiveDelivery` (wake + queue + store) and
   `ReplyDelivery` (transport chain + deadline + store + restart); proofs of the store.
2. **Done** - `MemoryStore` (records, file, crash, damage) with proofs, `MemoryBuffer` (flush life cycle),
   `MemoryEvidence` (evidence pool, admission, the Owner's explicit commands
   with candidates that grow stale, address preferences).
3. **Done** - `GroupContext` (the transcripts of a group, capsules, compactor and the assembly of a prompt),
   `TransportLifecycle` (connections, chains, the message limit, Owner chat, stop).
4. **Done** - `ReplyText` and `SearchResults` (the pure steps of an answer and of a search), `SearchPipeline` and
   `RequestPipeline` (a request from the planner to the text that leaves, under one budget).
5. Next - what a prompt reads from memory (`retrieveForChat`, the working set); the admission policy and the message contract as pure operators; the rotation of the persistent log;
   the planners of Owner messages.
6. Proofs - **done** for the delivery store and both delivery paths, the queue and its refinement, the wake, the memory
   store, buffers and evidence pool, the context of a group, the transport and the request with its search results (section 6).
   Next: theorems that compose (a queue refined on the proactive path), and of step 5 as it is modelled.

## 3. Modules and their correspondence to the code

**`PendingOutbound`** - `PendingOutboundReplyStore`. `pending`, `finalized` and `expired` are the three
collections of the class; `issued` replaces the random id factory (ids are fresh, and a Map keeps insertion order,
which is then the order of ids); `clock` is `Date.now`; `settled` is a history variable. `Stage`, `Lookup` and `Settle` are
`stage`, `getIdentityFor` and `settle`, each with the pruning that the code does first. `Verdict` makes the
checks of `settle` in the code's order. The content hash is the text itself.

**`ReplyLedger`** (abstract) - replies are numbered, stay open, are closed once or lost. `ImplementsLedger` is the
refinement, with the open replies mapped to `DOMAIN pending` and the outcomes to the settled history.

**`ProactiveQueue`** - `ProactiveGroupOutboundQueue`. `items` and `ready` are the two structures the code keeps apart. A
claim prunes, skips the ids whose item is gone and takes the first that is left. **`TaskQueue`** (abstract) knows
neither list nor clock: oldest first, at most once.

**`OwnerAliasWake`** - the gate and the handler. `Wake` is the handler up to its first await, with the four verdicts in
the order the code reaches them (remembered id, cooldown, single flight, detected); `Finish...` is the rest with
its `finally`. `running` are the suspended handlers.

**`ProactiveDelivery`** - instances of the three modules above over shared variables and one clock. The steps in which
components meet are actions of this module: an answered wake enqueues; a poll claims, stages and finalizes in one
synchronous run; an accepted SENT acknowledgement appends the ambient line.

**`ReplyDelivery`** - a call is one delivery of an active message, with the phases its awaits separate (`queued`,
`running`, `answered`, `returned`, `responded`, or `lost` with its process). `Start` is the chain per socket.
`AnswerEarly` stands for the replies the code returns before `stageOutbound` (self-address, explicit memory, Owner-only hint; by
design not eligible for delivery), `AnswerSilently` for Owner dispatches and empty answers, `AnswerStaged` for
the ordinary reply, `TimeOut` and `Return` for the deadline checks with the staged fallback, `Respond` for the identity
lookup and the command. `Restart` loses all that lives in memory; the runtime keeps its commands.

**`MemoryStore`** - `records` is the array, `disk` the document. Every write of the class changes the array and then calls
`save`; the model makes that two steps (`Write`, then `SaveOk`, `SaveFailed` or `SaveShort`) so that the process can die in
between, though nothing else of the Agent runs there. `undo` is what the write would restore. `StartEnabled` and
`StartDisabled` are `initialize`. Members' records are written by the automatic path and the address fast path; only
commands of the Owner, who is the one to give them, reach `Update` and `Delete`.

**`MemoryBuffer`** - one `PendingBuffer` per requester and the shared list of seen ids. `Observe` is
`observeHumanMessage` with the flush it may start, `TimerFlush` one firing of the interval, `FlushSucceeds` and
`FlushFails` the two ends of `flushAsync`. Entries are admission numbers, which makes order and identity visible.

**`MemoryEvidence`** - the accumulator's map, and the records with the number and times of their evidence. `Candidate` is one
candidate of `buildAutomaticRecord` with `addEvidence` inside; any set of references may come with it, and a batch may name a key
as often as it likes, since only the references of one candidate are compared. `Direct` is a candidate of a class that is not
pooled, stored with the evidence of its batch, and in a current slot in place of the value there was. `Legacy` is a record the loader accepts from
before evidence was kept: an upgrade of it begins its evidence. `Command` is `tryHandleExplicit` up to its provider call, with the
candidates its prompt holds in `shown`; `OwnerAdd`, `OwnerUpdate`, `OwnerDelete` and `GiveUp` are what follows, on records that may have
changed meanwhile. `SelfAddress` is the address preference, which awaits nothing, but looks for the previous one among the newest
`EligibleLimit` records only (`MayBeFound`, `MayBeMissed`), while the store replaces it wherever it is. `Restart` has the loader's check of times.

**`GroupContext`** - one group; groups share nothing. `ambient`, `local` and `recent` are the three transcripts, `capsules` the
store of the group with the fields eviction looks at. The handlers (`Observe`, `Wake`, `Ask`, `AckReply`, `AckProactive`) are
the receiver's, each synchronous and so one step, with every append, pruning and change of references in the order
of the code. `TimerFires` is `compactGroup` up to its provider call, `Compacted` and `CompactionFails` are the rest. `LocalSection`
and `AmbientSection` are what a prompt built now would show, and `RecentWindow` the part of the transcript of names that the prompt repeats; the properties quantify over the prompts that may be built next.
Characters are weights of lines. The sort of an eviction is stated by ranks: at place `k` comes the capsule with `k - 1` before it.

**`TransportLifecycle`** - `connection` is a socket as the server sees it, `received` and `done` its promise chain, `phase` where the
chain is with its next line. `Begin`, `Executed` and `Respond` are `processLine` cut at its awaits; a line that does not parse is
one of the class that is answered at once. `StopFrom` is a `stop` asked for by a chain, `Signal` one by the process, `StopEnds` the close
of the server with its summary, after which the waiting chains go on (`Stopped`). A chain outlives its socket, as in the code.

**`ReplyText`** - what happens to the text of an answer: the final-answer sanitiser, the guard, the boundaries of a group reply, the closing
restraint, disclosure and grounding. A text is a sequence of parts (a sentence, a marker, a fixed reply), told apart by
what those functions do with them; the module's header lists them. Lengths count parts.

**`Lists`** - what the code does to arrays with `filter`, `sort` and `reduce`, for the modules that need it. A loop is a recursive function over
positions and a sort is stated by ranks, so that `ListProofs` can say what comes out for every sequence.

**`SearchResults`** - what a search holds: normalisation, deduplication by canonical address, host and title, ranking per mode, which
pages are fetched and what becomes of their text, the cheap check of quality and the prompt section with its limits. Addresses
have attributes (host, age, relevance, authority, whether they may be fetched, where they redirect to). The kinds of claim a question
may make are two: one that needs explicit evidence and one that does not. `HighEvidence` holds the modes in which it is made (news always makes it, a
general question may), and `Explicit` the urls that have that evidence, so `CheapEligible` has both sides of the test in each mode.

**`SearchPipeline`** - `resolveWebSearch` cut at its awaits: `SearchCall` is one call of one provider with the next window, the next
provider or the end of the query as outcomes, `Alternate`, `MergeAndRank`, `FetchPages`, `AskQuality`, `Retry` and `Bound` the stages. `left`
is the rest of the deadline: an await takes any time up to its own limit, everything else none. `RouteFor` is the list of providers:
the built-in ones in the order of the mode, or the configured one with its fallback, which `createProductionAgent` only ever makes of
Degoog and SearXNG (`Providers`; tavily is always built in).

**`RequestPipeline`** - the planner, the search, and `ChatService.reply` with its five generations (`Draft`, `RepairMarkup`, `Redraft`, `Rewrite`,
`Ground`), the recovery search between them and what the receiver does when the deadline ends. `basis` and `shown` are histories: the
search the draft was written from, and the draft as a later provider call saw it. `Distance` is how far a request is from its end.

The `MC*` modules only add the symmetry sets, the constant functions and the enumerated answers of an instance, and put together what
one run checks (section 4). Every
state machine but `SearchPipeline`, whose state is typed in `RequestPipeline`, states its type invariant. They are theorems for all
modules but `ProactiveDelivery`, which proves the part that its argument needs. No run lists type invariants, as the
runs' properties are about the code's behaviour.

## 4. Runs

| run | question | instance | why it is enough |
|---|---|---|---|
| `pending_outbound` | Can any order of stage, lookup, acknowledgement and time give a second, late or unnamed outcome? | 2 requests, 2 texts, capacity 2, ttl 2, 4 replies, clock 3 | evicts twice, expires at and after the boundary, overflows both histories; acknowledgements range over all ids, texts and requests, true or not |
| `queues`, tasks | Do map and list agree, is every task served once? | capacity 2, ttl 2, 4 tasks, clock 4 | expired ids before, between and after live ones, a full queue with claimed items |
| the same, messages | Order, single admission, losses and progress of the buffers | 4 messages, 3 of them of one requester, cap 3, batch 3, minimum 2, memory of 2 ids, 8 admissions | a full buffer behind a running flush, repeated failures, forgotten ids admitted again |
| `memory_buffer_restore` (violation) | Does a restored batch lose nothing? | the messages alone | a batch fails behind a buffer that filled up |
| `owner_alias_wake` | Do interleaved wakes respect flag, cooldown and duplicate memory, and is the flag always released? | 2 groups, 3 messages, memory of 2 ids, budget longer than cooldown, 5 wakes | the fourth new message of a group evicts an id, and the fifth wake comes after a redelivery that renews nothing; the flag is met after the cooldown, as in production (50 s, 30 s); both groups in flight at once |
| `proactive_delivery` | Does the transcript hold what was sent, and does what was sent get there? | 2 groups, 2 messages, queue of 2, store of 1, 2 tasks | the second command evicts the first; acknowledgements late, repeated, for failed commands |
| `reply_delivery` | The same for active replies, with deadlines and a restart; is every started request answered? | 3 calls (one message twice on two sockets, one Owner command behind the first), 5 ids, store of 2, 1 restart | twin identities, fallback after staging, acknowledgement across a restart; a call waits behind a hanging one |
| `request_and_memory`, request | What leaves, from which evidence, and with which reserve? | deadline of up to 12 units, reserve 3, stage minimum 2, search limit 3, page limit 2, recovery minimum 9; 4 urls, 5 queries, 3 sets of providers, 11 raw answers | an alternate query, a fallback, a second window and a retry each fit, and each of them also meets a budget too small by one; both rounds share a url; every part that some function tells apart occurs in an answer |
| the same, memory | Do memory and document agree under failing saves, deaths and damage? Is there one current value after a slot write? | an Owner, a group, 2 contents, 3 records | every write meets every end of a save; two live values of a slot (by updates of the subject) before the third record is written |
| `memory_store_short_write` (violation) | Is the document replaced atomically? | the memory alone, 2 records | one short write |
| `memory_evidence`, pool | Are counts and pauses right, also if the clock is set back? | a habit, a command that may delete it, 2 messages a batch, 2 batches, 3 contributions to an entry, threshold 2, ttl 1, clock 2 | a gap over the ttl, a restart between contributions, one batch that names the habit twice for one message or for two, contributions on both sides of a step back, a deleted record admitted anew |
| the same, commands | Does a command with stale candidates change only what it was shown? | a habit (perhaps from before evidence was kept), an address, a city and a note of a group; 2 commands in two groups, retrieval of 1 record, 1 batch, clock 2 | a record deleted by one command and filed anew before the other answers, a slot value replaced under a command, an address that retrieval misses, a legacy record upgraded by both commands |
| `memory_evidence_distinct` (violation) | Is the count one of distinct messages? | the habit alone, 1 batch | two candidates with one key |
| `receiver`, connections | Does a stop end that is asked for from a chain, is every line processed and answered in order? | 2 clients, 2 lines each of all 4 classes, with a limit of 2 and without | both chains ask for the stop, the limit is met on one socket while the other is busy, sockets close under a running line, a signal meets a stop |
| the same, context | Is a line summarised once, is a prompt honest, is the right capsule evicted, does a compaction end? | 2 members, a passive line that wakes the bot, 2 requests, 1 proactive task, transcripts of 4, 2 and 1 lines, 2 capsules, ttl 0 and 1, clock 2 | every transcript overflows or expires, a third capsule evicts, lines arrive and expire behind a running compaction, drafts overlap or name unknown lines |
| `group_context_twice` (violation) | Is an event rendered once? | the context alone | one passive line of the member who asks next |

Three runs check two components each (`MCQueues`, `MCRequestAndMemory`, `MCReceiver`). The two share no state, so a behaviour uses one of
them (`used`) while the other stays as it began; the states of the run are those of both, not their product. `memory_evidence` explores
two parts of one component in the same way (`PoolStep`, `CommandStep`), as all of it at once is too large.

Deadlock checking is on in `request_and_memory`, where every request must end (`RequestEnded`; with `RequestGoesForward` this is termination, without a fairness condition), and off elsewhere because clocks, ids and histories are bounded and a behaviour may reach the end of all of them.
Symmetry is used only in runs without liveness properties. Histories (`settled`, `claims`, `offers`, `commands`) are
bounded by the bounds on ids and offers.

## 5. Fairness

Nothing is ever assumed of the provider, and nothing of the runtime except where a property is about it.
`OwnerAliasWake!FairSpec`: time passes and an expired timer fires (Node timers). `ReplyFairSpec`: the same per
call, and what is ready on the event loop runs. `ProactiveQueue!ClaimFairness`: the runtime keeps polling.
`ProactiveDelivery!FairSpec`: a runtime that repeats an acknowledgement is heard. `MemoryBuffer!Fairness`: the interval keeps
firing, and a flush ends, one way or the other, as its provider call runs under the background deadline. `GroupContext!ContextFairness`: a
timer of no delay fires (stated as the end of `scheduled`, which only `TimerFires` clears), and a compaction ends by its deadline. `TransportLifecycle!Fairness`: the event loop runs what is ready, the
deadline bounds an active line, and a client whose server has ended its side closes; Owner chat has no deadline, so `LineIsProcessed`
makes an exception of a chain it blocks. The guard `clock + Budget <= MaxClock`
of `Wake` and `Start` keeps deadlines inside the bounded clock and has no counterpart in the code.

## 6. Proofs

Each theorem holds for every value of the constants. What is assumed of them is the named assumption of the module only: limits and
times to live are positive where the constructors demand it, bounds of the model are natural numbers. Every invariant below was
checked by TLC on the instance of the run before it was proved. For a step there is one lemma per operation, and the theorems
follow from the invariant.

| module | theorems about | the inductive invariant adds | why it is needed |
|---|---|---|---|
| `PendingOutboundProofs` | `SettledOnce`, `OneMemoryPerReply`, `WithinCapacity`, `NeverSettledLate`, `NoSilentLoss`, `ImplementsLedger` | no settled id is in `pending`, the three memories are disjoint, ids are at most `issued`, nothing is staged later than now | a history that forgets an id must not let it settle again |
| the same, second part | on the reply path: `ContextIsWhatWasSent`, `NoRecordStolen`, and the store's properties under restarts | the types of calls, commands and lines next to the store's own invariant | the path acts on the store by its operations and by a restart, which empties it |
| `QueueProofs`, the proactive queue | `ReadyListAgrees`, `ImplementsTaskQueue` | nothing was created later than now | that the first live id of the list is the oldest waiting task is `ReadyListAgrees` itself, so it must be proved first |
| the same, the memory buffers | `InOrder`, `RepeatedOnlyWhenForgotten`, `OnlyOverflowIsLost` | a running batch is older than all of its buffer, a buffer is within its cap, the memory of ids is the last admissions | a failed batch is put in front again and cut to the cap |
| `OwnerAliasWakeProofs` | `SingleFlightPerGroup`, `RedeliveryForgottenOnlyWhenFull` | the memory of a group holds no message twice; each message that was new is still in it, before only messages that were new since, or `SeenLimit` others were | the length of the memory must become a number of distinct messages |
| `ProactiveDeliveryProofs` | `AmbientIsWhatWasSent`, `OneCommandPerTask`, `RepliesNeedWakes`; the path implements the wake and the store | running generations, queued name-triggered tasks and such commands of a group together are at most its admitted wakes | a reply is counted in one of the three on its way |
| `PromptSourceProofs`, the memory document | `MemoryAgreesWithFile`, `UnreadableIsKept`, `NothingIsErased`, `OneCurrentValue` | only an enabled store saves; the rows being saved continue those to be restored | a failed save undoes, a successful one publishes |
| the same, the context of a group | `CompactedOnce`, `PromptIsHonest`, `EvictsLeastReferenced` | the capsules of the store have different numbers, all given before; a member's transcript holds only what was said by or to that member | the order of eviction is one only if no two capsules tie, and the local section is cut out of the transcript as it stands |
| `MemoryEvidenceProofs` | `NoPauseBeyondTTL`, `EvidenceIsKept` | an entry was last seen at its last contribution; ids of records and of what prompts hold are at most the last given, and equal ids mean an equal first time, but for addresses and legacy records | a command compares its candidate with a record that may be new |
| the same, the counts | `OnlyRepeatsInflate` | the messages behind an entry are finitely many, and their number is its count unless two contributions of one batch share one | a record rests on the entry as it was when admitted, and references of other batches are other messages |
| `RequestProofs`, the transport | `AnsweredInOrder`, `StopsOnceWhenAllAreGone` | a busy chain has a line before it; after the first call of stop no socket is open; the summary is written exactly when the stop ends | two chains and a signal may ask for the stop, and only the first call does its work |
| the same, the request | `EvidenceIsOwned`, `NothingInternalLeaves` | from the draft to its presentation `basis` is the context in force, and a recovery runs only where there was none; behind the guard a draft holds nothing internal; nothing is sent before the end | a repair, a rewrite or a redraft works on the text of an earlier search; that search must still be the one presented |
| the same | `ReserveIsKept` | a plan has its six fields, a running query has its provider and window, and in the first round of news a fallback has one window only, so a time limit once fixed still fits what is left | the budget is checked once when a query begins, and spent window by window |
| the same | `PageEvidenceIsKept` and the types of results | what was found is as a provider gave it; what is kept is canonical, holds no two results for one page and its page text is within the total; a stage begins with what the one before left | a result is kept by the merge because it comes first there, and by the pages because it has its text already |
| the same | `RequestGoesForward` | the quality gate is asked in round one only | a retry goes back to the search once |

`RequestProofs` rests on lemmas about the text functions of `ReplyText`: which parts each of them may add or take away, for any text
(`Without` is a filter, so what it keeps follows from `ThoseProperties`). The module proves about
the transport too, since it carries the requests that the pipeline answers. Raw answers are assumed to be sequences of known parts (`Answers`),
modes are the two the planner and the gate can parse, and no configured provider is tavily. The last one matters: a second provider
with two windows would let a news query take more than its check of the reserve allowed; the code cannot be configured so.

`OnlyRepeatsInflate` assumes nothing of the extractor: it says for every history of candidates where a count may differ from the
messages behind it, and that no other way leads to a record on fewer messages than the threshold. That the count is always of distinct
messages (`CountIsDistinct`) is refuted by a run (section 7). `ProactiveDeliveryProofs` proves that every step
of the path is a step of the wake and of the store or leaves them alone; so `WakesAreSafeOnThePath` carries the theorems of the wake
over. The queue has no such theorem, as a poll claims and finalizes in one step. Counting arguments rest on the library's
finite-set theorems; a least element of a set of numbers is obtained from the well-foundedness of `<`.

The properties of a group's context are about loops: a filter, the choice of lines within a budget, a sort. They are proved without the
values of those loops. `Those` (a filter) and the choice are recursive functions over positions, so an induction up to a number
gives what they return items of; the budgets only bound how many, so the folds that add weights stay closed. For the sort it is
proved that in a strict order of `n` capsules every rank from 0 to `n - 1` is taken once (`Ranks`), so what stays is what comes last. A
draft of the compactor is apart from the others by the parser and from the live capsules by the filter of `addMany`, whatever happened while the
provider was asked; this is all that `CompactedOnce` needs, and no assumption on the provider.

A proof attempt found one property wrong: `RedeliveryForgottenOnlyWhenFull` once counted from the last time a message was offered, but
the gate does not renew the memory of an id it refuses as a duplicate, so one redelivery can bring the next one forward. It now
counts from the last time the message was new, and the run has the fifth wake that shows the difference. `MaxBatches`
must be positive for `MemoryEvidence` to begin, and `ProactiveDelivery` states the assumptions of its parts (`DeliveryAssumption`).

Search results are the data that loops build: a parse, a deduplication, a ranking with a cut per host, pages read into a budget. `ListProofs` says
of such loops what does not depend on their order: a filter gives items of its sequence (`ThoseProperties`), a sort by ranks gives each item once
if the order is strict (`Ranks`, `ByRankProperties`), a sum grows along a sequence (`PartialSums`) and the sum over some items is at most the sum over
all (`TotalOfSome`). `RequestProofs` builds on them: `DeduplicatedResults`, `MergedResults`, `FetchedPage`, `PagesAdded`, `EnrichedResults`. `BudgetAssumption`
says for them that what a provider answers is a sequence.

Only model-checked: all liveness (`ReadyTaskIsServed`, `FlagIsReleased`, `SentIsRecorded`, `RequestIsAnswered`, `BufferIsDrained`,
`CompactionEnds`, `StopIsReached`, `LineIsProcessed`), which is out of the prover's reach. And what the proved properties leave open of
the operators: in which order a ranking puts results is computed by TLC on the instance only.

## 7. What disagrees with the code's own words

Four runs are expected to fail; each checks a sentence of the repository, quoted in `findings` of `PROJECT.json`:

- `memory_store_short_write`: a short write is renamed over the document and reported as a success.
- `memory_buffer_restore`: `complete` cuts what a failed flush restores to the cap, without a diagnostic, while its comment
  (`memory-service.ts` 424-425) says that nothing is silently lost. `OnlyOverflowIsLost` states what holds.
- `memory_evidence_distinct`: one message counts as two items, if the extractor gives a habit two wordings with one key, against the
  header of the accumulator (22-23). `OnlyRepeatsInflate` says that this is the only way.
- `group_context_twice`: a passive line of the one who asks is kept in two transcripts, is part of its conversation and is rendered in
  two sections of its prompt, against the header of `group-ambient-context.ts` (13-15, 22-26). `PromptIsHonest` states what
  holds: only lines of the asker that the recent window does not repeat appear twice.

Seen while modelling, without a run of its own. The claims are stated in the modules under the names given; they do not hold.

- Memory. `update` and the upserts do not look at other rows, so two live records of a scope may have one content, against the unique
  key of the header of `memory-store.ts` (4-6): `LiveContentIsUnique`. An update computes evidence from its candidate (`memory-service.ts`
  1075), so two overlapping statements may count as one, against `memory-evidence.ts` 263-264 (`StatementIsCounted`), and the second of two
  overlapping updates of a legacy record replaces the first-evidence time that the first stored (`FirstEvidenceIsKept`). The same claim
  fails for an address older than the records retrieved beside it, which is rewritten with the evidence of a first statement
  (`memory-service.ts` 773). `EvidenceIsKept` states what holds: no address, and evidence from the beginning. An update after the
  clock was set back leaves first evidence later than last (`EvidenceTimesInOrder`), and the loader refuses the document. Nothing flushes
  at shutdown, and a record the Owner deleted comes back with one more mention.
- Context. A passive line in the conversation of its sender is `OnlyMentionsInConversation`. A line covered by any live capsule is hidden
  from the ambient section, also when that capsule is not selected for the prompt.
- Transport. Lines already chained go on after the stop: the counter may exceed `maxMessages`, their summary entries reach no file, and
  their responses are lost. A failed listen leaves `server` set. Owner chat has no deadline and may block its socket for ever.
- Queue and wake. Nothing trims the ready list between polls. The models let `Date.now` only advance, so a negative elapsed
  time of the cooldown does not occur in them.
- Requests. `docs/web-search.md:18` speaks of one primary and one alternate query, the retry makes it up to four. The primary query
  and the recovery gate leave no reserve, so a usable draft may be lost to the deadline. A retry in mode GENERAL keeps the time window
  of the first decision. Where a search failed and the model said so in its own words, the social cut may remove them (the comment at
  `chat.ts` 921-925 covers the fixed suffix only; `EvidenceIsOwned` allows the closing tail there). An answer of nothing but
  markers is empty after `appendGroundedSources`, and links of the model's own are removed only where a search passed.

## 8. What is not modelled

What a prompt says, how a provider's answer is parsed, scores and wording: they have no state and no order. Three components are
`not_modelled` (the selection of memories, identity and the message contract, the persistent log); these, and what is missing
in the `partly` ones (what a prompt reads from memory, the planners of Owner messages, style and profile sections
of a prompt, the configuration), are in the plan above or carry their reason in `PROJECT.json`. `GroupContext`, `TransportLifecycle`
and `RequestPipeline` are not composed with `ReplyDelivery`: the first takes acknowledgements as given, the second any answer of the
agent, the third one request alone. The runtime is external and
taken to be truthful (it acknowledges only commands it decided). `Date.now` is monotone except where a run says so; ids never collide. In the
compositions of delivery the transcripts keep all their lines.
