------------------------- MODULE ProactiveDelivery --------------------------
(***************************************************************************)
(* The proactive path end to end: an alias wake or an Owner dispatch is    *)
(* queued, the runtime polls it as a command, sends it, and acknowledges   *)
(* it, and only then does the group's ambient transcript gain the line     *)
(* (src/src/production-agent-receiver.ts).  Composes OwnerAliasWake,       *)
(* ProactiveQueue and PendingOutbound over one clock; no step of one       *)
(* component waits for another, they meet only in the steps below.         *)
(*                                                                         *)
(* The runtime is external: it may lose a command, send it or fail, and    *)
(* acknowledge a decided command any number of times, at any later time.   *)
(* It is taken to be truthful.  `commands` is a history variable.          *)
(***************************************************************************)
EXTENDS Integers, Sequences, FiniteSets, Functions

CONSTANTS
  Groups, Messages, Texts,
  SeenLimit, Cooldown, Budget,     \* the wake
  QueueMax, QueueTtl,              \* the queue
  StoreMax, StoreTtl,              \* the pending store
  MaxOffers, MaxTasks, MaxClock    \* bounds of the model

ASSUME DeliveryAssumption ==
  /\ {SeenLimit, Budget, QueueMax, QueueTtl, StoreMax, StoreTtl} \subseteq Nat \ {0}
  /\ {Cooldown, MaxOffers, MaxTasks, MaxClock} \subseteq Nat

VARIABLES
  clock,
  seen, lastWake, inFlight, running, offers,      \* OwnerAliasWake
  items, ready, accepted, claims, done,           \* ProactiveQueue
  pending, finalized, expired, issued, settled,   \* PendingOutbound
  commands,  \* history: commands handed to the poller; command i has outbound id i
  fate,      \* external: what the runtime did with each command
  ambient    \* assistant lines of the ambient transcripts, oldest first

wakeVars == <<seen, lastWake, inFlight, running, offers>>
queueVars == <<items, ready, accepted, claims, done>>
storeVars == <<pending, finalized, expired, issued, settled>>
vars == <<clock, wakeVars, queueVars, storeVars, commands, fate, ambient>>

Intents == {"AMBIENT_NAME_TRIGGERED_REPLY", "OWNER_COMMANDED_DISPATCH"}
Tasks == 1 .. MaxTasks

AliasWake == INSTANCE OwnerAliasWake
TaskStore == INSTANCE ProactiveQueue WITH MaxEntries <- QueueMax, Ttl <- QueueTtl
Outbound == INSTANCE PendingOutbound WITH
  Requests <- Tasks, MaxEntries <- StoreMax, Ttl <- StoreTtl, MaxIssued <- MaxTasks

Command == [task : Tasks, group : Groups, text : Texts, intent : Intents]

Init ==
  /\ AliasWake!Init /\ TaskStore!Init /\ Outbound!Init
  /\ commands = <<>> /\ fate = <<>> /\ ambient = <<>>

-----------------------------------------------------------------------------
(* Steps.                                                                  *)

\* handleOwnerAliasWake up to its generation.
Wake(g, m) ==
  /\ AliasWake!Wake(g, m)
  /\ UNCHANGED <<queueVars, storeVars, commands, fate, ambient>>

\* The answer arrives in time and is queued for the group that was woken; a full
\* queue drops it.
WakeAnswered(run, text) ==
  /\ AliasWake!FinishGenerated(run)
  /\ TaskStore!EnqueueAccepted(run.group, text, "AMBIENT_NAME_TRIGGERED_REPLY")
       \/ TaskStore!EnqueueRefused
  /\ UNCHANGED <<storeVars, commands, fate, ambient>>

\* The provider fails, or the deadline passes: nothing is queued.
WakeFailed(run) ==
  /\ AliasWake!FinishFailed(run) \/ AliasWake!FinishExpired(run)
  /\ UNCHANGED <<queueVars, storeVars, commands, fate, ambient>>

\* Mutant: the producer declares the wrong intent.
DispatchAsAmbient(g, text) ==
  /\ TaskStore!EnqueueAccepted(g, text, "AMBIENT_NAME_TRIGGERED_REPLY") \/ TaskStore!EnqueueRefused
  /\ UNCHANGED <<wakeVars, storeVars, commands, fate, ambient>>

\* tryOwnerDispatch and tryOwnerPrivateDispatch, from the planner's decision on.
Dispatch(g, text) ==
  /\ TaskStore!EnqueueAccepted(g, text, "OWNER_COMMANDED_DISPATCH") \/ TaskStore!EnqueueRefused
  /\ UNCHANGED <<wakeVars, storeVars, commands, fate, ambient>>

\* The task the poll finds, and the command it becomes.
Found == ready[TaskStore!FirstClaimable]

\* pollProactiveOutbound: claim, stage under this request and finalize in one
\* synchronous run, leaving the ready list from position `rest` on.
PollStaging(request, left, rest) ==
  LET t == Found
      item == items[t]
  IN  /\ TaskStore!Claimable # {}
      /\ items' = Restrict(items, left)
      /\ ready' = SubSeq(ready, rest, Len(ready))
      /\ claims' = Append(claims, [task |-> t, age |-> clock - item.createdAt])
      /\ done' = done \cup {t}
      /\ Outbound!Stage(request, item.text)
      /\ commands' = Append(commands,
           [task |-> t, group |-> item.group, text |-> item.text, intent |-> item.intent])
      /\ fate' = Append(fate, "UNDECIDED")
      /\ UNCHANGED <<accepted, wakeVars, ambient>>

\* Mutants: the poll peeks; the reply is staged under a request of its own.
PollPeeking == PollStaging(Found, TaskStore!Kept, TaskStore!FirstClaimable)
PollMisnamed == PollStaging(1, TaskStore!Kept \ {Found}, TaskStore!FirstClaimable + 1)

PollTask == PollStaging(Found, TaskStore!Kept \ {Found}, TaskStore!FirstClaimable + 1)

PollNothing ==
  /\ TaskStore!ClaimNothing
  /\ UNCHANGED <<wakeVars, storeVars, commands, fate, ambient>>

\* The runtime sends the command or fails to; a lost command stays undecided.
RuntimeDecides(id, result) ==
  /\ fate[id] = "UNDECIDED"
  /\ fate' = [fate EXCEPT ![id] = result]
  /\ UNCHANGED <<clock, wakeVars, queueVars, storeVars, commands, ambient>>

AckOf(id) == [id |-> id, request |-> commands[id].task, text |-> commands[id].text,
              status |-> fate[id]]

\* The ambient line of a reply; the transcript ignores an id it already holds.
Line(id) == [task |-> commands[id].task, group |-> commands[id].group, text |-> pending[id].text]

AppendLine(line) ==
  IF \E k \in DOMAIN ambient : ambient[k].task = line.task THEN ambient
  ELSE Append(ambient, line)

\* observeOutboundDelivery: settle, and then the ambient line if it is due.
AckRecording(id, due) ==
  /\ fate[id] # "UNDECIDED"
  /\ Outbound!SettleAccepted(AckOf(id))
  /\ ambient' = IF due THEN AppendLine(Line(id)) ELSE ambient
  /\ UNCHANGED <<wakeVars, queueVars, commands, fate>>

\* Mutant: any accepted acknowledgement is recorded.
AckRecordingAll(id) == AckRecording(id, TRUE)

\* Mutant: a reply that no wake asked for is settled and not recorded.
AckRecordingWakes(id) ==
  AckRecording(id, fate[id] = "SENT" /\ commands[id].intent = "AMBIENT_NAME_TRIGGERED_REPLY")

AckAccepted(id) == AckRecording(id, fate[id] = "SENT")

AckRejected(id) ==
  /\ fate[id] # "UNDECIDED"
  /\ Outbound!SettleRejected(AckOf(id))
  /\ UNCHANGED <<wakeVars, queueVars, commands, fate, ambient>>

Tick ==
  /\ AliasWake!Tick /\ TaskStore!Tick /\ Outbound!Tick
  /\ UNCHANGED <<commands, fate, ambient>>

Next ==
  \/ \E g \in Groups, m \in Messages : Wake(g, m)
  \/ \E run \in running :
       \/ \E text \in Texts : WakeAnswered(run, text)
       \/ WakeFailed(run)
  \/ \E g \in Groups, text \in Texts : Dispatch(g, text)
  \/ PollTask
  \/ PollNothing
  \/ \E id \in DOMAIN commands :
       \/ \E result \in {"SENT", "FAILED"} : RuntimeDecides(id, result)
       \/ AckAccepted(id)
       \/ AckRejected(id)
  \/ Tick

Spec == Init /\ [][Next]_vars

\* A runtime that repeats its acknowledgement until it is processed; nothing is
\* assumed of the time it takes.
FairSpec ==
  /\ Spec
  /\ \A id \in Tasks : WF_vars(id \in DOMAIN commands /\ (AckAccepted(id) \/ AckRejected(id)))

-----------------------------------------------------------------------------
(* Properties.                                                             *)

TypeOK ==
  /\ AliasWake!TypeOK /\ TaskStore!TypeOK /\ Outbound!TypeOK
  /\ commands \in Seq(Command)
  /\ fate \in [DOMAIN commands -> {"UNDECIDED", "SENT", "FAILED"}]
  /\ ambient \in Seq([task : Tasks, group : Groups, text : Texts])

\* Generated is not sent: the ambient transcript of a group holds a line only
\* for a command the runtime really sent to that group, with the very text it
\* sent, and holds it once.
AmbientIsWhatWasSent ==
  /\ \A k \in DOMAIN ambient : \E id \in DOMAIN commands :
       /\ fate[id] = "SENT"
       /\ ambient[k] = [task |-> commands[id].task, group |-> commands[id].group,
                        text |-> commands[id].text]
  /\ \A k, l \in DOMAIN ambient : ambient[k].task = ambient[l].task => k = l

\* Polling again never repeats a message, and every command was staged before
\* it left, under the id it carries: command i is the reply staged as number i.
OneCommandPerTask ==
  /\ \A k, l \in DOMAIN commands : commands[k].task = commands[l].task => k = l
  /\ Len(commands) = issued
  /\ \A i \in DOMAIN pending : pending[i].request = commands[i].task /\ pending[i].text = commands[i].text

\* No group receives more name-triggered messages than it had admitted wakes,
\* and no wake of one group speaks in another.
AmbientReplies(g) ==
  {k \in DOMAIN commands : commands[k].group = g /\ commands[k].intent = "AMBIENT_NAME_TRIGGERED_REPLY"}
Wakes(g) == {k \in DOMAIN offers : offers[k].group = g /\ offers[k].verdict = "DETECTED"}

RepliesNeedWakes == \A g \in Groups : Cardinality(AmbientReplies(g)) <= Cardinality(Wakes(g))

\* A message the runtime sent and keeps acknowledging reaches the transcript,
\* unless its record was dropped first, unsettled, for age (it is remembered as
\* expired, until a store of later ones is) or for room (a store of later replies
\* was staged).  Settling it without recording it does not count.
Recorded(id) ==
  id \in DOMAIN commands /\ \E k \in DOMAIN ambient : ambient[k].task = commands[id].task

Dropped(id) ==
  /\ id \notin DOMAIN pending
  /\ \A k \in DOMAIN settled : settled[k].id # id
  /\ id \in expired \/ issued >= id + StoreMax

SentIsRecorded ==
  \A id \in Tasks :
    (id \in DOMAIN commands /\ fate[id] = "SENT") ~> (Recorded(id) \/ Dropped(id))
=============================================================================
