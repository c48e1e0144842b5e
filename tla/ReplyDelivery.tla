--------------------------- MODULE ReplyDelivery ----------------------------
(***************************************************************************)
(* An active request from its line on the pipe to its acknowledged reply:  *)
(* the transport's chain per socket, the adapter's pipeline, the chat      *)
(* agent's deadline and staging, the lookup of the staged identity, and    *)
(* the acknowledgement that alone makes the reply part of the context      *)
(* (src/src/production-agent-transport.ts, agent-adapter.ts,               *)
(* production-agent-receiver.ts).  Composes PendingOutbound.               *)
(*                                                                         *)
(* A call is one delivery of a message; the same message may be delivered  *)
(* twice, on one socket or on two.  Each phase ends at an await of the     *)
(* code, so calls interleave there and only there.  A conversation is a    *)
(* group or OwnerDirect, the only two the mention policy admits.           *)
(*                                                                         *)
(* External: the provider (any answer, any delay, failure) and the runtime *)
(* (loses commands, sends or fails, repeats acknowledgements, truthful).   *)
(* Transcripts keep their lines here; GroupContext has their bounds, and    *)
(* the compaction that a recorded reply schedules.                         *)
(***************************************************************************)
EXTENDS PendingOutbound

CONSTANTS
  Calls,           \* deliveries of active requests
  Sockets,
  Groups,
  OwnerDirect,     \* the verified Owner's private conversation
  Fallback,        \* REQUEST_DEADLINE_FALLBACK_REPLY
  NoText,          \* no answer, or an empty one
  MessageOf,       \* call -> messageId, the member of Requests it delivers
  SocketOf,        \* call -> socket
  ConversationOf,  \* message -> group or OwnerDirect
  Budget,          \* requestDeadlineMs, in clock units
  MaxRestarts      \* bound of the model: restarts of the Agent process

ASSUME ReplyAssumption ==
  /\ MessageOf \in [Calls -> Requests]
  /\ SocketOf \in [Calls -> Sockets]
  /\ ConversationOf \in [Requests -> Groups \cup {OwnerDirect}]
  /\ OwnerDirect \notin Groups
  /\ Fallback \in Texts /\ NoText \notin Texts
  /\ Budget \in Nat \ {0}
  /\ MaxRestarts \in Nat

VARIABLES
  phase,      \* where each call is
  startedAt,  \* when its deadline was created
  answer,     \* the text its handler holds, or NoText
  commands,   \* history: outbound commands written to a socket
  fate,       \* external: what the runtime did with each command
  ambient,    \* assistant lines of the group ambient transcripts
  local,      \* assistant lines of the requester-local transcripts
  restarts

callVars == <<phase, startedAt, answer>>
contextVars == <<ambient, local>>
allVars == <<vars, callVars, commands, fate, contextVars, restarts>>

Phases == {"queued", "running", "answered", "returned", "responded", "lost"}
Busy == {"running", "answered", "returned"}
Command == [call : Calls, id : 0 .. MaxIssued, text : Texts]
Line == [message : Requests, text : Texts]
Results == {"SENT", "FAILED"}

ReplyInit ==
  /\ Init
  /\ phase = [c \in Calls |-> "queued"]
  /\ startedAt = [c \in Calls |-> 0]
  /\ answer = [c \in Calls |-> NoText]
  /\ commands = <<>> /\ fate = <<>>
  /\ ambient = <<>> /\ local = <<>>
  /\ restarts = 0

-----------------------------------------------------------------------------
(* A call, await by await.                                                 *)

IsOwnerDirect(c) == ConversationOf[MessageOf[c]] = OwnerDirect
Overdue(c) == clock >= startedAt[c] + Budget

\* The call holds this text next.
Hold(c, next, text) ==
  /\ phase' = [phase EXCEPT ![c] = next]
  /\ answer' = [answer EXCEPT ![c] = text]
  /\ UNCHANGED startedAt

Elsewhere == UNCHANGED <<commands, fate, contextVars, restarts>>

\* The chain of the socket reaches the line.  The last conjunct only keeps every
\* deadline within MaxClock.
Start(c) ==
  /\ phase[c] = "queued"
  /\ \A d \in Calls : SocketOf[d] = SocketOf[c] => phase[d] \notin Busy
  /\ clock + Budget <= MaxClock
  /\ phase' = [phase EXCEPT ![c] = "running"]
  /\ startedAt' = [startedAt EXCEPT ![c] = clock]
  /\ UNCHANGED <<vars, answer>> /\ Elsewhere

\* A reply that never reaches stageOutbound: a self-address preference, an
\* explicit memory command, the Owner-only hint.
AnswerEarly(c, text) ==
  /\ phase[c] = "running" /\ ~IsOwnerDirect(c)
  /\ Hold(c, "answered", text)
  /\ UNCHANGED vars /\ Elsewhere

\* An Owner dispatch, or an empty answer: handled, with nothing to say here.
AnswerSilently(c) ==
  /\ phase[c] = "running" /\ (IsOwnerDirect(c) \/ ~Overdue(c))
  /\ Hold(c, "answered", NoText)
  /\ UNCHANGED vars /\ Elsewhere

\* The ordinary reply: checked against the deadline, then staged.
AnswerStaged(c, text) ==
  /\ phase[c] = "running" /\ ~IsOwnerDirect(c) /\ ~Overdue(c)
  /\ Stage(MessageOf[c], text)
  /\ Hold(c, "answered", text)
  /\ Elsewhere

\* Mutant: the fallback clears away whatever the request had staged.
FallBackDiscarding(c) ==
  /\ Overdue(c)
  /\ pending' = Restrict(pending, {i \in Live : pending[i].request # MessageOf[c]})
  /\ expired' = ExpiredNow
  /\ UNCHANGED <<finalized, issued, clock, settled>>
  /\ Hold(c, "returned", Fallback)
  /\ Elsewhere

\* The deadline fallback is staged and returned, whatever was staged before.
FallBack(c) ==
  /\ Overdue(c)
  /\ Stage(MessageOf[c], Fallback)
  /\ Hold(c, "returned", Fallback)
  /\ Elsewhere

\* Mutant: the deadline is only checked once the provider has answered.
TimeOutUnraced(c) == phase[c] = "answered" /\ FallBack(c)

\* The deadline timer wins the race against the provider.
TimeOut(c) == phase[c] = "running" /\ FallBack(c)

\* complete() checks the deadline once more before it returns the answer.
Return(c) ==
  /\ phase[c] = "answered"
  /\ \/ FallBack(c)
     \/ /\ ~Overdue(c)
        /\ Hold(c, "returned", answer[c])
        /\ UNCHANGED vars /\ Elsewhere

\* Any other error of the handler is mapped to a response without a command.
Fail(c) ==
  /\ phase[c] = "running"
  /\ Hold(c, "responded", NoText)
  /\ UNCHANGED vars /\ Elsewhere

\* The command with the identity staged for exactly this text, or with a random
\* one the store does not know (0).  The lookup prunes, command or not.
RespondThen(c, next, withheld) ==
  /\ phase[c] = "returned"
  /\ next
  /\ IF answer[c] = NoText THEN UNCHANGED vars ELSE Lookup
  /\ IF answer[c] = NoText \/ withheld
       THEN UNCHANGED <<commands, fate>>
       ELSE /\ commands' = Append(commands,
                 [call |-> c, id |-> IdentityFor(MessageOf[c], answer[c]), text |-> answer[c]])
            /\ fate' = Append(fate, "UNDECIDED")
  /\ UNCHANGED <<contextVars, restarts>>

Respond(c) == RespondThen(c, Hold(c, "responded", NoText), IsOwnerDirect(c))

-----------------------------------------------------------------------------
(* The runtime and its acknowledgements.                                   *)

RuntimeDecides(k, result) ==
  /\ fate[k] = "UNDECIDED"
  /\ fate' = [fate EXCEPT ![k] = result]
  /\ UNCHANGED <<vars, callVars, commands, contextVars, restarts>>

MessageOfCommand(k) == MessageOf[commands[k].call]

AckOf(k) == [id |-> commands[k].id, request |-> MessageOfCommand(k),
             text |-> commands[k].text, status |-> fate[k]]

\* Both transcripts ignore the id of a line they already hold.
AppendLine(transcript, line) ==
  IF \E i \in DOMAIN transcript : transcript[i].message = line.message THEN transcript
  ELSE Append(transcript, line)

\* observeOutboundDelivery, when the store accepts, and the lines are due.
AckRecording(k, due) ==
  LET reply == pending[commands[k].id]
      line == [message |-> reply.request, text |-> reply.text]
  IN  /\ fate[k] # "UNDECIDED"
      /\ SettleAccepted(AckOf(k))
      /\ IF due /\ ConversationOf[reply.request] \in Groups
           THEN /\ ambient' = AppendLine(ambient, line)
                /\ local' = AppendLine(local, line)
           ELSE UNCHANGED contextVars
      /\ UNCHANGED <<callVars, commands, fate, restarts>>

\* Mutant: any accepted acknowledgement is recorded.
AckRecordingAll(k) == AckRecording(k, TRUE)

AckAccepted(k) == AckRecording(k, fate[k] = "SENT")

AckRejected(k) ==
  /\ fate[k] # "UNDECIDED"
  /\ SettleRejected(AckOf(k))
  /\ UNCHANGED <<callVars, commands, fate, contextVars, restarts>>

\* The Agent process restarts: everything above lives in its memory, only the
\* runtime remembers its commands.  Fresh ids never repeat old ones.
Restart ==
  /\ restarts < MaxRestarts
  /\ restarts' = restarts + 1
  /\ pending' = <<>> /\ finalized' = <<>> /\ expired' = {}
  /\ phase' = [c \in Calls |-> IF phase[c] \in Busy THEN "lost" ELSE phase[c]]
  /\ answer' = [c \in Calls |-> NoText]
  /\ ambient' = <<>> /\ local' = <<>>
  /\ UNCHANGED <<issued, clock, settled, startedAt, commands, fate>>

ReplyTick == Tick /\ UNCHANGED <<callVars, commands, fate, contextVars, restarts>>

ReplyNext ==
  \/ \E c \in Calls :
       \/ Start(c) \/ AnswerSilently(c) \/ TimeOut(c) \/ Return(c) \/ Fail(c) \/ Respond(c)
       \/ \E text \in Texts : AnswerEarly(c, text) \/ AnswerStaged(c, text)
  \/ \E k \in DOMAIN commands :
       \/ \E result \in Results : RuntimeDecides(k, result)
       \/ AckAccepted(k) \/ AckRejected(k)
  \/ Restart
  \/ ReplyTick

ReplySpec == ReplyInit /\ [][ReplyNext]_allVars

\* Timers fire and the event loop runs what is ready; nothing is assumed of the
\* provider.
ReplyFairSpec ==
  /\ ReplySpec
  /\ WF_allVars(ReplyTick)
  /\ \A c \in Calls : WF_allVars(TimeOut(c) \/ Return(c) \/ Respond(c))

-----------------------------------------------------------------------------
(* Properties.                                                             *)

ReplyTypeOK ==
  /\ TypeOK
  /\ phase \in [Calls -> Phases]
  /\ startedAt \in [Calls -> 0 .. MaxClock]
  /\ answer \in [Calls -> Texts \cup {NoText}]
  /\ commands \in Seq(Command)
  /\ fate \in [DOMAIN commands -> {"UNDECIDED"} \cup Results]
  /\ ambient \in Seq(Line) /\ local \in Seq(Line)
  /\ restarts \in 0 .. MaxRestarts

\* Generated is not sent: a line of a transcript is the text of a command of
\* that message which the runtime really sent.  It never shows an answer that
\* the deadline fallback replaced, nor one from another delivery that failed.
ContextIsWhatWasSent ==
  \A transcript \in {ambient, local} : \A i \in DOMAIN transcript : \E k \in DOMAIN commands :
    /\ fate[k] = "SENT"
    /\ transcript[i] = [message |-> MessageOfCommand(k), text |-> commands[k].text]

\* A record leaves the store because the runtime decided its command, because of
\* age, room or a restart; an interleaved request never takes it away.
RecordGone(i) ==
  \/ \E k \in DOMAIN commands : commands[k].id = i /\ fate[k] \in Results
  \/ clock >= pending[i].stagedAt + Ttl
  \/ issued' > issued /\ Cardinality(Live) = MaxEntries
  \/ restarts' # restarts

NoRecordStolen == [][\A i \in DOMAIN pending \ DOMAIN pending' : RecordGone(i)]_allVars

\* Every request the chain reached is answered or lost with its process, however
\* long the provider hangs: the deadline timer does not depend on it.
RequestIsAnswered == \A c \in Calls : phase[c] = "running" ~> phase[c] \in {"responded", "lost"}
=============================================================================
