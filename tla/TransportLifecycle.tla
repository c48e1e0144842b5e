------------------------- MODULE TransportLifecycle -------------------------
(***************************************************************************)
(* The named-pipe server of the Agent                                      *)
(* (src/src/production-agent-transport.ts): sockets, the promise chain     *)
(* that processes the lines of one socket one after the other, responses,  *)
(* the message limit, and a stop that may be asked for from inside a chain.*)
(*                                                                         *)
(* Abstractions.  A line is of a class: QUICK ones (an invalid line, an    *)
(* acknowledgement, a poll) and PASSIVE ones are answered at once, ACTIVE  *)
(* ones await the agent under its deadline, CHAT ones await the provider   *)
(* without one.  What the answer says is ReplyDelivery's.  Sockets do not  *)
(* share lines, so a line is the client's and its position.                *)
(* The runtime's client is external: it closes when it likes, and after    *)
(* the server has ended its side it closes in the end.                     *)
(***************************************************************************)
EXTENDS Integers, Sequences, FiniteSets, SequencesExt

CONSTANTS
  Clients,
  Classes,     \* of the lines clients send
  MaxLines,    \* bound of the model: lines one client sends
  Limits       \* values of maxMessages to consider; 0 where it is not set

ASSUME TransportAssumption ==
  /\ Classes \subseteq {"QUICK", "PASSIVE", "ACTIVE", "CHAT"}
  /\ MaxLines \in Nat
  /\ Limits \subseteq Nat

VARIABLES
  limit,      \* options.maxMessages
  connection, \* client -> its socket, as the server sees it
  received,   \* history: client -> classes of the lines it sent
  done,       \* client -> lines its chain has left behind
  phase,      \* client -> where its chain is with the next line
  answered,   \* history: client -> lines answered, in order
  count,      \* messageCount
  stopTask,   \* of stop(): NONE, RUNNING, ENDED
  summaries   \* times the summary was written, or its writing failed

vars == <<limit, connection, received, done, phase, answered, count, stopTask, summaries>>

\* start has listened.
Init ==
  /\ limit \in Limits
  /\ connection = [c \in Clients |-> "AWAY"]
  /\ received = [c \in Clients |-> <<>>]
  /\ done = [c \in Clients |-> 0]
  /\ phase = [c \in Clients |-> "IDLE"]
  /\ answered = [c \in Clients |-> <<>>]
  /\ count = 0 /\ stopTask = "NONE" /\ summaries = 0

Waits(c) == done[c] < Len(received[c])
Class(c) == received[c][done[c] + 1]
IsCounted(c) == Class(c) \in {"PASSIVE", "ACTIVE"}
IsAnsweredAtOnce(c) == Class(c) \in {"QUICK", "PASSIVE"}
AwaitsAgent(c) == Class(c) = "ACTIVE"
AwaitsProvider(c) == Class(c) = "CHAT"

-----------------------------------------------------------------------------
(* Clients.                                                                *)

Connect(c) ==
  /\ stopTask = "NONE" /\ connection[c] = "AWAY"
  /\ connection' = [connection EXCEPT ![c] = "OPEN"]
  /\ UNCHANGED <<limit, received, done, phase, answered, count, stopTask, summaries>>

\* A whole line arrives and joins the chain, also after the server's end().
Receive(c, class) ==
  /\ connection[c] \in {"OPEN", "ENDED"} /\ Len(received[c]) < MaxLines
  /\ received' = [received EXCEPT ![c] = Append(@, class)]
  /\ UNCHANGED <<limit, connection, done, phase, answered, count, stopTask, summaries>>

\* The close event; the chain goes on without its socket.
Disconnect(c) ==
  /\ connection[c] \in {"OPEN", "ENDED"}
  /\ connection' = [connection EXCEPT ![c] = "CLOSED"]
  /\ UNCHANGED <<limit, received, done, phase, answered, count, stopTask, summaries>>

-----------------------------------------------------------------------------
(* Stopping.                                                               *)

Ended(c) == [connection EXCEPT ![c] = IF @ = "OPEN" THEN "ENDED" ELSE @]
AllEnded == [c \in Clients |-> Ended(c)[c]]

\* Mutant: only the socket that met the limit is ended.
StopFromEndingOne(c) ==
  /\ connection' = Ended(c)
  /\ stopTask' = IF stopTask = "NONE" THEN "RUNNING" ELSE stopTask
  /\ UNCHANGED summaries

\* Mutant: every call of stop runs stopCore.  The second finds no server to wait
\* for and writes the summary at once.
StopFromUnguarded(c) ==
  IF stopTask = "NONE"
  THEN connection' = AllEnded /\ stopTask' = "RUNNING" /\ UNCHANGED summaries
  ELSE /\ connection' = AllEnded
       /\ stopTask' = "ENDED"
       /\ summaries' = summaries + 1

\* socket.end() and stop() from a chain: the first call ends every socket and
\* closes the server, a later one joins it.
StopFrom(c) ==
  /\ connection' = IF stopTask = "NONE" THEN AllEnded ELSE Ended(c)
  /\ stopTask' = IF stopTask = "NONE" THEN "RUNNING" ELSE stopTask
  /\ UNCHANGED summaries

\* SIGINT or SIGTERM, which a receiver with a limit does not listen to.
Signal ==
  /\ limit = 0 /\ stopTask = "NONE"
  /\ connection' = AllEnded
  /\ stopTask' = "RUNNING"
  /\ UNCHANGED <<limit, received, done, phase, answered, count, summaries>>

\* The server has closed once no socket is left; the summary is written, or that
\* fails, and every waiter of the task goes on.
StopEnds ==
  /\ stopTask = "RUNNING"
  /\ \A c \in Clients : connection[c] \in {"AWAY", "CLOSED"}
  /\ stopTask' = "ENDED"
  /\ summaries' = summaries + 1
  /\ UNCHANGED <<limit, connection, received, done, phase, answered, count>>

-----------------------------------------------------------------------------
(* The chain of a socket.                                                  *)

\* Mutant: a line that does not parse is left to the catch of the chain.
BeginUnparsed(c) ==
  /\ phase[c] = "IDLE" /\ Waits(c)
  /\ count' = count + (IF IsCounted(c) THEN 1 ELSE 0)
  /\ IF Class(c) = "QUICK"
     THEN done' = [done EXCEPT ![c] = @ + 1] /\ UNCHANGED phase
     ELSE phase' = [phase EXCEPT ![c] = "EXECUTING"] /\ UNCHANGED done
  /\ UNCHANGED <<limit, connection, received, answered, stopTask, summaries>>

\* processLine up to the agent, or up to the response.
Begin(c) ==
  /\ phase[c] = "IDLE" /\ Waits(c)
  /\ count' = count + (IF IsCounted(c) THEN 1 ELSE 0)
  /\ phase' = [phase EXCEPT ![c] = IF IsAnsweredAtOnce(c) THEN "RESPONDING" ELSE "EXECUTING"]
  /\ UNCHANGED <<limit, connection, received, done, answered, stopTask, summaries>>

\* The agent, or the provider, is through, with an answer or an error.
Executed(c) ==
  /\ phase[c] = "EXECUTING"
  /\ phase' = [phase EXCEPT ![c] = "RESPONDING"]
  /\ UNCHANGED <<limit, connection, received, done, answered, count, stopTask, summaries>>

\* writeResponse: on an ended or closed socket the write fails and is logged.
Written(c) ==
  answered' = IF connection[c] = "OPEN" THEN [answered EXCEPT ![c] = Append(@, done[c] + 1)]
              ELSE answered

Respond(c) ==
  /\ phase[c] = "RESPONDING"
  /\ Written(c)
  /\ IF limit > 0 /\ IsCounted(c) /\ count >= limit
     THEN /\ StopFrom(c)
          /\ phase' = [phase EXCEPT ![c] = "STOPPING"] /\ UNCHANGED done
     ELSE /\ phase' = [phase EXCEPT ![c] = "IDLE"] /\ done' = [done EXCEPT ![c] = @ + 1]
          /\ UNCHANGED <<connection, stopTask, summaries>>
  /\ UNCHANGED <<limit, received, count>>

\* Mutant: without the catch, a stop that fails to write its summary breaks the chain.
StoppedUncaught(c) ==
  /\ phase[c] = "STOPPING" /\ stopTask = "ENDED"
  /\ UNCHANGED vars

\* The awaited stop is over: the chain takes up the lines it still holds.
Stopped(c) ==
  /\ phase[c] = "STOPPING" /\ stopTask = "ENDED"
  /\ phase' = [phase EXCEPT ![c] = "IDLE"]
  /\ done' = [done EXCEPT ![c] = @ + 1]
  /\ UNCHANGED <<limit, connection, received, answered, count, stopTask, summaries>>

Next ==
  \/ \E c \in Clients :
       \/ Connect(c) \/ Disconnect(c) \/ Begin(c) \/ Executed(c) \/ Respond(c) \/ Stopped(c)
       \/ \E class \in Classes : Receive(c, class)
  \/ Signal
  \/ StopEnds

Spec == Init /\ [][Next]_vars

\* The event loop runs what is ready, the deadline bounds an ACTIVE line, and a
\* client whose server has ended closes.  Nothing is assumed of the provider.
Fairness ==
  /\ WF_vars(StopEnds)
  /\ \A c \in Clients :
       /\ WF_vars(Begin(c)) /\ WF_vars(Respond(c)) /\ WF_vars(Stopped(c))
       /\ WF_vars(Executed(c) /\ AwaitsAgent(c))
       /\ WF_vars(connection[c] = "ENDED" /\ Disconnect(c))

-----------------------------------------------------------------------------
(* Properties.                                                             *)

TypeOK ==
  /\ limit \in Limits
  /\ connection \in [Clients -> {"AWAY", "OPEN", "ENDED", "CLOSED"}]
  /\ received \in [Clients -> Seq(Classes)]
  /\ done \in [Clients -> 0 .. MaxLines]
  /\ phase \in [Clients -> {"IDLE", "EXECUTING", "RESPONDING", "STOPPING"}]
  /\ answered \in [Clients -> Seq(1 .. MaxLines)]
  /\ count \in Nat /\ stopTask \in {"NONE", "RUNNING", "ENDED"} /\ summaries \in Nat

\* A client that is still connected has one answer for each line its chain has
\* left behind, in the order of the lines; the answers a client misses are those
\* of the lines left when its socket was already ended, and are the last ones.
AnsweredInOrder ==
  \A c \in Clients :
    /\ answered[c] = [k \in DOMAIN answered[c] |-> k]
    /\ connection[c] = "OPEN" => Len(answered[c]) = done[c]

\* However many chains ask for it, the server stops once, and only when every
\* client is gone: no summary is written while a socket may still be served.
StopsOnceWhenAllAreGone ==
  /\ summaries <= 1
  /\ stopTask = "ENDED" => \A c \in Clients : connection[c] \in {"AWAY", "CLOSED"}

\* A chain that asks for the stop and waits for it does not keep it from ending.
StopIsReached == (stopTask = "RUNNING") ~> (stopTask = "ENDED")

\* Every line that was received is processed in the end, whatever its socket or
\* the server went through, unless an Owner chat without a deadline blocks it.
IsBlockedByChat(c) == phase[c] = "EXECUTING" /\ AwaitsProvider(c)

LineIsProcessed ==
  \A c \in Clients : \A k \in 1 .. MaxLines :
    (Len(received[c]) >= k) ~> (done[c] >= k \/ IsBlockedByChat(c))
=============================================================================
