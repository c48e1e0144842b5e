----------------------------- MODULE RequestProofs -----------------------------
(***************************************************************************)
(* Proofs about the way of one request, for every value of the constants.  *)
(*                                                                         *)
(* The named-pipe server that carries requests (TransportLifecycle): a     *)
(* connected client has its answers in order, and the server stops once,   *)
(* when no socket is left.                                                 *)
(*                                                                         *)
(* The request between planner and answer (RequestPipeline): a search      *)
(* leaves the final answer its reserve and loses no page once fetched, the *)
(* answer says about a search what the search in its own prompt allows,    *)
(* nothing internal leaves, and no step of a request goes back.            *)
(***************************************************************************)
EXTENDS TransportLifecycle, RequestPipeline, ListProofs

-----------------------------------------------------------------------------
(* The transport.                                                          *)

\* A chain that is busy has a line to be busy with, and a client that has not
\* come yet has sent none.
ChainIsBehindItsLines ==
  \A c \in Clients :
    /\ done[c] <= Len(received[c]) /\ Len(received[c]) <= MaxLines
    /\ phase[c] # "IDLE" => done[c] < Len(received[c])
    /\ connection[c] = "AWAY" => Len(received[c]) = 0 /\ Len(answered[c]) = 0

\* A chain waits only for a stop that was asked for, and its socket has ended.
StopWasAskedFor ==
  \A c \in Clients : phase[c] = "STOPPING" => connection[c] \in {"ENDED", "CLOSED"}

\* The first call of stop has ended every socket, and none is accepted after it.
NoneOpenAfterStop == stopTask # "NONE" => \A c \in Clients : connection[c] # "OPEN"

OneSummaryAtTheEnd == summaries = IF stopTask = "ENDED" THEN 1 ELSE 0

TransportInv ==
  /\ TypeOK
  /\ ChainIsBehindItsLines
  /\ StopWasAskedFor
  /\ NoneOpenAfterStop
  /\ OneSummaryAtTheEnd
  /\ AnsweredInOrder
  /\ StopsOnceWhenAllAreGone

-----------------------------------------------------------------------------
(* Facts about the helpers.                                                *)

\* One number more at the end of 1, 2, ..., n.
LEMMA CountingOn ==
  ASSUME NEW s \in Seq(Nat), s = [k \in DOMAIN s |-> k]
  PROVE  Append(s, Len(s) + 1) = [k \in DOMAIN Append(s, Len(s) + 1) |-> k]
<1> DEFINE t == Append(s, Len(s) + 1)
<1>1. /\ t \in Seq(Nat) /\ Len(s) \in Nat /\ DOMAIN s = 1 .. Len(s)
      /\ Len(t) = Len(s) + 1 /\ DOMAIN t = 1 .. Len(s) + 1
      /\ \A i \in 1 .. Len(s) : t[i] = s[i]
      /\ t[Len(s) + 1] = Len(s) + 1
  BY AppendProperties
<1>2. ASSUME NEW k \in DOMAIN t PROVE t[k] = k
  <2>1. CASE k = Len(s) + 1
    BY <1>1, <2>1
  <2>2. CASE k # Len(s) + 1
    <3>1. k \in DOMAIN s
      BY <1>1, <2>2
    <3> QED BY <1>1, <3>1
  <2> QED BY <2>1, <2>2
<1>3. t = [k \in DOMAIN t |-> t[k]]
  BY <1>1
<1> HIDE DEF t
<1>4. t = [k \in DOMAIN t |-> k]
  BY <1>2, <1>3
<1> QED BY <1>4 DEF t

\* How far a chain is.
LEMMA ChainBounds ==
  ASSUME TypeOK, ChainIsBehindItsLines, NEW c \in Clients
  PROVE  /\ done[c] \in Nat /\ Len(received[c]) \in Nat /\ Len(answered[c]) \in Nat
         /\ done[c] <= Len(received[c]) /\ Len(received[c]) <= MaxLines
         /\ phase[c] # "IDLE" => done[c] + 1 <= Len(received[c]) /\ done[c] + 1 \in 1 .. MaxLines
                                 /\ connection[c] # "AWAY"
<1>1. received[c] \in Seq(Classes) /\ answered[c] \in Seq(1 .. MaxLines) /\ done[c] \in 0 .. MaxLines
  BY DEF TypeOK
<1>2. Len(received[c]) \in Nat /\ Len(answered[c]) \in Nat /\ done[c] \in Nat
  BY <1>1
<1> HIDE DEF TypeOK
<1> QED BY <1>2, TransportAssumption DEF ChainIsBehindItsLines

\* No socket is open once stop has ended them, and the others keep their state.
LEMMA EndingAll ==
  ASSUME TypeOK
  PROVE  /\ AllEnded \in [Clients -> {"AWAY", "ENDED", "CLOSED"}]
         /\ \A c \in Clients : AllEnded[c] = IF connection[c] = "OPEN" THEN "ENDED"
                                             ELSE connection[c]
<1>1. connection \in [Clients -> {"AWAY", "OPEN", "ENDED", "CLOSED"}]
  BY DEF TypeOK
<1>2. ASSUME NEW c \in Clients
      PROVE  AllEnded[c] = IF connection[c] = "OPEN" THEN "ENDED" ELSE connection[c]
  BY <1>1 DEF AllEnded, Ended
<1>3. ASSUME NEW c \in Clients PROVE AllEnded[c] \in {"AWAY", "ENDED", "CLOSED"}
  BY <1>1, <1>2
<1>4. AllEnded = [c \in Clients |-> AllEnded[c]]
  BY DEF AllEnded
<1> QED BY <1>2, <1>3, <1>4

\* Ending one socket.
LEMMA EndingOne ==
  ASSUME TypeOK, NEW c \in Clients
  PROVE  /\ Ended(c) \in [Clients -> {"AWAY", "OPEN", "ENDED", "CLOSED"}]
         /\ Ended(c)[c] # "OPEN"
         /\ \A d \in Clients : Ended(c)[d] # connection[d] =>
              d = c /\ connection[c] = "OPEN" /\ Ended(c)[d] = "ENDED"
  BY DEF TypeOK, Ended

-----------------------------------------------------------------------------
(* Preservation of the invariant, action by action.                        *)

\* start has listened and nobody has come.
LEMMA InitInv == Init => TransportInv
<1> SUFFICES ASSUME Init PROVE TransportInv
  OBVIOUS
<1> USE TransportAssumption DEF Init
<1>1. TypeOK
  BY DEF TypeOK
<1>2. ChainIsBehindItsLines
  BY DEF ChainIsBehindItsLines
<1>3. StopWasAskedFor /\ NoneOpenAfterStop /\ OneSummaryAtTheEnd /\ StopsOnceWhenAllAreGone
  BY DEF StopWasAskedFor, NoneOpenAfterStop, OneSummaryAtTheEnd, StopsOnceWhenAllAreGone
<1>4. AnsweredInOrder
  <2>1. <<>> = [k \in DOMAIN <<>> |-> k]
    BY EmptySeq
  <2> QED BY <2>1 DEF AnsweredInOrder
<1> QED BY <1>1, <1>2, <1>3, <1>4 DEF TransportInv

\* A client comes before the stop, with no line yet.
LEMMA ConnectInv == ASSUME TransportInv, NEW c \in Clients, Connect(c) PROVE TransportInv'
<1> USE DEF TransportInv, Connect
<1>1. TypeOK'
  BY DEF TypeOK
<1>2. ChainIsBehindItsLines' /\ StopWasAskedFor'
  BY DEF TypeOK, ChainIsBehindItsLines, StopWasAskedFor
<1>3. NoneOpenAfterStop' /\ OneSummaryAtTheEnd' /\ StopsOnceWhenAllAreGone'
  BY DEF NoneOpenAfterStop, OneSummaryAtTheEnd, StopsOnceWhenAllAreGone
<1>4. AnsweredInOrder'
  BY DEF TypeOK, AnsweredInOrder, ChainIsBehindItsLines
<1> QED BY <1>1, <1>2, <1>3, <1>4

\* A line joins the chain.
LEMMA ReceiveInv ==
  ASSUME TransportInv, NEW c \in Clients, NEW class \in Classes, Receive(c, class)
  PROVE  TransportInv'
<1> USE DEF TransportInv, Receive
<1>1. /\ received[c] \in Seq(Classes) /\ Len(received[c]) \in Nat
      /\ received' = [received EXCEPT ![c] = Append(received[c], class)]
      /\ Append(received[c], class) \in Seq(Classes)
      /\ Len(Append(received[c], class)) = Len(received[c]) + 1
  BY AppendProperties DEF TypeOK
<1>2. TypeOK'
  BY <1>1 DEF TypeOK
<1>3. ChainIsBehindItsLines'
  BY <1>1, TransportAssumption DEF TypeOK, ChainIsBehindItsLines
<1>4. StopWasAskedFor' /\ NoneOpenAfterStop' /\ OneSummaryAtTheEnd' /\ StopsOnceWhenAllAreGone'
  BY DEF StopWasAskedFor, NoneOpenAfterStop, OneSummaryAtTheEnd, StopsOnceWhenAllAreGone
<1>5. AnsweredInOrder'
  BY DEF AnsweredInOrder
<1> QED BY <1>2, <1>3, <1>4, <1>5

\* A socket closes.
LEMMA DisconnectInv == ASSUME TransportInv, NEW c \in Clients, Disconnect(c) PROVE TransportInv'
<1> USE DEF TransportInv, Disconnect
<1>1. TypeOK'
  BY DEF TypeOK
<1>2. ChainIsBehindItsLines' /\ StopWasAskedFor'
  BY DEF TypeOK, ChainIsBehindItsLines, StopWasAskedFor
<1>3. NoneOpenAfterStop' /\ OneSummaryAtTheEnd' /\ StopsOnceWhenAllAreGone'
  BY DEF TypeOK, NoneOpenAfterStop, OneSummaryAtTheEnd, StopsOnceWhenAllAreGone
<1>4. AnsweredInOrder'
  BY DEF TypeOK, AnsweredInOrder
<1> QED BY <1>1, <1>2, <1>3, <1>4

\* The signal ends every socket.
LEMMA SignalInv == ASSUME TransportInv, Signal PROVE TransportInv'
<1> USE DEF TransportInv, Signal
<1>1. TypeOK'
  BY EndingAll DEF TypeOK
<1>2. ChainIsBehindItsLines' /\ StopWasAskedFor'
  BY EndingAll DEF TypeOK, ChainIsBehindItsLines, StopWasAskedFor
<1>3. NoneOpenAfterStop' /\ OneSummaryAtTheEnd' /\ StopsOnceWhenAllAreGone'
  BY EndingAll DEF NoneOpenAfterStop, OneSummaryAtTheEnd, StopsOnceWhenAllAreGone
<1>4. AnsweredInOrder'
  BY EndingAll DEF AnsweredInOrder
<1> QED BY <1>1, <1>2, <1>3, <1>4

\* The one summary is written.
LEMMA StopEndsInv == ASSUME TransportInv, StopEnds PROVE TransportInv'
<1> USE DEF TransportInv, StopEnds
<1>1. TypeOK'
  BY DEF TypeOK
<1>2. ChainIsBehindItsLines' /\ StopWasAskedFor' /\ AnsweredInOrder'
  BY DEF ChainIsBehindItsLines, StopWasAskedFor, AnsweredInOrder
<1>3. NoneOpenAfterStop' /\ OneSummaryAtTheEnd' /\ StopsOnceWhenAllAreGone'
  BY DEF NoneOpenAfterStop, OneSummaryAtTheEnd, StopsOnceWhenAllAreGone
<1> QED BY <1>1, <1>2, <1>3

\* A chain takes up its next line.
LEMMA BeginInv == ASSUME TransportInv, NEW c \in Clients, Begin(c) PROVE TransportInv'
<1> USE DEF TransportInv, Begin
<1>1. TypeOK'
  BY DEF TypeOK
<1>2. ChainIsBehindItsLines'
  BY DEF TypeOK, ChainIsBehindItsLines, Waits
<1>3. StopWasAskedFor' /\ NoneOpenAfterStop' /\ OneSummaryAtTheEnd' /\ StopsOnceWhenAllAreGone'
  BY DEF TypeOK, StopWasAskedFor, NoneOpenAfterStop, OneSummaryAtTheEnd, StopsOnceWhenAllAreGone
<1>4. AnsweredInOrder'
  BY DEF AnsweredInOrder
<1> QED BY <1>1, <1>2, <1>3, <1>4

\* The agent or the provider is through with the line.
LEMMA ExecutedInv == ASSUME TransportInv, NEW c \in Clients, Executed(c) PROVE TransportInv'
<1> USE DEF TransportInv, Executed
<1>1. TypeOK'
  BY DEF TypeOK
<1>2. ChainIsBehindItsLines'
  BY DEF TypeOK, ChainIsBehindItsLines
<1>3. StopWasAskedFor' /\ NoneOpenAfterStop' /\ OneSummaryAtTheEnd' /\ StopsOnceWhenAllAreGone'
  BY DEF TypeOK, StopWasAskedFor, NoneOpenAfterStop, OneSummaryAtTheEnd, StopsOnceWhenAllAreGone
<1>4. AnsweredInOrder'
  BY DEF AnsweredInOrder
<1> QED BY <1>1, <1>2, <1>3, <1>4

\* The stop the chain asked for, or joined, is over.
LEMMA StoppedInv == ASSUME TransportInv, NEW c \in Clients, Stopped(c) PROVE TransportInv'
<1> USE DEF TransportInv, Stopped
<1>1. done[c] \in Nat /\ Len(received[c]) \in Nat /\ done[c] + 1 <= Len(received[c])
      /\ done[c] + 1 \in 0 .. MaxLines
  BY ChainBounds
<1>2. TypeOK'
  BY <1>1 DEF TypeOK
<1>3. ChainIsBehindItsLines'
  BY <1>1 DEF TypeOK, ChainIsBehindItsLines
<1>4. StopWasAskedFor' /\ NoneOpenAfterStop' /\ OneSummaryAtTheEnd' /\ StopsOnceWhenAllAreGone'
  BY DEF TypeOK, StopWasAskedFor, NoneOpenAfterStop, OneSummaryAtTheEnd, StopsOnceWhenAllAreGone
<1>5. AnsweredInOrder'
  BY DEF TypeOK, AnsweredInOrder, StopWasAskedFor
<1> QED BY <1>2, <1>3, <1>4, <1>5

-----------------------------------------------------------------------------
(* The response is where answers, limit and stop meet.                     *)

\* What writing the response does to the answers of the client: with the socket
\* open the next number joins them, otherwise nothing does.
LEMMA WrittenInOrder ==
  ASSUME TransportInv, NEW c \in Clients, phase[c] # "IDLE", Written(c)
  PROVE  /\ answered' \in [Clients -> Seq(1 .. MaxLines)]
         /\ \A d \in Clients : d # c => answered'[d] = answered[d]
         /\ answered'[c] = [k \in DOMAIN answered'[c] |-> k]
         /\ connection[c] = "OPEN" => Len(answered'[c]) = done[c] + 1
<1>1. /\ answered \in [Clients -> Seq(1 .. MaxLines)] /\ answered[c] \in Seq(1 .. MaxLines)
      /\ answered[c] = [k \in DOMAIN answered[c] |-> k]
      /\ connection[c] = "OPEN" => Len(answered[c]) = done[c]
      /\ done[c] \in Nat /\ done[c] + 1 \in 1 .. MaxLines
  BY ChainBounds DEF TransportInv, TypeOK, AnsweredInOrder
<1>2. CASE connection[c] # "OPEN"
  BY <1>1, <1>2 DEF Written
<1>3. CASE connection[c] = "OPEN"
  <2>1. answered' = [answered EXCEPT ![c] = Append(answered[c], done[c] + 1)]
    BY <1>3 DEF Written
  <2>2. /\ Append(answered[c], done[c] + 1) \in Seq(1 .. MaxLines)
        /\ Len(Append(answered[c], done[c] + 1)) = done[c] + 1
    BY <1>1, <1>3, AppendProperties
  <2>3. answered[c] \in Seq(Nat)
    BY <1>1, TransportAssumption
  <2>4. Append(answered[c], done[c] + 1) = [k \in DOMAIN Append(answered[c], done[c] + 1) |-> k]
    BY <1>1, <1>3, <2>3, CountingOn
  <2> QED BY <1>1, <2>1, <2>2, <2>4
<1> QED BY <1>2, <1>3

\* The response is written, and the chain either goes on or asks for the stop.
LEMMA RespondInv == ASSUME TransportInv, NEW c \in Clients, Respond(c) PROVE TransportInv'
<1>1. /\ phase[c] = "RESPONDING" /\ Written(c) /\ UNCHANGED <<limit, received, count>>
      /\ connection[c] # "AWAY"
  BY ChainBounds DEF Respond, TransportInv
<1>2. /\ answered' \in [Clients -> Seq(1 .. MaxLines)]
      /\ \A d \in Clients : d # c => answered'[d] = answered[d]
      /\ answered'[c] = [k \in DOMAIN answered'[c] |-> k]
      /\ connection[c] = "OPEN" => Len(answered'[c]) = done[c] + 1
  BY <1>1, WrittenInOrder
<1>3. done[c] \in Nat /\ Len(received[c]) \in Nat /\ done[c] + 1 <= Len(received[c])
      /\ done[c] + 1 \in 0 .. MaxLines
  BY <1>1, ChainBounds DEF TransportInv
<1>4. CASE /\ phase' = [phase EXCEPT ![c] = "IDLE"] /\ done' = [done EXCEPT ![c] = done[c] + 1]
           /\ UNCHANGED <<connection, stopTask, summaries>>
  <2> USE <1>4 DEF TransportInv
  <2>1. TypeOK'
    BY <1>1, <1>2, <1>3 DEF TypeOK
  <2>2. ChainIsBehindItsLines' /\ StopWasAskedFor'
    BY <1>1, <1>2, <1>3 DEF TypeOK, ChainIsBehindItsLines, StopWasAskedFor
  <2>3. NoneOpenAfterStop' /\ OneSummaryAtTheEnd' /\ StopsOnceWhenAllAreGone'
    BY DEF NoneOpenAfterStop, OneSummaryAtTheEnd, StopsOnceWhenAllAreGone
  <2>4. AnsweredInOrder'
    BY <1>2, <1>3 DEF TypeOK, AnsweredInOrder
  <2> QED BY <2>1, <2>2, <2>3, <2>4
<1>5. CASE /\ StopFrom(c) /\ UNCHANGED done
           /\ phase' = [phase EXCEPT ![c] = "STOPPING"]
  <2>1. /\ connection' \in [Clients -> {"AWAY", "ENDED", "CLOSED"}]
        /\ \A d \in Clients : connection'[d] = IF connection[d] = "OPEN" THEN "ENDED"
                                               ELSE connection[d]
    <3>1. CASE stopTask = "NONE"
      BY <1>5, <3>1, EndingAll DEF StopFrom, TransportInv
    <3>2. CASE stopTask # "NONE"
      <4>1. \A d \in Clients : connection[d] # "OPEN"
        BY <3>2 DEF TransportInv, NoneOpenAfterStop
      <4> QED BY <1>5, <3>2, <4>1, EndingOne DEF StopFrom, TransportInv, TypeOK
    <3> QED BY <3>1, <3>2
  <2>2. stopTask' \in {"RUNNING", "ENDED"} /\ (stopTask' = "ENDED" <=> stopTask = "ENDED")
        /\ UNCHANGED summaries
    BY <1>5 DEF StopFrom, TransportInv, TypeOK
  <2> USE DEF TransportInv
  <2>3. TypeOK'
    BY <1>1, <1>2, <1>5, <2>1, <2>2 DEF TypeOK
  <2>4. ChainIsBehindItsLines' /\ StopWasAskedFor'
    BY <1>1, <1>2, <1>3, <1>5, <2>1 DEF TypeOK, ChainIsBehindItsLines, StopWasAskedFor
  <2>5. NoneOpenAfterStop' /\ OneSummaryAtTheEnd' /\ StopsOnceWhenAllAreGone'
    BY <2>1, <2>2 DEF NoneOpenAfterStop, OneSummaryAtTheEnd, StopsOnceWhenAllAreGone
  <2>6. AnsweredInOrder'
    BY <1>2, <2>1 DEF TypeOK, AnsweredInOrder
  <2> QED BY <2>3, <2>4, <2>5, <2>6
<1> QED BY <1>4, <1>5 DEF Respond

-----------------------------------------------------------------------------
(* The theorems.                                                           *)

\* The inductive invariant holds of every behaviour of the server.
THEOREM TransportInvariance == Spec => []TransportInv
<1>1. Init => TransportInv
  BY InitInv
<1>2. TransportInv /\ [Next]_vars => TransportInv'
  <2> SUFFICES ASSUME TransportInv, [Next]_vars PROVE TransportInv'
    OBVIOUS
  <2>1. ASSUME NEW c \in Clients, Connect(c) PROVE TransportInv'
    BY <2>1, ConnectInv
  <2>2. ASSUME NEW c \in Clients, Disconnect(c) PROVE TransportInv'
    BY <2>2, DisconnectInv
  <2>3. ASSUME NEW c \in Clients, Begin(c) PROVE TransportInv'
    BY <2>3, BeginInv
  <2>4. ASSUME NEW c \in Clients, Executed(c) PROVE TransportInv'
    BY <2>4, ExecutedInv
  <2>5. ASSUME NEW c \in Clients, Respond(c) PROVE TransportInv'
    BY <2>5, RespondInv
  <2>6. ASSUME NEW c \in Clients, Stopped(c) PROVE TransportInv'
    BY <2>6, StoppedInv
  <2>7. ASSUME NEW c \in Clients, NEW class \in Classes, Receive(c, class) PROVE TransportInv'
    BY <2>7, ReceiveInv
  <2>8. CASE Signal
    BY <2>8, SignalInv
  <2>9. CASE StopEnds
    BY <2>9, StopEndsInv
  <2>10. CASE UNCHANGED vars
    BY <2>10 DEF vars, TransportInv, TypeOK, ChainIsBehindItsLines, StopWasAskedFor,
                 NoneOpenAfterStop, OneSummaryAtTheEnd, AnsweredInOrder, StopsOnceWhenAllAreGone
  <2> QED BY <2>1, <2>2, <2>3, <2>4, <2>5, <2>6, <2>7, <2>8, <2>9, <2>10 DEF Next
<1> QED BY <1>1, <1>2, PTL DEF Spec

\* The variables keep their types: no chain runs past the lines of its client,
\* and no answer has a number that no line has.
THEOREM TypeCorrectness == Spec => []TypeOK
<1>1. TransportInv => TypeOK
  BY DEF TransportInv
<1> QED BY <1>1, TransportInvariance, PTL

\* writeResponse after processLine, one line of a socket after the other: a
\* client that is still connected has one answer for each line its chain has
\* left behind, in order.
THEOREM AnswersKeepOrder == Spec => []AnsweredInOrder
<1>1. TransportInv => AnsweredInOrder
  BY DEF TransportInv
<1> QED BY <1>1, TransportInvariance, PTL

\* stop, asked for by any number of chains and signals: one summary, and only
\* when every client is gone.
THEOREM StopIsOnce == Spec => []StopsOnceWhenAllAreGone
<1>1. TransportInv => StopsOnceWhenAllAreGone
  BY DEF TransportInv
<1> QED BY <1>1, TransportInvariance, PTL

-----------------------------------------------------------------------------
(* Cutting parts out of a text.                                            *)

\* Without keeps the other parts and adds none.
LEMMA WithoutParts ==
  ASSUME NEW S, NEW text \in Seq(S), NEW parts
  PROVE  /\ Without(text, parts) \in Seq(S)
         /\ ToSet(Without(text, parts)) = ToSet(text) \ parts
<1> DEFINE places == {i \in DOMAIN text : text[i] \notin parts}
           rest == Without(text, parts)
<1>1. rest = Those(text, places)
  BY DEF Without
<1>2. places \subseteq DOMAIN text /\ \A i \in DOMAIN text : i \in places <=> text[i] \notin parts
  OBVIOUS
<1> HIDE DEF rest, places
<1>3. rest \in Seq(S) /\ \E at : ArePicked(rest, at, text, places)
  BY <1>1, ThoseProperties
<1>4. PICK at : ArePicked(rest, at, text, places)
  BY <1>3
<1>5. ASSUME NEW e \in ToSet(rest) PROVE e \in ToSet(text) \ parts
  <2>1. PICK k \in DOMAIN rest : rest[k] = e
    BY <1>5 DEF ToSet
  <2>2. at[k] \in DOMAIN text /\ at[k] \in places /\ text[at[k]] = e
    BY <1>4, <2>1 DEF ArePicked
  <2> QED BY <1>2, <2>2 DEF ToSet
<1>6. ASSUME NEW e \in ToSet(text) \ parts PROVE e \in ToSet(rest)
  <2>1. PICK i \in DOMAIN text : text[i] = e
    BY <1>6 DEF ToSet
  <2>2. PICK k \in DOMAIN rest : at[k] = i
    BY <1>2, <1>4, <1>6, <2>1 DEF ArePicked
  <2>3. rest[k] = e
    BY <1>4, <2>1, <2>2 DEF ArePicked
  <2> QED BY <2>3 DEF ToSet
<1> QED BY <1>3, <1>5, <1>6 DEF rest

-----------------------------------------------------------------------------
(* Sequences by their elements.                                            *)

\* A sequence is one over every set its elements are in.
LEMMA OverItsParts ==
  ASSUME NEW S, NEW s \in Seq(S), NEW T, ToSet(s) \subseteq T
  PROVE  s \in Seq(T)
<1>1. DOMAIN s = 1..Len(s) /\ Len(s) \in Nat /\ s = [i \in 1..Len(s) |-> s[i]]
  OBVIOUS
<1>2. \A i \in 1..Len(s) : s[i] \in T
  BY <1>1 DEF ToSet
<1> QED BY <1>1, <1>2

LEMMA JoinedParts ==
  ASSUME NEW S, NEW s \in Seq(S), NEW t \in Seq(S)
  PROVE  /\ s \o t \in Seq(S) /\ Len(s \o t) = Len(s) + Len(t)
         /\ ToSet(s \o t) = ToSet(s) \cup ToSet(t)
<1>1. /\ s \o t \in Seq(S) /\ Len(s \o t) = Len(s) + Len(t)
      /\ DOMAIN (s \o t) = 1..(Len(s) + Len(t))
      /\ Len(s) \in Nat /\ Len(t) \in Nat
      /\ DOMAIN s = 1..Len(s) /\ DOMAIN t = 1..Len(t)
      /\ \A i \in 1..(Len(s) + Len(t)) :
           (s \o t)[i] = IF i <= Len(s) THEN s[i] ELSE t[i - Len(s)]
  BY ConcatProperties
<1>2. ASSUME NEW e \in ToSet(s \o t) PROVE e \in ToSet(s) \cup ToSet(t)
  <2>1. PICK i \in 1..(Len(s) + Len(t)) : (s \o t)[i] = e
    BY <1>1, <1>2 DEF ToSet
  <2>2. IF i <= Len(s) THEN i \in DOMAIN s /\ s[i] = e
                       ELSE i - Len(s) \in DOMAIN t /\ t[i - Len(s)] = e
    BY <1>1, <2>1
  <2> QED BY <2>2 DEF ToSet
<1>3. ASSUME NEW e \in ToSet(s) PROVE e \in ToSet(s \o t)
  <2>1. PICK i \in DOMAIN s : s[i] = e
    BY <1>3 DEF ToSet
  <2>2. i \in DOMAIN (s \o t) /\ (s \o t)[i] = e
    BY <1>1, <2>1
  <2> QED BY <2>2 DEF ToSet
<1>4. ASSUME NEW e \in ToSet(t) PROVE e \in ToSet(s \o t)
  <2>1. PICK i \in DOMAIN t : t[i] = e
    BY <1>4 DEF ToSet
  <2>2. Len(s) + i \in DOMAIN (s \o t) /\ (s \o t)[Len(s) + i] = e
    BY <1>1, <2>1
  <2> QED BY <2>2 DEF ToSet
<1> QED BY <1>1, <1>2, <1>3, <1>4

LEMMA StartParts ==
  ASSUME NEW S, NEW s \in Seq(S), NEW n \in 0..Len(s)
  PROVE  /\ SubSeq(s, 1, n) \in Seq(S) /\ Len(SubSeq(s, 1, n)) = n
         /\ ToSet(SubSeq(s, 1, n)) = {s[i] : i \in 1..n}
         /\ ToSet(SubSeq(s, 1, n)) \subseteq ToSet(s)
<1>1. DOMAIN s = 1..Len(s) /\ Len(s) \in Nat /\ n \in Int
  OBVIOUS
<1>2. /\ SubSeq(s, 1, n) \in Seq(S) /\ Len(SubSeq(s, 1, n)) = n
      /\ \A i \in 1..n : SubSeq(s, 1, n)[i] = s[i]
  BY <1>1, SubSeqProperties
<1>3. DOMAIN SubSeq(s, 1, n) = 1..n /\ 1..n \subseteq DOMAIN s
  BY <1>1, <1>2
<1> QED BY <1>2, <1>3 DEF ToSet

LEMMA OnePart ==
  ASSUME NEW p, NEW S, p \in S
  PROVE  <<p>> \in Seq(S) /\ Len(<<p>>) = 1 /\ ToSet(<<p>>) = {p}
  BY DEF ToSet

LEMMA NoPart == /\ \A S : <<>> \in Seq(S)
                /\ Len(<<>>) = 0 /\ ToSet(<<>>) = {}
  BY DEF ToSet

\* A text that ends with one part holds it.
LEMMA EndsWith ==
  ASSUME NEW S, NEW text \in Seq(S), NEW p, IsSuffix(<<p>>, text)
  PROVE  Len(text) >= 1 /\ p \in ToSet(text)
<1> DEFINE one == Reverse(<<p>>)
           back == Reverse(text)
<1>1. Len(text) \in Nat /\ DOMAIN text = 1..Len(text)
  OBVIOUS
<1>2. one = <<p>> /\ back = [i \in 1..Len(text) |-> text[Len(text) - i + 1]]
  BY DEF Reverse
<1>3. back \in Seq(S) /\ Len(back) = Len(text)
  <2>1. \A i \in 1..Len(text) : text[Len(text) - i + 1] \in S
    BY <1>1
  <2> QED BY <1>1, <1>2, <2>1
<1>4. Len(one) <= Len(back) /\ SubSeq(one, 1, 1) = SubSeq(back, 1, 1)
  <2>1. Len(one) = 1
    BY <1>2
  <2> QED BY <2>1 DEF IsSuffix, IsPrefix
<1>5. Len(text) >= 1
  BY <1>2, <1>3, <1>4
<1>6. SubSeq(one, 1, 1)[1] = p /\ SubSeq(back, 1, 1)[1] = back[1]
  <2>1. one \in Seq({p}) /\ Len(one) = 1 /\ one[1] = p
    <3> HIDE DEF one, back
    <3> QED BY <1>2
  <2> HIDE DEF one, back
  <2> QED BY <1>1, <1>3, <1>5, <2>1, SubSeqProperties
<1>7. back[1] = text[Len(text)]
  BY <1>1, <1>2, <1>5
<1> HIDE DEF one, back
<1> QED BY <1>1, <1>4, <1>5, <1>6, <1>7 DEF ToSet

\* The latest of some ends is one of them.
LEMMA LatestEnd ==
  ASSUME NEW m \in Nat, NEW E \in SUBSET (0..m), E # {}
  PROVE  Latest(E) \in E
<1> DEFINE Rest == {n \in Nat : \E e \in E : n = m - e}
<1>1. PICK n \in Rest : \A k \in Rest : n <= k
  <2>1. Rest \in SUBSET Nat /\ Rest # {}
    <3>1. PICK e \in E : TRUE
      OBVIOUS
    <3>2. m - e \in Nat
      BY <3>1
    <3> QED BY <3>1, <3>2
  <2> HIDE DEF Rest
  <2> QED BY <2>1, LeastElement
<1>2. PICK e \in E : n = m - e
  OBVIOUS
<1>3. ASSUME NEW f \in E PROVE f <= e
  <2>1. m - f \in Rest
    OBVIOUS
  <2>2. n <= m - f
    BY <1>1, <2>1
  <2> QED BY <1>2, <2>2
<1> QED BY <1>3 DEF Latest

-----------------------------------------------------------------------------
(* The text of an answer.                                                  *)

LEMMA FixedTexts ==
  ASSUME NEW p \in FixedParts
  PROVE  <<p>> \in Texts /\ Len(<<p>>) = 1 /\ ToSet(<<p>>) = {p}
<1>1. p \in Parts
  BY DEF Parts
<1> QED BY <1>1, OnePart DEF Texts

\* A sanitized answer holds no thinking and no markup.
LEMMA SanitizedParts ==
  ASSUME NEW raw \in Answers
  PROVE  SanitizeFinalAnswer(raw) \in Texts
<1>1. raw \in Seq(Parts \cup Control)
  BY RequestAssumption
<1> DEFINE rest == Without(raw, {"think"})
<1>2. rest \in Seq(Parts \cup Control) /\ ToSet(rest) = ToSet(raw) \ {"think"}
  BY <1>1, WithoutParts
<1>3. <<>> \in Texts
  BY NoPart DEF Texts
<1>4. ASSUME ~Has(raw, "markup"), ~Has(raw, "open") PROVE rest \in Texts
  <2>1. ToSet(raw) \subseteq Parts \cup Control
    BY <1>1 DEF ToSet
  <2>2. ToSet(rest) \subseteq Parts
    BY <1>2, <1>4, <2>1 DEF Has, Control
  <2> HIDE DEF rest
  <2> QED BY <1>2, <2>2, OverItsParts DEF Texts
<1> QED BY <1>3, <1>4 DEF SanitizeFinalAnswer, DetectProviderControlMarkup

\* A usable text is a sanitized one.
LEMMA UsableTexts ==
  ASSUME NEW text \in Outcomes, IsUsable(text)
  PROVE  text \in Texts
<1>1. text \notin {<<>>, MarkupOnly}
  BY DEF IsUsable
<1>2. PICK raw \in Possible : text = SanitizeFinalAnswer(raw)
  BY <1>1 DEF Outcomes
<1> QED BY <1>2, SanitizedParts DEF Possible

LEMMA RelabelledParts ==
  ASSUME NEW text \in Texts
  PROVE  /\ Relabelled(text) \in Texts
         /\ ToSet(Relabelled(text)) \subseteq (ToSet(text) \ {"label"}) \cup {"fact"}
<1>1. DOMAIN text = 1..Len(text) /\ Len(text) \in Nat /\ \A i \in DOMAIN text : text[i] \in Parts
  BY DEF Texts
<1>2. "fact" \in Parts
  BY DEF Parts
<1>3. Relabelled(text) \in Seq(Parts)
  BY <1>1, <1>2 DEF Relabelled
<1>4. ToSet(Relabelled(text)) \subseteq (ToSet(text) \ {"label"}) \cup {"fact"}
  BY <1>1 DEF Relabelled, ToSet
<1> QED BY <1>3, <1>4 DEF Texts

\* What no guarded text holds.
Internal == {"value", "label", "claim"}

LEMMA GuardedParts ==
  ASSUME NEW text \in Texts
  PROVE  /\ GuardFinalAnswer(text).text \in Texts
         /\ ToSet(GuardFinalAnswer(text).text) \cap Internal = {}
         /\ GuardFinalAnswer(text).blocked \in BOOLEAN
         /\ GuardFinalAnswer(text).regenerable => ~Has(text, "value")
<1>1. <<>> \in Texts /\ ToSet(<<>>) = {}
  BY NoPart DEF Texts
<1>2. /\ Relabelled(text) \in Texts
      /\ ToSet(Relabelled(text)) \subseteq (ToSet(text) \ {"label"}) \cup {"fact"}
  BY RelabelledParts
<1>3. CASE Has(text, "value") \/ Has(text, "claim") \/ text = <<>>
  BY <1>1, <1>3 DEF GuardFinalAnswer, HasUngroundedClaim, Has
<1>4. CASE ~(Has(text, "value") \/ Has(text, "claim") \/ text = <<>>)
  <2>1. ToSet(Relabelled(text)) \cap Internal = {}
    BY <1>2, <1>4 DEF Has, Internal
  <2> QED BY <1>2, <1>4, <2>1 DEF GuardFinalAnswer, HasUngroundedClaim
<1> QED BY <1>3, <1>4

LEMMA RedactedParts ==
  ASSUME NEW text \in Texts
  PROVE  Redact(text) \in Texts /\ ~Has(Redact(text), "value")
  BY WithoutParts DEF Redact, Has, Texts

LEMMA GroundedParts ==
  ASSUME NEW text \in Texts
  PROVE  /\ AppendGroundedSources(text) \in Texts
         /\ ToSet(AppendGroundedSources(text)) = ToSet(text) \ (Markers \cup {"link"})
  BY WithoutParts DEF AppendGroundedSources, Texts

\* A failed search is admitted, and no other claim about it stands.
Admissions == {"DISCLOSED", "NONEWS", "BULK", "admits", "TAIL"}

LEMMA DisclosedParts ==
  ASSUME NEW text \in Texts
  PROVE  LET disclosed == DiscloseWebSearchFailure(text)
         IN  /\ disclosed \in Texts
             /\ ToSet(disclosed) \subseteq ToSet(text) \cup {"DISCLOSED"}
             /\ "searched" \notin ToSet(disclosed)
             /\ ToSet(disclosed) \cap {"admits", "DISCLOSED"} # {}
<1>1. Disclosure \in Texts /\ Len(Disclosure) = 1 /\ ToSet(Disclosure) = {"DISCLOSED"}
  BY FixedTexts DEF Disclosure, FixedParts
<1>2. text \o Disclosure \in Texts /\ ToSet(text \o Disclosure) = ToSet(text) \cup {"DISCLOSED"}
  BY <1>1, JoinedParts DEF Texts
<1>3. CASE Has(text, "searched")
  BY <1>1, <1>3 DEF DiscloseWebSearchFailure
<1>4. CASE ~Has(text, "searched") /\ (Has(text, "admits") \/ Has(text, "DISCLOSED"))
  BY <1>4 DEF DiscloseWebSearchFailure, Has
<1>5. CASE ~Has(text, "searched") /\ ~(Has(text, "admits") \/ Has(text, "DISCLOSED"))
  BY <1>2, <1>5 DEF DiscloseWebSearchFailure, Has
<1> QED BY <1>3, <1>4, <1>5

\* A text cut at a sentence end within the limit, with the closing tail.
LEMMA ShortenedParts ==
  ASSUME NEW body \in Texts, NEW most \in Nat \ {0}, most < Len(body)
  PROVE  LET short == ShortenAtSocialBoundary(body, most)
         IN  /\ short \in Texts /\ Len(short) <= most
             /\ ToSet(short) \subseteq ToSet(body) \cup {"TAIL"}
             /\ "TAIL" \in ToSet(short)
<1> DEFINE ends == SafeBoundaries(body, most - 1)
           end == IF ends = {} THEN most - 1 ELSE Latest(ends)
           start == SubSeq(body, 1, end)
<1>1. body \in Seq(Parts) /\ Len(body) \in Nat
  BY DEF Texts
<1>2. ends \in SUBSET (0..(most - 1))
  BY DEF SafeBoundaries
<1>3. end \in 0..(most - 1)
  <2>1. ends # {} => Latest(ends) \in ends
    <3> HIDE DEF ends
    <3>1. most - 1 \in Nat
      OBVIOUS
    <3> QED BY <1>2, <3>1, LatestEnd
  <2>2. most - 1 \in 0..(most - 1)
    OBVIOUS
  <2> HIDE DEF ends
  <2> QED BY <1>2, <2>1, <2>2
<1>4. start \in Seq(Parts) /\ Len(start) = end /\ ToSet(start) \subseteq ToSet(body)
  <2>1. end \in 0..Len(body)
    <3> HIDE DEF end
    <3> QED BY <1>1, <1>3
  <2> HIDE DEF end
  <2> QED BY <1>1, <2>1, StartParts
<1>5. ClosingTail \in Texts /\ Len(ClosingTail) = 1 /\ ToSet(ClosingTail) = {"TAIL"}
  BY FixedTexts DEF ClosingTail, FixedParts
<1>6. /\ start \o ClosingTail \in Seq(Parts) /\ Len(start \o ClosingTail) = end + 1
      /\ ToSet(start \o ClosingTail) = ToSet(start) \cup {"TAIL"}
  <2> HIDE DEF start, end
  <2>1. ClosingTail \in Seq(Parts)
    BY <1>5 DEF Texts
  <2>2. start \in Seq(Parts)
    BY <1>4
  <2>3. /\ start \o ClosingTail \in Seq(Parts)
        /\ Len(start \o ClosingTail) = Len(start) + Len(ClosingTail)
        /\ ToSet(start \o ClosingTail) = ToSet(start) \cup ToSet(ClosingTail)
    BY <2>1, <2>2, JoinedParts
  <2> QED BY <1>4, <1>5, <2>3
<1>7. ShortenAtSocialBoundary(body, most) = start \o ClosingTail
  BY DEF ShortenAtSocialBoundary
<1> HIDE DEF start, end
<1> QED BY <1>3, <1>4, <1>6, <1>7 DEF Texts

\* The cap of a group reply.
LEMMA CappedParts ==
  ASSUME NEW text \in Texts, NEW d \in {"NORMAL", "DETAILED"},
         NEW suffix \in {<<>>, Disclosure}
  PROVE  LET capped == BoundGroupSocialOutput(text, d, suffix)
         IN  /\ capped \in Texts /\ Len(capped) <= HardCap[d]
             /\ ToSet(capped) \subseteq ToSet(text) \cup {"BULK", "TAIL"}
             /\ capped = text \/ ToSet(capped) \cap {"BULK", "TAIL"} # {}
             /\ Len(text) <= HardCap[d] => capped = text
<1> DEFINE rest == IF suffix # <<>> /\ IsSuffix(suffix, text) THEN suffix ELSE <<>>
           body == SubSeq(text, 1, Len(text) - Len(rest))
           most == HardCap[d] - Len(rest)
           capped == BoundGroupSocialOutput(text, d, suffix)
<1>1. text \in Seq(Parts) /\ Len(text) \in Nat /\ HardCap[d] \in Nat /\ HardCap[d] >= 3
  BY CapAssumption DEF Texts
<1>2. /\ rest \in Seq(Parts) /\ Len(rest) \in {0, 1} /\ Len(rest) <= Len(text)
      /\ ToSet(rest) \subseteq ToSet(text)
  <2>1. CASE rest = <<>>
    <3> HIDE DEF rest
    <3> QED BY <1>1, <2>1, NoPart
  <2>2. CASE rest # <<>>
    <3>1. rest = Disclosure /\ IsSuffix(Disclosure, text)
      BY <2>2
    <3>2. Len(text) >= 1 /\ "DISCLOSED" \in ToSet(text)
      BY <1>1, <3>1, EndsWith DEF Disclosure
    <3>3. Disclosure \in Texts /\ Len(Disclosure) = 1 /\ ToSet(Disclosure) = {"DISCLOSED"}
      BY FixedTexts DEF Disclosure, FixedParts
    <3> HIDE DEF rest
    <3> QED BY <3>1, <3>2, <3>3 DEF Texts
  <2> QED BY <2>1, <2>2
<1>3. capped = IF Len(body) <= most THEN text
               ELSE IF IsStructured(body) THEN BulkFallback \o rest
               ELSE ShortenAtSocialBoundary(body, most) \o rest
  BY DEF BoundGroupSocialOutput
<1> HIDE DEF rest, capped
<1>4. /\ body \in Seq(Parts) /\ Len(body) = Len(text) - Len(rest)
      /\ ToSet(body) \subseteq ToSet(text)
  <2>1. Len(text) - Len(rest) \in 0..Len(text)
    BY <1>1, <1>2
  <2> QED BY <1>1, <2>1, StartParts
<1>5. most \in Nat \ {0} /\ most >= 2 /\ most = HardCap[d] - Len(rest)
  <2>1. HardCap[d] \in Nat /\ HardCap[d] >= 3
    BY <1>1
  <2>2. Len(rest) \in {0, 1}
    BY <1>2
  <2>3. \A h \in Nat, k \in {0, 1} : h >= 3 => h - k \in Nat /\ h - k # 0 /\ h - k >= 2
    OBVIOUS
  <2>4. most \in Nat /\ most # 0 /\ most >= 2
    BY <2>1, <2>2, <2>3
  <2> QED BY <2>4
<1> HIDE DEF body, most
<1>6. CASE Len(body) <= most
  <2>1. capped = text /\ Len(text) <= HardCap[d]
    BY <1>1, <1>2, <1>3, <1>4, <1>5, <1>6
  <2> QED BY <2>1 DEF capped
<1>7. CASE ~(Len(body) <= most) /\ IsStructured(body)
  <2>1. BulkFallback \in Texts /\ Len(BulkFallback) = 1 /\ ToSet(BulkFallback) = {"BULK"}
    BY FixedTexts DEF BulkFallback, FixedParts
  <2>2. /\ BulkFallback \o rest \in Texts /\ Len(BulkFallback \o rest) = 1 + Len(rest)
        /\ ToSet(BulkFallback \o rest) = {"BULK"} \cup ToSet(rest)
    <3>1. BulkFallback \in Seq(Parts)
      BY <2>1 DEF Texts
    <3>2. rest \in Seq(Parts)
      BY <1>2
    <3>3. /\ BulkFallback \o rest \in Seq(Parts)
          /\ Len(BulkFallback \o rest) = Len(BulkFallback) + Len(rest)
          /\ ToSet(BulkFallback \o rest) = ToSet(BulkFallback) \cup ToSet(rest)
      BY <3>1, <3>2, JoinedParts
    <3> QED BY <2>1, <3>3 DEF Texts
  <2>3. capped = BulkFallback \o rest
    BY <1>3, <1>7
  <2>4. Len(capped) <= HardCap[d] /\ ~(Len(text) <= HardCap[d])
    BY <1>1, <1>2, <1>4, <1>5, <1>7, <2>2, <2>3, SMTT(20)
  <2> QED BY <1>2, <2>2, <2>3, <2>4 DEF capped
<1>8. CASE ~(Len(body) <= most) /\ ~IsStructured(body)
  <2> DEFINE short == ShortenAtSocialBoundary(body, most)
  <2>1. /\ short \in Texts /\ Len(short) <= most /\ Len(short) \in Nat
        /\ ToSet(short) \subseteq ToSet(body) \cup {"TAIL"}
        /\ "TAIL" \in ToSet(short)
    <3>1. most < Len(body)
      BY <1>4, <1>5, <1>8
    <3>2. body \in Texts
      BY <1>4 DEF Texts
    <3> QED BY <1>5, <3>1, <3>2, ShortenedParts DEF Texts
  <2>2. capped = short \o rest
    BY <1>3, <1>8
  <2> HIDE DEF short
  <2>3. /\ short \o rest \in Texts /\ Len(short \o rest) = Len(short) + Len(rest)
        /\ ToSet(short \o rest) = ToSet(short) \cup ToSet(rest)
    BY <1>2, <2>1, JoinedParts DEF Texts
  <2>4. Len(capped) <= HardCap[d] /\ ~(Len(text) <= HardCap[d])
    BY <1>1, <1>2, <1>4, <1>5, <1>8, <2>1, <2>2, <2>3, SMTT(20)
  <2> QED BY <1>2, <1>4, <2>1, <2>2, <2>3, <2>4 DEF capped
<1> QED BY <1>6, <1>7, <1>8

\* The boundaries of a group reply: no bulk, and nothing added but fixed parts.
LEMMA BoundedParts ==
  ASSUME NEW text \in Texts, NEW d \in Depths
  PROVE  LET bounded == BoundGroupReply(text, d)
         IN  /\ bounded.text \in Texts /\ bounded.blocked \in BOOLEAN
             /\ bounded.blocked => bounded.text = BulkFallback
             /\ ToSet(bounded.text) \subseteq ToSet(text) \cup {"BULK", "TAIL"}
             /\ ~Has(bounded.text, "bulk")
<1> DEFINE bulk == BoundGroupBulkOutput(text)
           ends == SafeBoundaries(text, ReplyBudget[d])
           bounded == BoundGroupReply(text, d)
<1>1. CASE IsBulk(text)
  <2>1. BulkFallback \in Texts /\ ToSet(BulkFallback) = {"BULK"}
    BY FixedTexts DEF BulkFallback, FixedParts
  <2>2. bounded = [blocked |-> TRUE, text |-> BulkFallback]
    BY <1>1 DEF BoundGroupReply, BoundGroupBulkOutput
  <2> QED BY <2>1, <2>2 DEF Has
<1>2. CASE ~IsBulk(text) /\ text = <<>>
  <2>1. bounded = [blocked |-> FALSE, text |-> text]
    <3>1. bulk = [blocked |-> IsBulk(text), text |-> text]
      BY <1>2 DEF BoundGroupBulkOutput
    <3>2. IsBulk(text) = FALSE
      BY <1>2 DEF IsBulk, Has
    <3>3. bounded = bulk
      BY <1>2 DEF BoundGroupReply
    <3> QED BY <3>1, <3>2, <3>3
  <2>2. ~Has(text, "bulk")
    BY <1>2 DEF IsBulk
  <2> HIDE DEF bounded
  <2>3. bounded.text = text /\ bounded.blocked = FALSE
    BY <2>1
  <2> QED BY <2>2, <2>3 DEF bounded
<1>3. CASE ~IsBulk(text) /\ text # <<>>
  <2>1. /\ bounded.blocked = FALSE
        /\ bounded.text =
             CASE d = "DETAILED" -> BoundGroupSocialOutput(text, d, <<>>)
               [] d # "DETAILED" /\ Len(text) > ReplyBudget[d] /\ ends # {} ->
                    SubSeq(text, 1, Latest(ends))
               [] OTHER -> text
    BY <1>3 DEF BoundGroupReply, BoundGroupBulkOutput
  <2> HIDE DEF bounded
  <2>2. SUFFICES bounded.text \in Texts /\ ToSet(bounded.text) \subseteq ToSet(text) \cup {"BULK", "TAIL"}
    BY <1>3, <2>1 DEF bounded, IsBulk, Has
  <2>3. CASE d = "DETAILED"
    BY <2>1, <2>3, CappedParts
  <2>4. CASE d # "DETAILED" /\ Len(text) > ReplyBudget[d] /\ ends # {}
    <3>1. ReplyBudget[d] \in Nat /\ Len(text) \in Nat /\ text \in Seq(Parts)
      BY <2>4, CapAssumption DEF Depths, Texts
    <3>2. ends \in SUBSET (0..ReplyBudget[d]) /\ ends \subseteq 0..Len(text)
      BY <3>1 DEF SafeBoundaries
    <3>3. Latest(ends) \in 0..Len(text)
      <4> HIDE DEF ends
      <4>1. Latest(ends) \in ends
        BY <2>4, <3>1, <3>2, LatestEnd
      <4> QED BY <3>2, <4>1
    <3>4. bounded.text = SubSeq(text, 1, Latest(ends))
      BY <2>1, <2>4
    <3> HIDE DEF ends
    <3> QED BY <3>1, <3>3, <3>4, StartParts DEF Texts
  <2>5. CASE d # "DETAILED" /\ ~(Len(text) > ReplyBudget[d] /\ ends # {})
    <3>1. bounded.text = text
      BY <2>1, <2>5
    <3> QED BY <3>1
  <2> QED BY <2>3, <2>4, <2>5
<1> QED BY <1>1, <1>2, <1>3

\* A reply to a group on its way out: a closing invitation may go, and the rest
\* stays or the text says that it was cut.
LEMMA FinalizedParts ==
  ASSUME depth \in Depths, NEW text \in Texts, NEW suffix \in {<<>>, Disclosure}
  PROVE  LET last == Finalized(text, suffix)
         IN  /\ last \in Texts
             /\ ToSet(last) \subseteq ToSet(text) \cup {"BULK", "TAIL"}
             /\ \/ ToSet(text) \ {"cta"} \subseteq ToSet(last)
                \/ ToSet(last) \cap {"BULK", "TAIL"} # {}
             /\ IsGroup => Len(last) <= HardCap[IF depth = "DETAILED" THEN "DETAILED" ELSE "NORMAL"]
             /\ Len(text) = 1 => last = text
<1> DEFINE d == IF depth = "DETAILED" THEN "DETAILED" ELSE "NORMAL"
           light == IF depth = "SHORT" THEN StripTrailingGroupCta(text) ELSE text
           last == Finalized(text, suffix)
<1>1. text \in Seq(Parts) /\ Len(text) \in Nat /\ DOMAIN text = 1..Len(text)
  BY DEF Texts
<1>2. /\ light \in Texts /\ ToSet(light) \subseteq ToSet(text)
      /\ ToSet(text) \ {"cta"} \subseteq ToSet(light)
      /\ Len(text) = 1 => light = text
  <2>1. CASE depth = "SHORT" /\ Len(text) > 1 /\ Last(text) = "cta"
    <3> DEFINE n == Len(text) - 1
    <3>1. light = SubSeq(text, 1, n)
      BY <2>1 DEF StripTrailingGroupCta, Front
    <3>2. n \in 0..Len(text) /\ Len(text) # 1 /\ Len(text) = n + 1 /\ n \in Nat
      <4>1. \A k \in Nat : k > 1 =>
              k - 1 \in 0..k /\ k # 1 /\ k = (k - 1) + 1 /\ k - 1 \in Nat
        OBVIOUS
      <4>2. Len(text) \in Nat /\ Len(text) > 1
        BY <1>1, <2>1
      <4> QED BY <4>1, <4>2
    <3> HIDE DEF n, light
    <3>3. /\ light \in Seq(Parts) /\ ToSet(light) = {text[i] : i \in 1..n}
          /\ ToSet(light) \subseteq ToSet(text)
      BY <1>1, <3>1, <3>2, StartParts
    <3>4. ASSUME NEW e \in ToSet(text), e # "cta" PROVE e \in ToSet(light)
      <4>1. PICK i \in 1..Len(text) : text[i] = e
        BY <1>1, <3>4 DEF ToSet
      <4>2. i # Len(text)
        BY <2>1, <3>4, <4>1 DEF Last
      <4>3. i \in 1..n
        BY <3>2, <4>2
      <4> QED BY <3>3, <4>1, <4>3
    <3> QED BY <3>2, <3>3, <3>4 DEF Texts
  <2>2. CASE ~(depth = "SHORT" /\ Len(text) > 1 /\ Last(text) = "cta")
    <3>1. light = text
      BY <2>2 DEF StripTrailingGroupCta
    <3> QED BY <3>1
  <2> QED BY <2>1, <2>2
<1>3. CASE ~IsGroup
  <2>1. last = text
    BY <1>3 DEF Finalized
  <2> QED BY <1>3, <2>1
<1>4. CASE IsGroup
  <2>1. last = BoundGroupSocialOutput(light, d, suffix)
    BY <1>4 DEF Finalized
  <2>2. d \in {"NORMAL", "DETAILED"} /\ HardCap[d] \in Nat /\ HardCap[d] >= 3
    BY CapAssumption
  <2> HIDE DEF d, light, last
  <2>3. /\ last \in Texts /\ Len(last) <= HardCap[d]
        /\ ToSet(last) \subseteq ToSet(light) \cup {"BULK", "TAIL"}
        /\ last = light \/ ToSet(last) \cap {"BULK", "TAIL"} # {}
        /\ Len(light) <= HardCap[d] => last = light
    BY <1>2, <2>1, <2>2, CappedParts
  <2>4. Len(text) = 1 => last = text
    <3>1. 1 <= HardCap[d]
      BY <2>2
    <3> QED BY <1>2, <2>3, <3>1
  <2> QED BY <1>2, <2>3, <2>4 DEF d, last
<1> QED BY <1>3, <1>4

\* The boundaries of any request.
LEMMA BoundariesParts ==
  ASSUME depth \in Depths, NEW text \in Texts
  PROVE  /\ Bounded(text).text \in Texts /\ Bounded(text).blocked \in BOOLEAN
         /\ Bounded(text).blocked => IsGroup /\ Bounded(text).text = BulkFallback
         /\ ToSet(Bounded(text).text) \subseteq ToSet(text) \cup {"BULK", "TAIL"}
         /\ IsGroup => ~Has(Bounded(text).text, "bulk")
<1>1. CASE IsGroup
  <2>1. Bounded(text) = BoundGroupReply(text, depth)
    BY <1>1 DEF Bounded
  <2> QED BY <1>1, <2>1, BoundedParts
<1>2. CASE ~IsGroup
  BY <1>2 DEF Bounded
<1> QED BY <1>1, <1>2

-----------------------------------------------------------------------------
(* What a provider is answered.                                            *)

\* The smaller of two numbers.
LEMMA LeastOf ==
  ASSUME NEW a \in Nat, NEW b \in Nat
  PROVE  Least(a, b) \in Nat /\ Least(a, b) <= a /\ Least(a, b) <= b /\ Least(a, b) \in {a, b}
BY DEF Least

\* Junk is dropped.
LEMMA ProviderUrls ==
  ASSUME NEW items \in ProviderAnswers
  PROVE  ProviderSearch(items) \in Seq(Urls)
<1> DEFINE places == {i \in DOMAIN items : /\ items[i] \in Urls
                                           /\ \A j \in 1..(i - 1) : items[j] # items[i]}
           urls == NormalizeSearchResults(items)
<1>1. items \in Seq(ToSet(items))
  BY BudgetAssumption
<1>2. urls = Those(items, places)
  BY DEF NormalizeSearchResults
<1>3. \A i \in places : items[i] \in Urls
  OBVIOUS
<1> HIDE DEF urls, places
<1>4. urls \in Seq(ToSet(items)) /\ \E at : ArePicked(urls, at, items, places)
  BY <1>1, <1>2, ThoseProperties
<1>5. ToSet(urls) \subseteq Urls
  BY <1>3, <1>4 DEF ArePicked, ToSet
<1>6. urls \in Seq(Urls) /\ Len(urls) \in Nat
  BY <1>4, <1>5, OverItsParts
<1>7. Least(Len(urls), MaxResults) \in 0..Len(urls)
  BY <1>6, LeastOf, ResultAssumption
<1>8. SubSeq(urls, 1, Least(Len(urls), MaxResults)) \in Seq(Urls)
  BY <1>6, <1>7, StartParts
<1> QED BY <1>8 DEF ProviderSearch, urls

IsBare(results) == \A k \in DOMAIN results : results[k].chars = 0

\* Results come without page text.
LEMMA RetrievedResults ==
  ASSUME NEW urls \in Seq(Urls), NEW origin \in {"PRIMARY", "ALTERNATE"}, NEW round \in {1, 2}
  PROVE  Retrieved(urls, origin, round) \in Seq(Result) /\ IsBare(Retrieved(urls, origin, round))
<1>1. DOMAIN urls = 1..Len(urls) /\ Len(urls) \in Nat /\ \A i \in DOMAIN urls : urls[i] \in Urls
  OBVIOUS
<1>2. 0 \in 0..PageChars
  BY ResultAssumption
<1>3. \A i \in DOMAIN urls :
        [url |-> urls[i], title |-> Title[urls[i]], origin |-> origin, round |-> round, chars |-> 0]
          \in Result
  BY <1>1, <1>2 DEF Result
<1>4. Retrieved(urls, origin, round) \in [1..Len(urls) -> Result]
  BY <1>1, <1>3 DEF Retrieved
<1>5. IsBare(Retrieved(urls, origin, round))
  BY DEF IsBare, Retrieved
<1> QED BY <1>1, <1>4, <1>5

\* The places of the first result of every url.
FirstPlaces(results) ==
  {i \in DOMAIN results : \A j \in 1..(i - 1) : results[j].url # results[i].url}

LEMMA NormalizedResults ==
  ASSUME NEW results \in Seq(Result)
  PROVE  /\ NormalizeWebSearchResults(results) \in Seq(Result)
         /\ \E at : ArePicked(NormalizeWebSearchResults(results), at, results, FirstPlaces(results))
<1>1. NormalizeWebSearchResults(results) = Those(results, FirstPlaces(results))
  BY DEF NormalizeWebSearchResults, FirstPlaces
<1> QED BY <1>1, ThoseProperties

\* What a query adds to what was found.
LEMMA FoundResults ==
  ASSUME NEW items \in ProviderAnswers, NEW origin \in {"PRIMARY", "ALTERNATE"}, NEW round \in {1, 2}
  PROVE  LET results == NormalizeWebSearchResults(Retrieved(ProviderSearch(items), origin, round))
         IN  results \in Seq(Result) /\ IsBare(results)
<1> DEFINE retrieved == Retrieved(ProviderSearch(items), origin, round)
           results == NormalizeWebSearchResults(retrieved)
<1>1. retrieved \in Seq(Result) /\ IsBare(retrieved)
  BY ProviderUrls, RetrievedResults
<1> HIDE DEF retrieved
<1>2. results \in Seq(Result) /\ \E at : ArePicked(results, at, retrieved, FirstPlaces(retrieved))
  BY <1>1, NormalizedResults
<1> HIDE DEF results
<1>3. IsBare(results)
  BY <1>1, <1>2 DEF IsBare, ArePicked
<1> QED BY <1>2, <1>3 DEF results, retrieved

-----------------------------------------------------------------------------
(* How much page text some results hold.                                   *)

CharsOf(results) == [k \in DOMAIN results |-> results[k].chars]

LEMMA CharsAreNumbers ==
  ASSUME NEW results \in Seq(Result)
  PROVE  /\ CharsOf(results) \in Seq(Nat) /\ DOMAIN CharsOf(results) = DOMAIN results
         /\ \A k \in DOMAIN results : CharsOf(results)[k] = results[k].chars
<1>1. DOMAIN results = 1..Len(results) /\ Len(results) \in Nat
  OBVIOUS
<1>2. ASSUME NEW k \in DOMAIN results PROVE results[k].chars \in Nat
  <2>1. results[k] \in Result /\ PageChars \in Nat
    BY ResultAssumption
  <2>2. results[k].chars \in 0..PageChars
    BY <2>1 DEF Result
  <2> QED BY <2>1, <2>2
<1>3. CharsOf(results) \in [1..Len(results) -> Nat]
  BY <1>1, <1>2 DEF CharsOf
<1> QED BY <1>1, <1>3 DEF CharsOf

\* Results whose pages are some of others' hold no more text.
LEMMA NoMoreChars ==
  ASSUME NEW results \in Seq(Result), NEW some \in Seq(Result), NEW at,
         \A k \in DOMAIN some : HasPage(some[k]) =>
           at[k] \in DOMAIN results /\ results[at[k]].chars = some[k].chars,
         \A k, l \in DOMAIN some : HasPage(some[k]) /\ HasPage(some[l]) /\ k # l => at[k] # at[l]
  PROVE  Total(CharsOf(some)) <= Total(CharsOf(results))
<1> DEFINE ns == CharsOf(results)
           ms == CharsOf(some)
<1>1. ns \in Seq(Nat) /\ DOMAIN ns = DOMAIN results /\ \A k \in DOMAIN results : ns[k] = results[k].chars
  BY CharsAreNumbers
<1>2. ms \in Seq(Nat) /\ DOMAIN ms = DOMAIN some /\ \A k \in DOMAIN some : ms[k] = some[k].chars
  BY CharsAreNumbers
<1> HIDE DEF ns, ms
<1>3. \A k \in DOMAIN ms : ms[k] > 0 => at[k] \in DOMAIN ns /\ ns[at[k]] = ms[k]
  BY <1>1, <1>2 DEF HasPage
<1>4. \A k, l \in DOMAIN ms : ms[k] > 0 /\ ms[l] > 0 /\ k # l => at[k] # at[l]
  BY <1>2 DEF HasPage
<1>5. Total(ms) <= Total(ns)
  BY <1>1, <1>2, <1>3, <1>4, TotalOfSome
<1> QED BY <1>5 DEF ns, ms

-----------------------------------------------------------------------------
(* Deduplicated.                                                           *)

\* A result under the canonical address of its page.
AsCanonical(r) == [r EXCEPT !.url = Canonical[r.url]]

LEMMA CanonicalResult ==
  ASSUME NEW r \in Result
  PROVE  /\ AsCanonical(r) \in Result /\ AsCanonical(r).chars = r.chars
         /\ Canonical[AsCanonical(r).url] = AsCanonical(r).url
         /\ AsCanonical(r).url = Canonical[r.url] /\ AsCanonical(r).title = r.title
         /\ Canonical[r.url] = r.url => AsCanonical(r) = r
         /\ \A q : IsDuplicate(AsCanonical(r), q) <=> IsDuplicate(r, q)
         /\ \A q : IsDuplicate(q, AsCanonical(r)) <=> IsDuplicate(q, r)
<1>1. Canonical[r.url] \in Urls /\ Canonical[Canonical[r.url]] = Canonical[r.url]
  BY ResultAssumption DEF Result
<1>2. AsCanonical(r) \in Result /\ AsCanonical(r).chars = r.chars
      /\ AsCanonical(r).url = Canonical[r.url] /\ AsCanonical(r).title = r.title
  BY <1>1 DEF AsCanonical, Result
<1>3. Canonical[r.url] = r.url => AsCanonical(r) = r
  BY DEF AsCanonical, Result
<1> QED BY <1>1, <1>2, <1>3 DEF IsDuplicate

LEMMA DuplicatesAreMutual ==
  ASSUME NEW a, NEW b PROVE IsDuplicate(a, b) <=> IsDuplicate(b, a)
BY DEF IsDuplicate

\* Item k of `items` is the one at at[k] of the first n of these results: no two are
\* duplicates, and what is no duplicate of an earlier result is among them.
AreDeduplicated(items, at, results, n) ==
  /\ at \in [DOMAIN items -> 1..n]
  /\ \A k \in DOMAIN items : items[k] = AsCanonical(results[at[k]])
  /\ \A k, l \in DOMAIN items : k < l => at[k] < at[l]
  /\ \A k, l \in DOMAIN items : k # l => ~IsDuplicate(items[k], items[l])
  /\ \A i \in 1..n : (\A j \in 1..(i - 1) : ~IsDuplicate(results[j], results[i]))
                       => \E k \in DOMAIN items : at[k] = i

\* One result more.
LEMMA OneMoreResult ==
  ASSUME NEW results \in Seq(Result), NEW n \in DOMAIN results,
         NEW before \in Seq(Result), NEW at, AreDeduplicated(before, at, results, n - 1),
         NEW after,
         after = IF \E k \in DOMAIN before : IsDuplicate(before[k], results[n])
                 THEN before ELSE Append(before, AsCanonical(results[n]))
  PROVE  after \in Seq(Result) /\ \E more : AreDeduplicated(after, more, results, n)
<1> DEFINE item == results[n]
<1>1. /\ n \in Nat /\ n - 1 \in Nat /\ item \in Result /\ DOMAIN results = 1..Len(results)
      /\ \A i \in 1..(n - 1) : i \in DOMAIN results /\ i \in 1..n /\ i # n
      /\ \A i \in 1..n : i = n \/ i \in 1..(n - 1)
  OBVIOUS
<1>2. \A k \in DOMAIN before : at[k] \in 1..(n - 1) /\ before[k] = AsCanonical(results[at[k]])
  BY DEF AreDeduplicated
<1>3. ASSUME NEW k \in DOMAIN before
      PROVE  /\ IsDuplicate(before[k], item) <=> IsDuplicate(results[at[k]], item)
             /\ IsDuplicate(before[k], AsCanonical(item)) <=> IsDuplicate(before[k], item)
  <2>1. results[at[k]] \in Result
    BY <1>1, <1>2
  <2> QED BY <1>1, <1>2, <2>1, CanonicalResult
<1> HIDE DEF item
<1>4. CASE \E k \in DOMAIN before : IsDuplicate(before[k], item)
  <2>1. after = before
    BY <1>4 DEF item
  <2>2. \E j \in 1..(n - 1) : IsDuplicate(results[j], item)
    BY <1>2, <1>3, <1>4
  <2>3. AreDeduplicated(before, at, results, n)
    <3>1. at \in [DOMAIN before -> 1..n]
      BY <1>1 DEF AreDeduplicated
    <3>2. ASSUME NEW i \in 1..n, \A j \in 1..(i - 1) : ~IsDuplicate(results[j], results[i])
          PROVE  \E k \in DOMAIN before : at[k] = i
      <4>1. i # n
        BY <2>2, <3>2 DEF item
      <4>2. i \in 1..(n - 1)
        BY <1>1, <4>1
      <4> QED BY <3>2, <4>2 DEF AreDeduplicated
    <3> QED BY <3>1, <3>2 DEF AreDeduplicated
  <2> QED BY <2>1, <2>3
<1>5. CASE ~\E k \in DOMAIN before : IsDuplicate(before[k], item)
  <2> DEFINE new == AsCanonical(item)
             m == Len(before)
             more == [k \in 1..(m + 1) |-> IF k = m + 1 THEN n ELSE at[k]]
  <2>1. after = Append(before, new)
    BY <1>5 DEF item
  <2>2. new \in Result
    BY <1>1, CanonicalResult
  <2> HIDE DEF new
  <2>3. /\ Append(before, new) \in Seq(Result) /\ DOMAIN Append(before, new) = 1..(m + 1)
        /\ DOMAIN before = 1..m /\ m \in Nat
        /\ \A k \in 1..m : Append(before, new)[k] = before[k]
        /\ Append(before, new)[m + 1] = new
    BY <2>2, AppendProperties
  <2> HIDE DEF m
  <2>4. /\ after \in Seq(Result) /\ DOMAIN after = 1..(m + 1)
        /\ \A k \in 1..m : after[k] = before[k] /\ k \in 1..(m + 1) /\ k # m + 1
        /\ after[m + 1] = new /\ m + 1 \in 1..(m + 1)
        /\ \A k \in 1..(m + 1) : k = m + 1 \/ k \in 1..m
    BY <2>1, <2>3
  <2>5. more[m + 1] = n /\ (\A k \in 1..m : more[k] = at[k]) /\ DOMAIN more = 1..(m + 1)
        /\ more = [k \in 1..(m + 1) |-> more[k]]
    BY <2>4
  <2> HIDE DEF more
  <2>6. \A k \in 1..m : at[k] \in 1..(n - 1) /\ at[k] < n
    <3>1. \A i \in 1..(n - 1) : i < n
      BY <1>1
    <3> QED BY <1>2, <2>3, <3>1
  <2>7. more \in [DOMAIN after -> 1..n]
    <3>1. \A k \in 1..(m + 1) : more[k] \in 1..n
      <4>1. n \in 1..n
        BY <1>1
      <4>2. \A k \in 1..m : at[k] \in 1..n
        BY <1>1, <2>6
      <4> QED BY <2>4, <2>5, <4>1, <4>2
    <3> QED BY <2>4, <2>5, <3>1
  <2>8. ASSUME NEW k \in DOMAIN after PROVE after[k] = AsCanonical(results[more[k]])
    BY <1>2, <2>3, <2>4, <2>5 DEF new, item
  <2>9. ASSUME NEW k \in DOMAIN after, NEW l \in DOMAIN after, k < l PROVE more[k] < more[l]
    <3>1. k \in 1..m
      BY <2>3, <2>4, <2>9
    <3>2. CASE l = m + 1
      BY <2>5, <2>6, <3>1, <3>2
    <3>3. CASE l \in 1..m
      BY <2>3, <2>5, <2>9, <3>1, <3>3 DEF AreDeduplicated
    <3> QED BY <2>4, <3>2, <3>3
  <2>10. ASSUME NEW k \in DOMAIN after, NEW l \in DOMAIN after, k # l
         PROVE  ~IsDuplicate(after[k], after[l])
    <3>1. \A j \in 1..m : ~IsDuplicate(before[j], new) /\ ~IsDuplicate(new, before[j])
      BY <1>3, <1>5, <2>3, DuplicatesAreMutual DEF new
    <3>2. CASE k \in 1..m /\ l \in 1..m
      BY <2>3, <2>4, <2>10, <3>2 DEF AreDeduplicated
    <3>3. CASE k = m + 1
      BY <2>4, <2>10, <3>1, <3>3
    <3>4. CASE l = m + 1
      BY <2>4, <2>10, <3>1, <3>4
    <3> QED BY <2>4, <3>2, <3>3, <3>4
  <2>11. ASSUME NEW i \in 1..n, \A j \in 1..(i - 1) : ~IsDuplicate(results[j], results[i])
         PROVE  \E k \in DOMAIN after : more[k] = i
    <3>1. CASE i = n
      BY <2>4, <2>5, <3>1
    <3>2. CASE i \in 1..(n - 1)
      <4>1. PICK k \in DOMAIN before : at[k] = i
        BY <2>11, <3>2 DEF AreDeduplicated
      <4> QED BY <2>3, <2>4, <2>5, <4>1
    <3> QED BY <1>1, <3>1, <3>2
  <2>12. AreDeduplicated(after, more, results, n)
    BY <2>7, <2>8, <2>9, <2>10, <2>11 DEF AreDeduplicated
  <2> QED BY <2>4, <2>12
<1> QED BY <1>4, <1>5

LEMMA DeduplicatedResults ==
  ASSUME NEW results \in Seq(Result)
  PROVE  /\ DeduplicateQualityResults(results) \in Seq(Result)
         /\ \E at : AreDeduplicated(DeduplicateQualityResults(results), at, results, Len(results))
<1> DEFINE N == Len(results)
           Next1(before, item) == IF \E k \in DOMAIN before : IsDuplicate(before[k], item)
                                  THEN before ELSE Append(before, AsCanonical(item))
           IsRun(f) == f = [n \in 0..N |-> IF n = 0 THEN <<>> ELSE Next1(f[n - 1], results[n])]
           run == CHOOSE f : IsRun(f)
           T == Seq(Result)
<1>0. N \in Nat /\ DOMAIN results = 1..N /\ \A n \in 1..N : results[n] \in Result
  OBVIOUS
<1>1. \E f : IsRun(f)
  <2> DEFINE step == [n \in 1..N |-> [s \in T |-> Next1(s, results[n])]]
             base == <<>>
  <2>1. ASSUME NEW n \in 1..N, NEW s \in T PROVE Next1(s, results[n]) \in T
    <3>1. AsCanonical(results[n]) \in Result
      BY <1>0, CanonicalResult
    <3> QED BY <3>1
  <2> HIDE DEF Next1
  <2>2. step \in [1..N -> [T -> T]] /\ base \in T
    BY <2>1
  <2>3. PICK f \in [0..N -> T] : f[0] = base /\ \A n \in 1..N : f[n] = step[n][f[n - 1]]
    <3> HIDE DEF step, N, T, base, IsRun
    <3>1. N \in Nat
      BY <1>0
    <3>2. \E f \in [0..N -> T] : FollowsSteps(f, base, step, N)
      BY <2>2, <3>1, Recursion
    <3> QED BY <3>2 DEF FollowsSteps
  <2>4. ASSUME NEW n \in 1..N PROVE f[n] = Next1(f[n - 1], results[n])
    <3> HIDE DEF T
    <3>1. f[n - 1] \in T
      BY <1>0
    <3> QED BY <2>3, <3>1
  <2>5. f = [n \in 0..N |-> f[n]]
    OBVIOUS
  <2>6. \A n \in 0..N : f[n] = IF n = 0 THEN <<>> ELSE Next1(f[n - 1], results[n])
    <3> HIDE DEF N, T
    <3> QED BY <1>0, <2>3, <2>4
  <2>7. IsRun(f)
    <3> HIDE DEF N, T
    <3> QED BY <2>5, <2>6
  <2> QED BY <2>7
<1>2. IsRun(run)
  <2> HIDE DEF IsRun
  <2> QED BY <1>1
<1>3. DeduplicateQualityResults(results) = run[N]
  BY DEF DeduplicateQualityResults, AsCanonical
<1>4. run[0] = <<>> /\ \A n \in 1..N : run[n] = Next1(run[n - 1], results[n])
  <2> HIDE DEF run, Next1
  <2>1. run = [n \in 0..N |-> IF n = 0 THEN <<>> ELSE Next1(run[n - 1], results[n])]
    BY <1>2
  <2> HIDE DEF IsRun, N
  <2>2. 0 \in 0..N /\ \A n \in 1..N : n \in 0..N /\ n # 0
    BY <1>0
  <2> QED BY <2>1, <2>2
<1> HIDE DEF run, IsRun
<1> DEFINE Good == {n \in 0..N : run[n] \in Seq(Result) /\ \E at : AreDeduplicated(run[n], at, results, n)}
<1>5. 0 \in Good
  <2>1. AreDeduplicated(<<>>, <<>>, results, 0)
    BY DEF AreDeduplicated
  <2>2. <<>> \in Seq(Result) /\ 0 \in 0..N
    <3> HIDE DEF N
    <3> QED BY <1>0
  <2> HIDE DEF N
  <2> QED BY <1>4, <2>1, <2>2
<1>6. ASSUME NEW n \in 1..N, n - 1 \in Good PROVE n \in Good
  <2>1. run[n - 1] \in Seq(Result) /\ n \in DOMAIN results /\ n \in 0..N
    BY <1>0, <1>6
  <2>2. PICK at : AreDeduplicated(run[n - 1], at, results, n - 1)
    BY <1>6
  <2>3. run[n] = IF \E k \in DOMAIN run[n - 1] : IsDuplicate(run[n - 1][k], results[n])
                 THEN run[n - 1] ELSE Append(run[n - 1], AsCanonical(results[n]))
    BY <1>4
  <2>4. run[n] \in Seq(Result) /\ \E more : AreDeduplicated(run[n], more, results, n)
    <3> HIDE DEF N, Good
    <3> QED BY <2>1, <2>2, <2>3, OneMoreResult
  <2> QED BY <2>1, <2>4
<1>7. N \in Good
  <2> HIDE DEF Good, N
  <2> QED BY <1>0, <1>5, <1>6, StepByStep
<1> QED BY <1>3, <1>7

-----------------------------------------------------------------------------
(* Ranked.                                                                 *)

\* Item k of the second list is the one at place[k] of the first, each once.
AreRearranged(new, place, old) ==
  /\ place \in [DOMAIN new -> DOMAIN old]
  /\ \A k \in DOMAIN new : new[k] = old[place[k]]
  /\ \A k, l \in DOMAIN new : k # l => place[k] # place[l]
  /\ \A i \in DOMAIN old : \E k \in DOMAIN new : place[k] = i

\* Smaller in the first, else the second, else the third of three numbers.
Precedes(f, r, o, g, s, p) == f < g \/ (f = g /\ (r < s \/ (r = s /\ o < p)))

\* A strict order of the numbers that come neither before nor after one another in classes.
LEMMA PrecedesOneWay ==
  ASSUME NEW f1 \in Int, NEW r1 \in Int, NEW o1 \in Int,
         NEW f2 \in Int, NEW r2 \in Int, NEW o2 \in Int
  PROVE  /\ ~Precedes(f1, r1, o1, f1, r1, o1)
         /\ Precedes(f1, r1, o1, f2, r2, o2) => ~Precedes(f2, r2, o2, f1, r1, o1)
BY DEF Precedes

LEMMA PrecedesOnward ==
  ASSUME NEW f1 \in Int, NEW r1 \in Int, NEW o1 \in Int,
         NEW f2 \in Int, NEW r2 \in Int, NEW o2 \in Int,
         NEW f3 \in Int, NEW r3 \in Int, NEW o3 \in Int,
         ~Precedes(f2, r2, o2, f1, r1, o1), ~Precedes(f3, r3, o3, f2, r2, o2)
  PROVE  /\ ~Precedes(f3, r3, o3, f1, r1, o1)
         /\ Precedes(f1, r1, o1, f2, r2, o2) \/ Precedes(f2, r2, o2, f3, r3, o3)
              => Precedes(f1, r1, o1, f3, r3, o3)
BY DEF Precedes

\* A result's place by freshness, relevance and query.
Query(r) == IF r.origin = "PRIMARY" THEN 0 ELSE 1

LEMMA BeforeIsPrecedence ==
  ASSUME NEW a \in Result, NEW b \in Result, NEW mode
  PROVE  /\ Before(a, b, mode) <=> Precedes(FreshnessRank(a, mode), -RelevanceScore(a), Query(a),
                                            FreshnessRank(b, mode), -RelevanceScore(b), Query(b))
         /\ FreshnessRank(a, mode) \in Int /\ -RelevanceScore(a) \in Int /\ Query(a) \in Int
<1>1. /\ a.url \in Urls /\ b.url \in Urls
      /\ a.origin \in {"PRIMARY", "ALTERNATE"} /\ b.origin \in {"PRIMARY", "ALTERNATE"}
  BY DEF Result
<1>2. /\ RelevanceScore(a) \in Int /\ RelevanceScore(b) \in Int
      /\ FreshnessRank(a, mode) \in Int /\ FreshnessRank(b, mode) \in Int
  BY <1>1, ResultAssumption DEF RelevanceScore, FreshnessRank
<1>3. Query(a) \in Int /\ Query(b) \in Int
      /\ (Query(a) < Query(b) <=> a.origin = "PRIMARY" /\ b.origin = "ALTERNATE")
  BY <1>1 DEF Query
<1> QED BY <1>2, <1>3 DEF Before, Precedes

\* Before and position order the results.
LEMMA SortedResults ==
  ASSUME NEW results \in Seq(Result), NEW mode
  PROVE  /\ Sorted(results, mode) \in Seq(Result)
         /\ \E place : AreRearranged(Sorted(results, mode), place, results)
<1> DEFINE D == DOMAIN results
           F == [i \in D |-> FreshnessRank(results[i], mode)]
           R == [i \in D |-> -RelevanceScore(results[i])]
           Q == [i \in D |-> Query(results[i])]
           Pre(i, j) == Precedes(F[i], R[i], Q[i], F[j], R[j], Q[j])
           earlier == [i \in D |-> {j \in D : \/ Before(results[j], results[i], mode)
                                              \/ ~Before(results[i], results[j], mode) /\ j < i}]
<1>1. D = 1..Len(results) /\ Len(results) \in Nat /\ D \subseteq Int
      /\ \A i \in D : results[i] \in Result
  OBVIOUS
<1>2. \A i \in D : F[i] \in Int /\ R[i] \in Int /\ Q[i] \in Int
  BY <1>1, BeforeIsPrecedence
<1>3. ASSUME NEW i \in D, NEW j \in D
      PROVE  Before(results[i], results[j], mode) <=> Pre(i, j)
  <2>1. F[i] = FreshnessRank(results[i], mode) /\ R[i] = -RelevanceScore(results[i])
        /\ Q[i] = Query(results[i])
    OBVIOUS
  <2>2. F[j] = FreshnessRank(results[j], mode) /\ R[j] = -RelevanceScore(results[j])
        /\ Q[j] = Query(results[j])
    OBVIOUS
  <2>3. results[i] \in Result /\ results[j] \in Result
    BY <1>1
  <2> HIDE DEF F, R, Q
  <2> QED BY <2>1, <2>2, <2>3, BeforeIsPrecedence
<1>4. /\ earlier \in [D -> SUBSET D]
      /\ \A i, j \in D : j \in earlier[i] <=> Pre(j, i) \/ (~Pre(i, j) /\ j < i)
  <2>1. earlier \in [D -> SUBSET D]
    OBVIOUS
  <2>2. \A i, j \in D : j \in earlier[i] <=> \/ Before(results[j], results[i], mode)
                                             \/ ~Before(results[i], results[j], mode) /\ j < i
    OBVIOUS
  <2> HIDE DEF earlier, D, Pre
  <2> QED BY <1>3, <2>1, <2>2
<1>5. Sorted(results, mode) = ByRank(results, earlier)
  BY DEF Sorted
<1>6. /\ \A i \in D : ~Pre(i, i)
      /\ \A i, j \in D : Pre(i, j) => ~Pre(j, i)
      /\ \A i, j, k \in D : ~Pre(j, i) /\ ~Pre(k, j) => ~Pre(k, i)
      /\ \A i, j, k \in D : ~Pre(j, i) /\ ~Pre(k, j) /\ (Pre(i, j) \/ Pre(j, k)) => Pre(i, k)
  <2> HIDE DEF D, F, R, Q
  <2>1. \A i, j \in D : ~Pre(i, i) /\ (Pre(i, j) => ~Pre(j, i))
    <3> SUFFICES ASSUME NEW i \in D, NEW j \in D PROVE ~Pre(i, i) /\ (Pre(i, j) => ~Pre(j, i))
      OBVIOUS
    <3> QED BY <1>2, PrecedesOneWay
  <2>2. ASSUME NEW i \in D, NEW j \in D, NEW k \in D, ~Pre(j, i), ~Pre(k, j)
        PROVE  ~Pre(k, i) /\ (Pre(i, j) \/ Pre(j, k) => Pre(i, k))
    BY <1>2, <2>2, PrecedesOnward
  <2> HIDE DEF Pre
  <2> QED BY <2>1, <2>2
<1> HIDE DEF earlier, Pre, F, R, Q
<1>7. \A i \in D : i \notin earlier[i]
  <2> HIDE DEF D
  <2> QED BY <1>1, <1>4, <1>6
<1>8. \A i, j \in D : i # j => i \in earlier[j] \/ j \in earlier[i]
  <2> HIDE DEF D
  <2> QED BY <1>1, <1>4, <1>6
<1>9. ASSUME NEW i \in D, NEW j \in D, j \in earlier[i] PROVE earlier[j] \subseteq earlier[i]
  <2> HIDE DEF D
  <2>1. ASSUME NEW k \in D, k \in earlier[j] PROVE k \in earlier[i]
    <3>1. i \in Int /\ j \in Int /\ k \in Int
      BY <1>1
    <3>2. ~Pre(i, j) /\ ~Pre(j, k)
      BY <1>4, <1>6, <1>9, <2>1
    <3>3. CASE Pre(k, j) \/ Pre(j, i)
      BY <1>4, <1>6, <3>2, <3>3
    <3>4. CASE ~(Pre(k, j) \/ Pre(j, i))
      <4>1. k < j /\ j < i
        BY <1>4, <1>9, <2>1, <3>4
      <4>2. k < i
        BY <3>1, <4>1
      <4>3. ~Pre(i, k)
        BY <1>6, <3>2
      <4> QED BY <1>4, <4>2, <4>3
    <3> QED BY <3>3, <3>4
  <2> QED BY <1>4, <2>1
<1>10. /\ ByRank(results, earlier) \in Seq(Result) /\ DOMAIN ByRank(results, earlier) = DOMAIN results
       /\ \E place : AreArranged(ByRank(results, earlier), place, results, earlier)
  <2>1. earlier \in [DOMAIN results -> SUBSET DOMAIN results]
    BY <1>4
  <2>2. \A i, j \in DOMAIN results : j \in earlier[i] => earlier[j] \subseteq earlier[i]
    BY <1>9
  <2>3. \A i \in DOMAIN results : i \notin earlier[i]
    BY <1>7
  <2>4. \A i, j \in DOMAIN results : i # j => i \in earlier[j] \/ j \in earlier[i]
    BY <1>8
  <2> HIDE DEF D
  <2> QED BY <2>1, <2>2, <2>3, <2>4, ByRankProperties
<1>11. PICK place : AreArranged(ByRank(results, earlier), place, results, earlier)
  BY <1>10
<1>12. AreRearranged(ByRank(results, earlier), place, results)
  BY <1>10, <1>11 DEF AreRearranged, AreArranged
<1> QED BY <1>5, <1>10, <1>12

\* Two results of a host come before a third, and none is lost.
LEMMA DiversifiedResults ==
  ASSUME NEW results \in Seq(Result)
  PROVE  /\ DiversifyByHostname(results) \in Seq(Result)
         /\ \E place : AreRearranged(DiversifyByHostname(results), place, results)
<1> DEFINE D == DOMAIN results
           early == {i \in D :
                  Cardinality({j \in 1..(i - 1) : Host[results[j].url] = Host[results[i].url]}) < 2}
           first == Those(results, early)
           rest == Those(results, D \ early)
           m == Len(first)
           n == Len(rest)
<1>1. DiversifyByHostname(results) = first \o rest
  BY DEF DiversifyByHostname
<1> HIDE DEF early
<1>2. first \in Seq(Result) /\ \E at : ArePicked(first, at, results, early)
  BY ThoseProperties
<1>3. rest \in Seq(Result) /\ \E at : ArePicked(rest, at, results, D \ early)
  BY ThoseProperties
<1> HIDE DEF first, rest, D
<1>4. PICK a : ArePicked(first, a, results, early)
  BY <1>2
<1>5. PICK b : ArePicked(rest, b, results, D \ early)
  BY <1>3
<1>6. /\ first \o rest \in Seq(Result) /\ m \in Nat /\ n \in Nat
      /\ DOMAIN first = 1..m /\ DOMAIN rest = 1..n
      /\ DOMAIN (first \o rest) = 1..(m + n)
      /\ \A i \in 1..(m + n) : (first \o rest)[i] = IF i <= m THEN first[i] ELSE rest[i - m]
  BY <1>2, <1>3, ConcatProperties
<1> DEFINE both == first \o rest
           place == [k \in 1..(m + n) |-> IF k <= m THEN a[k] ELSE b[k - m]]
<1> HIDE DEF m, n
<1>7. \A k \in 1..(m + n) : \/ k \in 1..m /\ k <= m
                            \/ k - m \in 1..n /\ ~(k <= m)
  BY <1>6
<1>8. /\ \A k \in 1..m : k \in 1..(m + n) /\ place[k] = a[k] /\ both[k] = first[k]
      /\ \A k \in 1..(m + n) : k \notin 1..m => place[k] = b[k - m] /\ both[k] = rest[k - m]
      /\ \A k \in 1..n : m + k \in 1..(m + n) /\ m + k - m = k /\ place[m + k] = b[k]
                         /\ both[m + k] = rest[k]
  <2>1. \A k \in 1..m : k \in 1..(m + n) /\ k <= m
    BY <1>6
  <2>2. \A k \in 1..n : m + k \in 1..(m + n) /\ m + k - m = k /\ ~(m + k <= m)
    BY <1>6
  <2>3. \A k \in 1..(m + n) : k \notin 1..m => ~(k <= m)
    BY <1>6
  <2> QED BY <1>6, <2>1, <2>2, <2>3
<1>9. /\ DOMAIN both = 1..(m + n) /\ DOMAIN place = 1..(m + n)
      /\ place = [k \in 1..(m + n) |-> place[k]]
  BY <1>6
<1> HIDE DEF both, place
<1>10. /\ \A k \in 1..m : a[k] \in D /\ a[k] \in early /\ first[k] = results[a[k]]
       /\ \A k \in 1..n : b[k] \in D /\ b[k] \notin early /\ rest[k] = results[b[k]]
  BY <1>4, <1>5, <1>6 DEF ArePicked, D
<1>11. /\ \A k, l \in 1..m : k # l => a[k] # a[l]
       /\ \A k, l \in 1..n : k # l => b[k] # b[l]
  <2>1. D \subseteq Int
    BY DEF D
  <2>2. ASSUME NEW k \in 1..m, NEW l \in 1..m, k # l PROVE a[k] # a[l]
    <3>1. a[k] \in Int /\ a[l] \in Int
      BY <1>10, <2>1
    <3>2. k < l \/ l < k
      BY <1>6, <2>2
    <3>3. (k < l => a[k] < a[l]) /\ (l < k => a[l] < a[k])
      BY <1>4, <1>6 DEF ArePicked
    <3> QED BY <3>1, <3>2, <3>3
  <2>3. ASSUME NEW k \in 1..n, NEW l \in 1..n, k # l PROVE b[k] # b[l]
    <3>1. b[k] \in Int /\ b[l] \in Int
      BY <1>10, <2>1
    <3>2. k < l \/ l < k
      BY <1>6, <2>3
    <3>3. (k < l => b[k] < b[l]) /\ (l < k => b[l] < b[k])
      BY <1>5, <1>6 DEF ArePicked
    <3> QED BY <3>1, <3>2, <3>3
  <2> QED BY <2>2, <2>3
<1>12. ASSUME NEW k \in 1..(m + n) PROVE place[k] \in D /\ both[k] = results[place[k]]
  BY <1>7, <1>8, <1>10
<1>13. place \in [DOMAIN both -> D]
  BY <1>9, <1>12
<1>14. ASSUME NEW k \in 1..(m + n), NEW l \in 1..(m + n), k # l PROVE place[k] # place[l]
  <2>1. CASE k \in 1..m /\ l \in 1..m
    BY <1>8, <1>11, <1>14, <2>1
  <2>2. CASE k \in 1..m /\ l \notin 1..m
    BY <1>7, <1>8, <1>10, <2>2
  <2>3. CASE k \notin 1..m /\ l \in 1..m
    BY <1>7, <1>8, <1>10, <2>3
  <2>4. CASE k \notin 1..m /\ l \notin 1..m
    <3>1. k - m # l - m
      BY <1>6, <1>14
    <3> QED BY <1>7, <1>8, <1>11, <2>4, <3>1
  <2> QED BY <2>1, <2>2, <2>3, <2>4
<1>15. ASSUME NEW i \in D PROVE \E k \in 1..(m + n) : place[k] = i
  <2>1. CASE i \in early
    <3>1. PICK k \in 1..m : a[k] = i
      BY <1>4, <1>6, <2>1 DEF ArePicked, D
    <3> QED BY <1>8, <3>1
  <2>2. CASE i \notin early
    <3>1. PICK k \in 1..n : b[k] = i
      BY <1>5, <1>6, <2>2 DEF ArePicked, D
    <3> QED BY <1>8, <3>1
  <2> QED BY <2>1, <2>2
<1>16. AreRearranged(both, place, results)
  BY <1>9, <1>12, <1>13, <1>14, <1>15 DEF AreRearranged, D
<1> QED BY <1>1, <1>6, <1>16 DEF both

-----------------------------------------------------------------------------
(* Merged.                                                                 *)

IsCanonical(results) == \A k \in DOMAIN results : Canonical[results[k].url] = results[k].url

HasNoDuplicates(results) ==
  \A k, l \in DOMAIN results : k # l => ~IsDuplicate(results[k], results[l])

\* What ranking leaves as it was.
LEMMA RearrangedResults ==
  ASSUME NEW old \in Seq(Result), NEW new \in Seq(Result), NEW place, AreRearranged(new, place, old)
  PROVE  /\ ToSet(new) = ToSet(old)
         /\ IsCanonical(old) => IsCanonical(new)
         /\ HasNoDuplicates(old) => HasNoDuplicates(new)
         /\ Total(CharsOf(new)) <= Total(CharsOf(old))
<1>1. /\ place \in [DOMAIN new -> DOMAIN old]
      /\ \A k \in DOMAIN new : new[k] = old[place[k]] /\ place[k] \in DOMAIN old
      /\ \A k, l \in DOMAIN new : k # l => place[k] # place[l]
      /\ \A i \in DOMAIN old : \E k \in DOMAIN new : place[k] = i
  BY DEF AreRearranged
<1>2. ToSet(new) = ToSet(old)
  <2>1. \A e \in ToSet(new) : e \in ToSet(old)
    BY <1>1 DEF ToSet
  <2>2. ASSUME NEW e \in ToSet(old) PROVE e \in ToSet(new)
    <3>1. PICK i \in DOMAIN old : old[i] = e
      BY <2>2 DEF ToSet
    <3>2. PICK k \in DOMAIN new : place[k] = i
      BY <1>1
    <3>3. new[k] = e
      BY <1>1, <3>1, <3>2
    <3> QED BY <3>3 DEF ToSet
  <2> QED BY <2>1, <2>2
<1>3. IsCanonical(old) => IsCanonical(new)
  BY <1>1 DEF IsCanonical
<1>4. HasNoDuplicates(old) => HasNoDuplicates(new)
  BY <1>1 DEF HasNoDuplicates
<1>5. Total(CharsOf(new)) <= Total(CharsOf(old))
  <2>1. \A k \in DOMAIN new : HasPage(new[k]) =>
          place[k] \in DOMAIN old /\ old[place[k]].chars = new[k].chars
    BY <1>1
  <2>2. \A k, l \in DOMAIN new : HasPage(new[k]) /\ HasPage(new[l]) /\ k # l => place[k] # place[l]
    BY <1>1
  <2> QED BY <2>1, <2>2, NoMoreChars
<1> QED BY <1>2, <1>3, <1>4, <1>5

\* What deduplication keeps.
LEMMA DeduplicatedProperties ==
  ASSUME NEW results \in Seq(Result)
  PROVE  LET unique == DeduplicateQualityResults(results)
         IN  /\ unique \in Seq(Result) /\ IsCanonical(unique) /\ HasNoDuplicates(unique)
             /\ Total(CharsOf(unique)) <= Total(CharsOf(results))
             /\ \A i \in DOMAIN results :
                  /\ Canonical[results[i].url] = results[i].url
                  /\ \A j \in 1..(i - 1) : ~IsDuplicate(results[j], results[i])
                  => results[i] \in ToSet(unique)
<1> DEFINE unique == DeduplicateQualityResults(results)
<1>1. unique \in Seq(Result) /\ \E at : AreDeduplicated(unique, at, results, Len(results))
  BY DeduplicatedResults
<1> HIDE DEF unique
<1>2. PICK at : AreDeduplicated(unique, at, results, Len(results))
  BY <1>1
<1>3. DOMAIN results = 1..Len(results) /\ Len(results) \in Nat /\ DOMAIN unique \subseteq Int
  BY <1>1
<1>4. \A k \in DOMAIN unique : /\ at[k] \in DOMAIN results /\ results[at[k]] \in Result
                               /\ unique[k] = AsCanonical(results[at[k]])
  BY <1>2, <1>3 DEF AreDeduplicated
<1>5. \A k, l \in DOMAIN unique : k # l => at[k] # at[l]
  <2> SUFFICES ASSUME NEW k \in DOMAIN unique, NEW l \in DOMAIN unique, k # l PROVE at[k] # at[l]
    OBVIOUS
  <2>1. k < l \/ l < k
    BY <1>3
  <2>2. at[k] \in Int /\ at[l] \in Int
    BY <1>3, <1>4
  <2>3. (k < l => at[k] < at[l]) /\ (l < k => at[l] < at[k])
    BY <1>2 DEF AreDeduplicated
  <2> QED BY <2>1, <2>2, <2>3
<1>6. IsCanonical(unique)
  BY <1>4, CanonicalResult DEF IsCanonical
<1>7. HasNoDuplicates(unique)
  BY <1>2 DEF HasNoDuplicates, AreDeduplicated
<1>8. Total(CharsOf(unique)) <= Total(CharsOf(results))
  <2>1. \A k \in DOMAIN unique : HasPage(unique[k]) =>
          at[k] \in DOMAIN results /\ results[at[k]].chars = unique[k].chars
    BY <1>4, CanonicalResult
  <2> QED BY <1>1, <1>5, <2>1, NoMoreChars
<1>9. ASSUME NEW i \in DOMAIN results, Canonical[results[i].url] = results[i].url,
             \A j \in 1..(i - 1) : ~IsDuplicate(results[j], results[i])
      PROVE  results[i] \in ToSet(unique)
  <2>1. PICK k \in DOMAIN unique : at[k] = i
    BY <1>2, <1>3, <1>9 DEF AreDeduplicated
  <2>2. unique[k] = results[i]
    BY <1>4, <1>9, <2>1, CanonicalResult
  <2> QED BY <2>2 DEF ToSet
<1> QED BY <1>1, <1>6, <1>7, <1>8, <1>9 DEF unique

\* Ranking deduplicates, and loses nothing more.
LEMMA RankedProperties ==
  ASSUME NEW results \in Seq(Result), NEW mode
  PROVE  LET ranked == RankWebSearchResults(results, mode)
             unique == DeduplicateQualityResults(results)
         IN  /\ ranked \in Seq(Result) /\ IsCanonical(ranked) /\ HasNoDuplicates(ranked)
             /\ Total(CharsOf(ranked)) <= Total(CharsOf(results))
             /\ ToSet(ranked) = ToSet(unique)
<1> DEFINE unique == DeduplicateQualityResults(results)
           sorted == Sorted(unique, mode)
           ranked == DiversifyByHostname(sorted)
<1>1. RankWebSearchResults(results, mode) = ranked
  BY DEF RankWebSearchResults
<1>2. /\ unique \in Seq(Result) /\ IsCanonical(unique) /\ HasNoDuplicates(unique)
      /\ Total(CharsOf(unique)) <= Total(CharsOf(results))
  BY DeduplicatedProperties
<1> HIDE DEF unique
<1>3. sorted \in Seq(Result) /\ \E place : AreRearranged(sorted, place, unique)
  BY <1>2, SortedResults
<1> HIDE DEF sorted
<1>4. ranked \in Seq(Result) /\ \E place : AreRearranged(ranked, place, sorted)
  BY <1>3, DiversifiedResults
<1> HIDE DEF ranked
<1>5. /\ ToSet(sorted) = ToSet(unique) /\ IsCanonical(sorted) /\ HasNoDuplicates(sorted)
      /\ Total(CharsOf(sorted)) <= Total(CharsOf(unique))
  BY <1>2, <1>3, RearrangedResults
<1>6. /\ ToSet(ranked) = ToSet(sorted) /\ IsCanonical(ranked) /\ HasNoDuplicates(ranked)
      /\ Total(CharsOf(ranked)) <= Total(CharsOf(sorted))
  BY <1>3, <1>4, <1>5, RearrangedResults
<1>7. /\ Total(CharsOf(results)) \in Int /\ Total(CharsOf(unique)) \in Int
      /\ Total(CharsOf(sorted)) \in Int /\ Total(CharsOf(ranked)) \in Int
  BY <1>2, <1>3, <1>4, CharsAreNumbers, TotalIsNumber
<1>8. Total(CharsOf(ranked)) <= Total(CharsOf(results))
  BY <1>2, <1>5, <1>6, <1>7
<1> QED BY <1>1, <1>4, <1>5, <1>6, <1>8 DEF unique

\* Joining the results of a retry to those held keeps these and adds no page text.
LEMMA MergedResults ==
  ASSUME NEW held \in Seq(Result), NEW more \in Seq(Result), NEW mode,
         IsCanonical(held), HasNoDuplicates(held), IsBare(more)
  PROVE  LET merged == RankWebSearchResults(NormalizeWebSearchResults(held \o more), mode)
         IN  /\ merged \in Seq(Result) /\ IsCanonical(merged) /\ HasNoDuplicates(merged)
             /\ Total(CharsOf(merged)) <= Total(CharsOf(held))
             /\ ToSet(held) \subseteq ToSet(merged)
<1> DEFINE both == held \o more
           m == Len(held)
           first == NormalizeWebSearchResults(both)
           unique == DeduplicateQualityResults(first)
           merged == RankWebSearchResults(first, mode)
<1>1. /\ both \in Seq(Result) /\ m \in Nat /\ Len(more) \in Nat
      /\ DOMAIN held = 1..m /\ DOMAIN more = 1..Len(more)
      /\ DOMAIN both = 1..(m + Len(more))
      /\ \A i \in 1..(m + Len(more)) : both[i] = IF i <= m THEN held[i] ELSE more[i - m]
  BY ConcatProperties
<1> HIDE DEF both
<1>2. first \in Seq(Result) /\ \E at : ArePicked(first, at, both, FirstPlaces(both))
  BY <1>1, NormalizedResults
<1> HIDE DEF first, m
<1>3. PICK at : ArePicked(first, at, both, FirstPlaces(both))
  BY <1>2
<1>4. /\ merged \in Seq(Result) /\ IsCanonical(merged) /\ HasNoDuplicates(merged)
      /\ Total(CharsOf(merged)) <= Total(CharsOf(first))
      /\ ToSet(merged) = ToSet(unique)
  BY <1>2, RankedProperties
<1> HIDE DEF merged
<1>5. \A i \in 1..m : i \in DOMAIN both /\ both[i] = held[i] /\ i \in DOMAIN held
  BY <1>1
<1>6. ASSUME NEW i \in DOMAIN both, HasPage(both[i]) PROVE i \in DOMAIN held /\ held[i] = both[i]
  <2>1. CASE i <= m
    BY <1>1, <2>1
  <2>2. CASE ~(i <= m)
    <3>1. i - m \in DOMAIN more /\ both[i] = more[i - m]
      BY <1>1, <2>2
    <3> QED BY <1>6, <3>1 DEF IsBare, HasPage
  <2> QED BY <2>1, <2>2
<1>7. \A k \in DOMAIN first : at[k] \in DOMAIN both /\ first[k] = both[at[k]]
  BY <1>3 DEF ArePicked
<1>8. \A k, l \in DOMAIN first : k # l => at[k] # at[l]
  <2> SUFFICES ASSUME NEW k \in DOMAIN first, NEW l \in DOMAIN first, k # l PROVE at[k] # at[l]
    OBVIOUS
  <2>1. k < l \/ l < k
    BY <1>2
  <2>2. at[k] \in Int /\ at[l] \in Int
    BY <1>1, <1>7
  <2>3. (k < l => at[k] < at[l]) /\ (l < k => at[l] < at[k])
    BY <1>3 DEF ArePicked
  <2> QED BY <2>1, <2>2, <2>3
<1>9. Total(CharsOf(first)) <= Total(CharsOf(held))
  <2>1. \A k \in DOMAIN first : HasPage(first[k]) =>
          at[k] \in DOMAIN held /\ held[at[k]].chars = first[k].chars
    BY <1>6, <1>7
  <2> QED BY <1>2, <1>8, <2>1, NoMoreChars
<1>10. Total(CharsOf(merged)) <= Total(CharsOf(held))
  <2>1. /\ Total(CharsOf(merged)) \in Int /\ Total(CharsOf(first)) \in Int
        /\ Total(CharsOf(held)) \in Int
    BY <1>2, <1>4, CharsAreNumbers, TotalIsNumber
  <2> QED BY <1>4, <1>9, <2>1
<1>11. ASSUME NEW i \in 1..m PROVE held[i] \in ToSet(unique)
  <2>1. \A j \in 1..(i - 1) : j \in 1..m /\ j # i /\ j < i
    BY <1>1
  <2>2. \A j \in 1..(i - 1) : ~IsDuplicate(held[j], held[i])
    BY <1>1, <2>1 DEF HasNoDuplicates
  <2>3. i \in FirstPlaces(both)
    <3>1. \A j \in 1..(i - 1) : both[j].url # both[i].url
      BY <1>5, <2>1, <2>2 DEF IsDuplicate
    <3> QED BY <1>5, <3>1 DEF FirstPlaces
  <2>4. PICK k \in DOMAIN first : at[k] = i
    BY <1>3, <1>5, <2>3 DEF ArePicked
  <2>5. first[k] = held[i]
    BY <1>5, <1>7, <2>4
  <2>6. Canonical[first[k].url] = first[k].url
    BY <1>5, <2>5 DEF IsCanonical
  <2>7. ASSUME NEW j \in 1..(k - 1) PROVE ~IsDuplicate(first[j], first[k])
    <3>1. j \in DOMAIN first /\ j < k
      BY <1>2, <2>4
    <3>2. at[j] < i /\ at[j] \in DOMAIN both
      BY <1>3, <1>7, <2>4, <3>1 DEF ArePicked
    <3>3. at[j] \in 1..(i - 1)
      BY <1>1, <3>2
    <3>4. first[j] = held[at[j]]
      BY <1>5, <1>7, <2>1, <3>1, <3>3
    <3> QED BY <2>2, <2>5, <3>3, <3>4
  <2>8. first[k] \in ToSet(unique)
    <3> HIDE DEF unique
    <3> QED BY <1>2, <2>6, <2>7, DeduplicatedProperties DEF unique
  <2> QED BY <2>5, <2>8
<1>12. ToSet(held) \subseteq ToSet(merged)
  <2>1. \A e \in ToSet(held) : \E i \in 1..m : held[i] = e
    BY <1>1 DEF ToSet
  <2> HIDE DEF unique
  <2> QED BY <1>4, <1>11, <2>1
<1> QED BY <1>4, <1>10, <1>12 DEF merged, first, both

-----------------------------------------------------------------------------
(* Enriched with page text, and cut to the prompt section.                 *)

\* Only results without page text are fetched.
LEMMA CandidateResults ==
  ASSUME NEW results \in Seq(Result)
  PROVE  \A c \in 1..Len(PageCandidates(results)) :
           /\ PageCandidates(results)[c] \in DOMAIN results
           /\ ~HasPage(results[PageCandidates(results)[c]])
<1> DEFINE D == DOMAIN results
           missing == {i \in D : ~HasPage(results[i])}
           new == {i \in D : results[i].round = 2}
           indices == [i \in D |-> i]
           first == Those(indices, missing \cap new)
           rest == Those(indices, missing \ new)
           order == first \o rest
<1>1. PageCandidates(results) = SubSeq(order, 1, Least(Len(order), MaxPages))
  BY DEF PageCandidates
<1>2. indices \in Seq(D) /\ DOMAIN indices = D /\ \A i \in D : indices[i] = i
  <2>1. D = 1..Len(results) /\ Len(results) \in Nat
    OBVIOUS
  <2> QED BY <2>1
<1> HIDE DEF indices, D, new
<1>3. ASSUME NEW places, places \subseteq missing PROVE Those(indices, places) \in Seq(missing)
  <2> HIDE DEF missing
  <2> DEFINE some == Those(indices, places)
  <2>1. some \in Seq(D) /\ \E at : ArePicked(some, at, indices, places)
    BY <1>2, ThoseProperties
  <2> HIDE DEF some
  <2>2. ToSet(some) \subseteq missing
    BY <1>2, <1>3, <2>1 DEF ArePicked, ToSet
  <2>3. some \in Seq(missing)
    BY <2>1, <2>2, OverItsParts
  <2> QED BY <2>3 DEF some
<1>4. first \in Seq(missing) /\ rest \in Seq(missing)
  BY <1>3
<1> HIDE DEF first, rest
<1>5. order \in Seq(missing) /\ Len(order) \in Nat
  <2> HIDE DEF missing
  <2>1. order \in Seq(missing)
    BY <1>4, JoinedParts
  <2> QED BY <2>1
<1> HIDE DEF order
<1>6. Least(Len(order), MaxPages) \in 0..Len(order)
  BY <1>5, LeastOf, ResultAssumption
<1>7. PageCandidates(results) \in Seq(missing)
  <2> HIDE DEF missing
  <2> QED BY <1>1, <1>5, <1>6, StartParts
<1>8. \A c \in 1..Len(PageCandidates(results)) : PageCandidates(results)[c] \in missing
  <2> HIDE DEF missing
  <2> QED BY <1>7
<1> QED BY <1>8 DEF D

\* A page holds no more text than is kept of one.
LEMMA FetchedPage ==
  ASSUME NEW start \in Urls
  PROVE  FetchWebPage(start) \in 0..PageChars
<1> DEFINE Hop(before, u, hops) ==
             IF ~ValidatePageFetchUrl(u) THEN 0
             ELSE IF u \notin DOMAIN Redirect THEN PageText(u)
             ELSE IF hops = 0 THEN 0 ELSE before[Redirect[u]]
           IsFetch(f) == f = [hops \in 0..MaxRedirects |-> [u \in Urls |-> Hop(f[hops - 1], u, hops)]]
           fetch == CHOOSE f : IsFetch(f)
           T == [Urls -> 0..PageChars]
           N == MaxRedirects
<1>0. N \in Nat /\ PageChars \in Nat /\ \A u \in DOMAIN Redirect : Redirect[u] \in Urls
  BY ResultAssumption
<1>1. ASSUME NEW before, NEW u \in Urls, NEW hops, hops # 0 => before \in T
      PROVE  Hop(before, u, hops) \in 0..PageChars
  BY <1>0, <1>1 DEF PageText
<1>2. \E f : IsFetch(f)
  <2> DEFINE none == [u \in Urls |-> 0]
             base == [u \in Urls |-> Hop(none, u, 0)]
             step == [n \in 1..N |-> [s \in T |-> [u \in Urls |-> Hop(s, u, n)]]]
  <2>0. none \in T
    BY <1>0
  <2> HIDE DEF Hop, none, T
  <2>1. base \in T
    BY <1>1, <2>0 DEF T
  <2>2. \A n \in 1..N, s \in T : [u \in Urls |-> Hop(s, u, n)] \in T
    BY <1>1 DEF T
  <2>3. step \in [1..N -> [T -> T]]
    BY <2>2
  <2>4. PICK f \in [0..N -> T] : f[0] = base /\ \A n \in 1..N : f[n] = step[n][f[n - 1]]
    <3> HIDE DEF step, N, base, IsFetch
    <3>1. \E f \in [0..N -> T] : FollowsSteps(f, base, step, N)
      BY <1>0, <2>1, <2>3, Recursion
    <3> QED BY <3>1 DEF FollowsSteps
  <2>5. ASSUME NEW n \in 1..N PROVE f[n] = [u \in Urls |-> Hop(f[n - 1], u, n)]
    <3>1. f[n - 1] \in T
      BY <1>0
    <3> QED BY <2>4, <3>1
  <2>6. \A u \in Urls : Hop(none, u, 0) = Hop(f[0 - 1], u, 0)
    BY DEF Hop
  <2>7. f[0] = [u \in Urls |-> Hop(f[0 - 1], u, 0)]
    BY <2>4, <2>6
  <2>8. f = [n \in 0..N |-> f[n]]
    OBVIOUS
  <2>9. \A n \in 0..N : f[n] = [u \in Urls |-> Hop(f[n - 1], u, n)]
    <3>1. \A n \in 0..N : n = 0 \/ n \in 1..N
      BY <1>0
    <3> HIDE DEF N
    <3> QED BY <2>5, <2>7, <3>1
  <2>10. IsFetch(f)
    <3>1. f = [n \in 0..N |-> [u \in Urls |-> Hop(f[n - 1], u, n)]]
      <4> HIDE DEF N, IsFetch
      <4> QED BY <2>8, <2>9
    <3> QED BY <3>1
  <2> QED BY <2>10
<1>3. IsFetch(fetch)
  <2> HIDE DEF IsFetch
  <2> QED BY <1>2
<1>4. FetchWebPage(start) = fetch[N][start]
  BY DEF FetchWebPage
<1>5. \A n \in 0..N : fetch[n] = [u \in Urls |-> Hop(fetch[n - 1], u, n)]
  <2> HIDE DEF fetch, Hop
  <2>1. fetch = [n \in 0..N |-> [u \in Urls |-> Hop(fetch[n - 1], u, n)]]
    BY <1>3
  <2> HIDE DEF IsFetch, N
  <2> QED BY <2>1
<1> HIDE DEF fetch, IsFetch, Hop
<1> DEFINE Good == {n \in 0..N : fetch[n] \in T}
<1>6. 0 \in Good
  <2>1. 0 \in 0..N
    BY <1>0
  <2>2. fetch[0] = [u \in Urls |-> Hop(fetch[0 - 1], u, 0)]
    BY <1>5, <2>1
  <2>3. \A u \in Urls : Hop(fetch[0 - 1], u, 0) \in 0..PageChars
    <3> HIDE DEF T
    <3> QED BY <1>1
  <2>4. fetch[0] \in T
    BY <2>2, <2>3
  <2> HIDE DEF T
  <2> QED BY <2>1, <2>4
<1>7. ASSUME NEW n \in 1..N, n - 1 \in Good PROVE n \in Good
  <2>1. n \in 0..N /\ fetch[n - 1] \in T
    BY <1>0, <1>7
  <2>2. fetch[n] = [u \in Urls |-> Hop(fetch[n - 1], u, n)]
    BY <1>5, <2>1
  <2>3. \A u \in Urls : Hop(fetch[n - 1], u, n) \in 0..PageChars
    <3> HIDE DEF T
    <3> QED BY <1>1, <2>1
  <2>4. fetch[n] \in T
    BY <2>2, <2>3
  <2> HIDE DEF T
  <2> QED BY <2>1, <2>4
<1>8. N \in Good
  <2> HIDE DEF Good, N
  <2>1. \A n \in 0..N : n \in Good
    BY <1>0, <1>6, <1>7, StepByStep
  <2> QED BY <1>0, <2>1
<1>9. fetch[N][start] \in 0..PageChars
  BY <1>8
<1> QED BY <1>4, <1>9

\* One size more, as far as there is room.
LEMMA OneSizeMore ==
  ASSUME NEW t \in Nat, NEW s \in Nat, NEW room \in Nat, t <= room
  PROVE  /\ Least(t + s, room) \in Nat /\ Least(t + s, room) <= room
         /\ Least(t + s, room) - t \in 0..s
BY DEF Least

LEMMA CappedSums ==
  ASSUME NEW numbers \in Seq(Nat), NEW room \in Nat
  PROVE  \E f \in [0..Len(numbers) -> Nat] :
           f[0] = 0 /\ \A n \in 1..Len(numbers) : f[n] = Least(f[n - 1] + numbers[n], room)
<1> DEFINE N == Len(numbers)
           T == Nat
           base == 0
           step == [n \in 1..N |-> [t \in T |-> Least(t + numbers[n], room)]]
<1>0. N \in Nat /\ \A n \in 1..N : numbers[n] \in Nat
  OBVIOUS
<1>1. step \in [1..N -> [T -> T]] /\ base \in T
  <2>1. \A n \in 1..N, t \in T : Least(t + numbers[n], room) \in T
    BY <1>0 DEF Least
  <2> HIDE DEF T, N
  <2>2. step \in [1..N -> [T -> T]]
    BY <2>1
  <2> QED BY <2>2 DEF T
<1>2. PICK f \in [0..N -> T] : f[0] = base /\ \A n \in 1..N : f[n] = step[n][f[n - 1]]
  <2>1. N \in Nat
    BY <1>0
  <2> HIDE DEF step, T, base, N
  <2>2. \E f \in [0..N -> T] : FollowsSteps(f, base, step, N)
    BY <1>1, <2>1, Recursion
  <2> QED BY <2>2 DEF FollowsSteps
<1>3. ASSUME NEW n \in 1..N PROVE f[n] = Least(f[n - 1] + numbers[n], room)
  <2> HIDE DEF T
  <2>1. f[n - 1] \in T
    BY <1>0, SMTT(20)
  <2> QED BY <1>2, <2>1
<1> QED BY <1>2, <1>3

\* Item n of `more` is that of `results` with page text of its own or, where it has no page,
\* with what taken[n] adds to taken[n - 1].
AddsPages(more, taken, results) ==
  /\ taken \in [0..Len(results) -> Nat] /\ taken[0] = 0
  /\ Total(CharsOf(results)) + taken[Len(results)] <= MaxTotalChars
  /\ DOMAIN more = DOMAIN results
  /\ \A n \in DOMAIN results :
       /\ taken[n] - taken[n - 1] \in 0..PageChars
       /\ HasPage(results[n]) => taken[n] = taken[n - 1]
       /\ more[n] = [results[n] EXCEPT !.chars = @ + (taken[n] - taken[n - 1])]

LEMMA PagesAdded ==
  ASSUME NEW results \in Seq(Result), NEW finished \in SUBSET (1..Len(PageCandidates(results))),
         Total(CharsOf(results)) <= MaxTotalChars
  PROVE  \E taken : AddsPages(EnrichWebSearchResults(results, finished), taken, results)
<1> DEFINE N == Len(results)
           fetched == {PageCandidates(results)[c] : c \in finished}
           size(i) == IF i \in fetched THEN FetchWebPage(results[i].url) ELSE 0
           held == Total([i \in DOMAIN results |-> results[i].chars])
           room == IF held < MaxTotalChars THEN MaxTotalChars - held ELSE 0
           IsTaken(f) == f = [n \in 0..N |-> IF n = 0 THEN 0 ELSE Least(f[n - 1] + size(n), room)]
           taken == CHOOSE f : IsTaken(f)
           more == EnrichWebSearchResults(results, finished)
<1>0. N \in Nat /\ DOMAIN results = 1..N /\ \A n \in 1..N : results[n] \in Result
  OBVIOUS
<1>1. /\ held = Total(CharsOf(results)) /\ held \in Nat /\ room \in Nat /\ MaxTotalChars \in Nat
      /\ held + room = MaxTotalChars
  <2>1. held = Total(CharsOf(results))
    BY DEF CharsOf
  <2>2. held \in Nat
    <3>1. CharsOf(results) \in Seq(Nat)
      BY CharsAreNumbers
    <3> HIDE DEF held
    <3> QED BY <2>1, <3>1, TotalIsNumber
  <2>3. MaxTotalChars \in Nat
    BY ResultAssumption
  <2> HIDE DEF held
  <2> QED BY <2>1, <2>2, <2>3
<1>2. \A i \in fetched : i \in 1..N /\ ~HasPage(results[i])
  BY CandidateResults, <1>0
<1>3. ASSUME NEW n \in 1..N PROVE size(n) \in 0..PageChars /\ (HasPage(results[n]) => size(n) = 0)
  <2>1. results[n].url \in Urls /\ PageChars \in Nat
    BY <1>0, ResultAssumption DEF Result
  <2>2. FetchWebPage(results[n].url) \in 0..PageChars
    BY <2>1, FetchedPage
  <2> HIDE DEF fetched
  <2> QED BY <1>2, <2>1, <2>2
<1>4. more = [i \in DOMAIN results |->
                [results[i] EXCEPT !.chars = @ + (taken[i] - taken[i - 1])]]
  BY DEF EnrichWebSearchResults
<1>5. PageChars \in Nat /\ \A n \in 1..N : size(n) \in Nat
  <2>1. PageChars \in Nat
    BY ResultAssumption
  <2> HIDE DEF size, N
  <2> QED BY <1>3, <2>1
<1> HIDE DEF size, room, held, more
<1>6. \E f : IsTaken(f)
  <2> DEFINE sizes == [n \in 1..N |-> size(n)]
  <2>1. sizes \in Seq(Nat) /\ Len(sizes) = N /\ \A n \in 1..N : sizes[n] = size(n)
    <3>1. sizes \in [1..N -> Nat] /\ \A n \in 1..N : sizes[n] = size(n)
      BY <1>5
    <3> HIDE DEF sizes, N
    <3> QED BY <1>0, <3>1
  <2> HIDE DEF sizes, N
  <2>2. PICK f \in [0..N -> Nat] :
          f[0] = 0 /\ \A n \in 1..N : f[n] = Least(f[n - 1] + sizes[n], room)
    BY <1>0, <1>1, <2>1, CappedSums
  <2>3. f = [n \in 0..N |-> f[n]]
    OBVIOUS
  <2>4. \A n \in 0..N : f[n] = IF n = 0 THEN 0 ELSE Least(f[n - 1] + size(n), room)
    BY <1>0, <2>1, <2>2
  <2>5. f = [n \in 0..N |-> IF n = 0 THEN 0 ELSE Least(f[n - 1] + size(n), room)]
    <3> HIDE DEF IsTaken
    <3> QED BY <2>3, <2>4
  <2> QED BY <2>5 DEF N
<1>7. IsTaken(taken)
  <2> HIDE DEF IsTaken
  <2> QED BY <1>6
<1>8. /\ DOMAIN taken = 0..N /\ taken = [n \in 0..N |-> taken[n]] /\ taken[0] = 0
      /\ \A n \in 1..N : taken[n] = Least(taken[n - 1] + size(n), room)
  <2> HIDE DEF taken
  <2>1. taken = [n \in 0..N |-> IF n = 0 THEN 0 ELSE Least(taken[n - 1] + size(n), room)]
    BY <1>7
  <2> HIDE DEF IsTaken, N
  <2>2. 0 \in 0..N /\ \A n \in 1..N : n \in 0..N /\ n # 0
    BY <1>0
  <2>3. DOMAIN taken = 0..N
    BY <2>1
  <2> QED BY <2>1, <2>2, <2>3
<1> HIDE DEF taken, IsTaken
<1> DEFINE Good == {n \in 0..N : taken[n] \in Nat /\ taken[n] <= room}
<1>9. \A n \in 0..N : n \in Good
  <2>1. 0 \in Good
    BY <1>0, <1>1, <1>8
  <2>2. ASSUME NEW n \in 1..N, n - 1 \in Good PROVE n \in Good
    <3>1. taken[n - 1] \in Nat /\ taken[n - 1] <= room /\ n \in 0..N
      BY <1>0, <2>2
    <3>2. Least(taken[n - 1] + size(n), room) \in Nat /\ Least(taken[n - 1] + size(n), room) <= room
      BY <1>1, <1>5, <3>1, OneSizeMore
    <3> QED BY <1>8, <3>1, <3>2
  <2> HIDE DEF Good
  <2> QED BY <1>0, <2>1, <2>2, StepByStep
<1>10. taken \in [0..N -> Nat]
  BY <1>8, <1>9
<1>11. ASSUME NEW n \in 1..N
       PROVE  /\ taken[n] - taken[n - 1] \in 0..PageChars
              /\ HasPage(results[n]) => taken[n] = taken[n - 1]
  <2>1. /\ taken[n - 1] \in Nat /\ taken[n - 1] <= room /\ taken[n] \in Nat
    <3>1. n - 1 \in 0..N /\ n \in 0..N
      BY <1>0
    <3> QED BY <1>9, <3>1
  <2>2. taken[n] - taken[n - 1] \in 0..size(n)
    BY <1>1, <1>5, <1>8, <2>1, OneSizeMore
  <2>3. taken[n] - taken[n - 1] \in 0..PageChars
    BY <1>3, <1>5, <2>2
  <2>4. size(n) = 0 => taken[n] = taken[n - 1]
    BY <2>1, <2>2
  <2> QED BY <1>3, <2>3, <2>4
<1>12. held + taken[N] <= MaxTotalChars
  <2>1. taken[N] \in Nat /\ taken[N] <= room
    BY <1>0, <1>9
  <2> QED BY <1>1, <2>1
<1>13. DOMAIN more = DOMAIN results
  BY <1>4
<1>14. AddsPages(more, taken, results)
  <2>1. \A n \in DOMAIN results :
          more[n] = [results[n] EXCEPT !.chars = @ + (taken[n] - taken[n - 1])]
    BY <1>4
  <2> HIDE DEF N
  <2> QED BY <1>0, <1>1, <1>8, <1>10, <1>11, <1>12, <1>13, <2>1 DEF AddsPages, N
<1> QED BY <1>14 DEF more

\* A result with more page text is the same result.
LEMMA MorePageText ==
  ASSUME NEW r \in Result, NEW m, m \in 0..PageChars, HasPage(r) => m = 0
  PROVE  LET q == [r EXCEPT !.chars = @ + m]
         IN  /\ q \in Result /\ q.chars = r.chars + m /\ r.chars \in Nat /\ q.chars \in Nat
             /\ q.url = r.url /\ q.title = r.title
             /\ HasPage(r) => q = r
<1>1. r.chars \in 0..PageChars /\ PageChars \in Nat
  BY ResultAssumption DEF Result
<1>2. r.chars + m \in 0..PageChars
  BY <1>1 DEF HasPage
<1>3. m \in Nat
  BY <1>1
<1> DEFINE q == [r EXCEPT !.chars = @ + m]
<1>4. q = [url |-> r.url, title |-> r.title, origin |-> r.origin, round |-> r.round,
           chars |-> r.chars + m]
  BY DEF Result
<1>5. q \in Result
  BY <1>2, <1>4 DEF Result
<1>6. HasPage(r) => q = r
  BY <1>1 DEF Result
<1> QED BY <1>1, <1>2, <1>4, <1>5, <1>6

\* Enrichment leaves pages, addresses and titles alone and keeps to the total.
LEMMA EnrichedResults ==
  ASSUME NEW results \in Seq(Result), NEW finished \in SUBSET (1..Len(PageCandidates(results))),
         Total(CharsOf(results)) <= MaxTotalChars
  PROVE  LET more == EnrichWebSearchResults(results, finished)
         IN  /\ more \in Seq(Result) /\ Total(CharsOf(more)) <= MaxTotalChars
             /\ IsCanonical(results) => IsCanonical(more)
             /\ HasNoDuplicates(results) => HasNoDuplicates(more)
             /\ \A k \in DOMAIN results : HasPage(results[k]) => results[k] \in ToSet(more)
<1> DEFINE N == Len(results)
           more == EnrichWebSearchResults(results, finished)
<1>0. N \in Nat /\ DOMAIN results = 1..N /\ \A n \in 1..N : results[n] \in Result
  OBVIOUS
<1>1. PICK taken : AddsPages(more, taken, results)
  BY PagesAdded
<1>2. DOMAIN more = 1..N /\ more = [n \in 1..N |-> more[n]]
  <2>1. DOMAIN more = 1..N
    BY <1>0, <1>1 DEF AddsPages
  <2>2. more = [i \in DOMAIN more |-> more[i]]
    BY DEF EnrichWebSearchResults
  <2> HIDE DEF more
  <2> QED BY <2>1, <2>2
<1> HIDE DEF more
<1> DEFINE gain == [n \in 1..N |-> taken[n] - taken[n - 1]]
<1>3. ASSUME NEW n \in 1..N
      PROVE  /\ gain[n] \in 0..PageChars /\ gain[n] = taken[n] - taken[n - 1]
             /\ HasPage(results[n]) => gain[n] = 0
             /\ more[n] = [results[n] EXCEPT !.chars = @ + gain[n]]
             /\ taken[n] \in Nat /\ taken[n - 1] \in Nat
  <2>1. taken[n] \in Nat /\ taken[n - 1] \in Nat
    <3>1. n \in 0..N /\ n - 1 \in 0..N
      BY <1>0
    <3> QED BY <1>1, <3>1 DEF AddsPages
  <2>2. /\ taken[n] - taken[n - 1] \in 0..PageChars
        /\ HasPage(results[n]) => taken[n] = taken[n - 1]
        /\ more[n] = [results[n] EXCEPT !.chars = @ + (taken[n] - taken[n - 1])]
    BY <1>0, <1>1 DEF AddsPages
  <2> QED BY <2>1, <2>2
<1> HIDE DEF gain
<1>4. ASSUME NEW n \in 1..N
      PROVE  /\ more[n] \in Result /\ more[n].chars = results[n].chars + gain[n]
             /\ more[n].url = results[n].url /\ more[n].title = results[n].title
             /\ HasPage(results[n]) => more[n] = results[n]
  <2> DEFINE r == results[n]
             m == gain[n]
  <2>1. /\ r \in Result /\ m \in 0..PageChars /\ (HasPage(r) => m = 0)
        /\ more[n] = [r EXCEPT !.chars = @ + m]
    BY <1>0, <1>3
  <2> HIDE DEF r, m
  <2>2. /\ more[n] \in Result /\ more[n].chars = r.chars + m
        /\ more[n].url = r.url /\ more[n].title = r.title
        /\ HasPage(r) => more[n] = r
    BY <2>1, MorePageText
  <2> QED BY <2>2 DEF r, m
<1>5. more \in Seq(Result)
  <2> HIDE DEF N
  <2>1. more \in [1..N -> Result]
    BY <1>2, <1>4
  <2> QED BY <1>0, <2>1
<1>6. IsCanonical(results) => IsCanonical(more)
  BY <1>0, <1>2, <1>4 DEF IsCanonical
<1>7. HasNoDuplicates(results) => HasNoDuplicates(more)
  BY <1>0, <1>2, <1>4 DEF HasNoDuplicates, IsDuplicate
<1>8. \A k \in DOMAIN results : HasPage(results[k]) => results[k] \in ToSet(more)
  BY <1>0, <1>2, <1>4 DEF ToSet
<1>9. Total(CharsOf(more)) <= MaxTotalChars
  <2> DEFINE ns == CharsOf(results)
             ms == CharsOf(more)
  <2>1. ns \in Seq(Nat) /\ Len(ns) = N /\ \A n \in 1..N : ns[n] = results[n].chars
    <3>1. ns \in Seq(Nat) /\ DOMAIN ns = 1..N /\ \A n \in 1..N : ns[n] = results[n].chars
      BY <1>0, CharsAreNumbers
    <3> HIDE DEF ns
    <3> QED BY <1>0, <3>1
  <2>2. ms \in Seq(Nat) /\ Len(ms) = N /\ \A n \in 1..N : ms[n] = more[n].chars
    <3>1. ms \in Seq(Nat) /\ DOMAIN ms = 1..N /\ \A n \in 1..N : ms[n] = more[n].chars
      BY <1>2, <1>5, CharsAreNumbers
    <3> HIDE DEF ms
    <3> QED BY <1>0, <3>1
  <2> HIDE DEF ns, ms, N
  <2>3. PICK a \in [0..N -> Nat] : /\ a[0] = 0 /\ \A n \in 1..N : a[n] = a[n - 1] + ns[n]
                                   /\ Total(ns) = a[N]
    BY <2>1, PartialSums
  <2>4. PICK b \in [0..N -> Nat] : /\ b[0] = 0 /\ \A n \in 1..N : b[n] = b[n - 1] + ms[n]
                                   /\ Total(ms) = b[N]
    BY <2>2, PartialSums
  <2> DEFINE Good == {n \in 0..N : b[n] = a[n] + taken[n]}
  <2>5. 0 \in Good
    <3>1. taken[0] = 0
      BY <1>1 DEF AddsPages
    <3> QED BY <1>0, <2>3, <2>4, <3>1
  <2>6. ASSUME NEW n \in 1..N, n - 1 \in Good PROVE n \in Good
    <3>1. b[n - 1] = a[n - 1] + taken[n - 1] /\ n \in 0..N /\ n - 1 \in 0..N
      BY <1>0, <2>6
    <3>2. ms[n] = ns[n] + (taken[n] - taken[n - 1])
      BY <1>3, <1>4, <2>1, <2>2
    <3>3. /\ a[n] \in Nat /\ a[n - 1] \in Nat /\ b[n] \in Nat /\ taken[n] \in Nat
          /\ taken[n - 1] \in Nat
      BY <1>3, <3>1
    <3>4. ns[n] \in Nat
      BY <2>1
    <3>5. a[n] = a[n - 1] + ns[n] /\ b[n] = b[n - 1] + ms[n]
      BY <2>3, <2>4
    <3>6. b[n] = a[n] + taken[n]
      BY <3>1, <3>2, <3>3, <3>4, <3>5, SMTT(20)
    <3> QED BY <3>1, <3>6
  <2>7. N \in Good
    <3> HIDE DEF Good
    <3>1. \A n \in 0..N : n \in Good
      BY <1>0, <2>5, <2>6, StepByStep
    <3> QED BY <1>0, <3>1
  <2>8. Total(ns) + taken[N] <= MaxTotalChars
    BY <1>1 DEF AddsPages, ns, N
  <2> QED BY <2>3, <2>4, <2>7, <2>8 DEF ms
<1> QED BY <1>5, <1>6, <1>7, <1>8, <1>9 DEF more

\* The prompt section is a beginning of the results.
LEMMA SectionResults ==
  ASSUME NEW results \in Seq(Result)
  PROVE  BuildWebSearchContext(results) \in Seq(Result)
<1> DEFINE size(i) == 1 + results[i].chars
           fits == {n \in DOMAIN results : Total([i \in 1..(n - 1) |-> size(i)]) < MaxContext}
<1>1. Len(results) \in Nat /\ DOMAIN results = 1..Len(results)
  OBVIOUS
<1>2. IsFiniteSet(DOMAIN results) /\ Cardinality(DOMAIN results) = Len(results)
  BY <1>1, FirstNumbers
<1>3. fits \subseteq DOMAIN results
  OBVIOUS
<1>4. BuildWebSearchContext(results) = SubSeq(results, 1, Cardinality(fits))
  BY DEF BuildWebSearchContext
<1> HIDE DEF fits
<1>5. IsFiniteSet(fits) /\ Cardinality(fits) <= Len(results)
  BY <1>2, <1>3, FS_Subset
<1>6. Cardinality(fits) \in 0..Len(results)
  BY <1>1, <1>5, FS_CardinalityType
<1> QED BY <1>4, <1>6, StartParts

-----------------------------------------------------------------------------
(* The inductive invariant.                                                *)

\* A plan has its six fields.
PlanIsWhole ==
  plan = [query |-> plan.query, alt |-> plan.alt, mode |-> plan.mode, window |-> plan.window,
          first |-> plan.first, round |-> plan.round]

\* A query that runs has a provider of its route to ask.
QueryRuns ==
  /\ stage \in SearchStages => route # <<>>
  /\ stage = "query" => /\ query.origin \in {"PRIMARY", "ALTERNATE"}
                        /\ query.provider \in 1..Len(route) /\ query.window \in {1, 2}

\* In the first round of news no fallback is a provider with two windows.
OneWindowOfFallbacks ==
  (stage \in SearchStages /\ plan.round = 1 /\ plan.mode = "NEWS_RECENT") =>
    \A i \in 2..Len(route) : route[i] # "tavily"

\* So the time limit a fallback was given still leaves the reserve when it is asked.
FallbackFits ==
  (stage = "query" /\ plan.round = 1 /\ query.origin = "PRIMARY" /\ query.provider > 1) =>
    query.timeout <= left - Reserve

SearchInv ==
  SearchTypeOK /\ PlanIsWhole /\ QueryRuns /\ OneWindowOfFallbacks /\ FallbackFits

\* Where a recovery may stand, and what the prompt of the draft held by then.
RecoveryInOrder ==
  /\ stage = "planner" => recovery = "NONE" /\ context = NoContext
  /\ stage \in SearchStages \cup {"resolved"} => recovery \in {"NONE", "RUNNING"}
  /\ recovery = "OFFERED" => context = NoContext
  /\ recovery = "RUNNING" =>
       basis = NoContext /\ stage \in SearchStages \cup {"resolved", "expired", "done", "failed"}
  /\ stage = "redraft" => basis = NoContext /\ recovery = "DONE"

\* From the draft on, what is presented is what the prompt held.
BasisIsContext ==
  /\ stage \in {"recover", "guard", "rewrite", "present", "ground"} => basis = context
  /\ stage = "ground" => context.status = "PASS"

\* Behind the guard a draft holds nothing internal, and only a draft without a
\* raw value is shown to its rewrite.
DraftIsGuarded ==
  /\ stage \in {"present", "ground"} => ToSet(draft) \cap Internal = {}
  /\ stage = "rewrite" => ~Has(draft, "value")

NothingSentBefore == stage # "done" => sent = <<>>

ReplyInv ==
  /\ ReplyTypeOK /\ RecoveryInOrder /\ BasisIsContext /\ DraftIsGuarded /\ NothingSentBefore
  /\ EvidenceIsOwned /\ NothingInternalLeaves

RequestInv == SearchInv /\ ReplyInv

-----------------------------------------------------------------------------
(* The search.                                                             *)

\* Two providers at most, and tavily is never the second of the news.
LEMMA RouteProperties ==
  ASSUME NEW p, NEW setup \in Setups
  PROVE  /\ RouteFor(p, setup) \in Seq(Providers)
         /\ p.mode = "NEWS_RECENT" =>
              \A i \in 2..Len(RouteFor(p, setup)) : RouteFor(p, setup)[i] # "tavily"
<1> DEFINE Available(provider) == IF provider \in setup.builtin THEN <<provider>> ELSE <<>>
           route1 == RouteFor(p, setup)
<1>1. CASE setup.configured # <<>>
  <2>1. route1 = setup.configured
    BY <1>1 DEF RouteFor
  <2>2. setup.configured \in Seq(Providers \ {"tavily"})
    BY BudgetAssumption
  <2>3. \A i \in 2..Len(setup.configured) : setup.configured[i] # "tavily"
    BY <2>2
  <2>4. setup.configured \in Seq(Providers)
    BY <2>2
  <2> QED BY <2>1, <2>3, <2>4
<1>2. CASE setup.configured = <<>>
  <2>1. ASSUME NEW provider \in {"tavily", "searxng"}
        PROVE  Available(provider) \in Seq({provider}) /\ Available(provider) \in Seq(Providers)
               /\ Len(Available(provider)) \in {0, 1}
    <3>1. <<provider>> \in Seq({provider}) /\ <<provider>> \in Seq(Providers) /\ Len(<<provider>>) = 1
      <4> HIDE DEF Available, route1
      <4>1. provider \in Providers
        BY <2>1 DEF Providers
      <4> QED BY <4>1, OnePart
    <3>2. <<>> \in Seq({provider}) /\ <<>> \in Seq(Providers) /\ Len(<<>>) = 0
      BY NoPart
    <3> QED BY <3>1, <3>2
  <2>2. CASE p.mode = "GENERAL" /\ p.query \in HanQueries
    <3>1. route1 = Available("searxng") \o Available("tavily")
      BY <1>2, <2>2 DEF RouteFor
    <3> HIDE DEF Available
    <3> QED BY <2>1, <2>2, <3>1, JoinedParts
  <2>3. CASE ~(p.mode = "GENERAL" /\ p.query \in HanQueries)
    <3> DEFINE first == Available("tavily")
               second == Available("searxng")
    <3>1. route1 = first \o second
      BY <1>2, <2>3 DEF RouteFor
    <3>2. /\ first \in Seq(Providers) /\ Len(first) \in {0, 1}
          /\ second \in Seq({"searxng"}) /\ second \in Seq(Providers) /\ Len(second) \in Nat
      BY <2>1
    <3> HIDE DEF first, second, route1
    <3>3. /\ route1 \in Seq(Providers) /\ Len(route1) = Len(first) + Len(second)
          /\ \A i \in 1..(Len(first) + Len(second)) :
               route1[i] = IF i <= Len(first) THEN first[i] ELSE second[i - Len(first)]
      BY <3>1, <3>2, ConcatProperties
    <3>4. ASSUME NEW i \in 2..Len(route1) PROVE route1[i] # "tavily"
      <4>1. i \in 1..(Len(first) + Len(second)) /\ ~(i <= Len(first))
            /\ i - Len(first) \in 1..Len(second)
        BY <3>2, <3>3
      <4>2. route1[i] = second[i - Len(first)]
        BY <3>3, <4>1
      <4>3. second[i - Len(first)] = "searxng"
        BY <3>2, <4>1
      <4> QED BY <4>2, <4>3
    <3> QED BY <3>3, <3>4 DEF route1
  <2> QED BY <2>2, <2>3
<1> QED BY <1>1, <1>2

LEMMA Smaller ==
  ASSUME NEW a \in Int, NEW b \in Int
  PROVE  Least(a, b) \in {a, b} /\ Least(a, b) <= a /\ Least(a, b) <= b
  BY DEF Least

LEMMA SpentTime ==
  ASSUME left \in 0..Budget, NEW time \in Nat, Spend(time)
  PROVE  left' \in 0..Budget /\ left' <= left /\ left - left' <= time
<1>1. PICK t \in 0..Least(time, left) : left' = left - t
  BY DEF Spend
<1>2. left \in Nat /\ Budget \in Nat /\ left <= Budget
  BY RequestAssumption
<1>3. Least(time, left) <= time /\ Least(time, left) <= left /\ Least(time, left) \in Nat
  BY <1>2 DEF Least
<1>4. t \in Nat /\ t <= time /\ t <= left
  BY <1>2, <1>3
<1> QED BY <1>1, <1>2, <1>4

LEMMA SpareTime ==
  ASSUME left \in 0..Budget
  PROVE  Spare \in Nat /\ (Spare > 0 => left - Spare = Reserve)
  BY BudgetAssumption, RequestAssumption DEF Spare

\* What no search touches stays as it is.
LEMMA QuietSearch ==
  ASSUME SearchInv, UNCHANGED searchIdle, left' \in 0..Budget,
         context' \in {context, NoContext},
         stage' \notin SearchStages
  PROVE  SearchInv'
<1> USE DEF SearchInv, searchIdle
<1>1. SearchTypeOK'
  BY DEF SearchTypeOK, NoContext, Modes
<1>2. PlanIsWhole'
  BY DEF PlanIsWhole
<1>3. QueryRuns' /\ OneWindowOfFallbacks' /\ FallbackFits'
  BY DEF QueryRuns, OneWindowOfFallbacks, FallbackFits, SearchStages
<1> QED BY <1>1, <1>2, <1>3

\* A search begins, or fails where there is no provider.
LEMMA BeginSearchInv ==
  ASSUME SearchInv, NEW p, p.mode \in Modes, {p.query, p.alt} \cap Forbidden = {},
         left' \in 0..Budget, BeginSearch(p)
  PROVE  /\ SearchInv' /\ stage' \in {"query", "resolved"}
         /\ stage' = "query" => UNCHANGED context
         /\ context'.status \in {"NONE", "PASS", "FAILED"}
<1> USE DEF SearchInv
<1>1. PICK setup \in Setups :
        IF RouteFor(p, setup) = <<>>
        THEN /\ stage' = "resolved"
             /\ context' = [NoContext EXCEPT !.status = "FAILED", !.mode = p.mode]
             /\ UNCHANGED <<plan, route, query>>
        ELSE /\ stage' = "query" /\ route' = RouteFor(p, setup) /\ query' = FirstTry("PRIMARY")
             /\ plan' = [query |-> p.query, alt |-> p.alt, mode |-> p.mode, window |-> p.window,
                         first |-> p.mode, round |-> 1]
             /\ UNCHANGED context
  BY DEF BeginSearch
<1>2. CASE RouteFor(p, setup) = <<>>
  <2>1. /\ stage' = "resolved" /\ UNCHANGED <<plan, route, query>>
        /\ context'.status = "FAILED" /\ context'.mode = p.mode
    BY <1>1, <1>2 DEF NoContext
  <2>2. SearchTypeOK' /\ PlanIsWhole'
    BY <2>1 DEF SearchTypeOK, PlanIsWhole
  <2>3. QueryRuns' /\ OneWindowOfFallbacks' /\ FallbackFits'
    BY <2>1 DEF QueryRuns, OneWindowOfFallbacks, FallbackFits, SearchStages
  <2> QED BY <2>1, <2>2, <2>3
<1>3. CASE RouteFor(p, setup) # <<>>
  <2>1. /\ stage' = "query" /\ route' = RouteFor(p, setup) /\ UNCHANGED context
        /\ query' = [origin |-> "PRIMARY", provider |-> 1, window |-> 1, timeout |-> SearchTimeout]
        /\ plan' = [query |-> p.query, alt |-> p.alt, mode |-> p.mode, window |-> p.window,
                    first |-> p.mode, round |-> 1]
    BY <1>1, <1>3 DEF FirstTry
  <2>2. /\ route' \in Seq(Providers) /\ 1 \in 1..Len(route')
        /\ p.mode = "NEWS_RECENT" => \A i \in 2..Len(route') : route'[i] # "tavily"
    BY <1>3, <2>1, RouteProperties
  <2>3. SearchTypeOK' /\ PlanIsWhole'
    BY <2>1, <2>2, BudgetAssumption DEF SearchTypeOK, PlanIsWhole
  <2>4. QueryRuns' /\ OneWindowOfFallbacks' /\ FallbackFits'
    BY <2>1, <2>2 DEF QueryRuns, OneWindowOfFallbacks, FallbackFits
  <2> QED BY <2>1, <2>3, <2>4 DEF SearchTypeOK
<1> QED BY <1>2, <1>3

\* Without time there is no call.
LEMMA QueryOutOfTimeInv == ASSUME SearchInv, QueryOutOfTime PROVE SearchInv'
<1> USE DEF SearchInv
<1>1. /\ stage = "query" /\ query' = Idle /\ UNCHANGED <<left, plan, route, context>>
      /\ stage' \in {"alternate", "merge"}
  BY DEF QueryOutOfTime, EndQuery
<1>2. SearchTypeOK' /\ PlanIsWhole'
  BY <1>1, BudgetAssumption DEF SearchTypeOK, PlanIsWhole, Idle
<1>3. QueryRuns' /\ OneWindowOfFallbacks' /\ FallbackFits'
  BY <1>1 DEF QueryRuns, OneWindowOfFallbacks, FallbackFits, SearchStages
<1> QED BY <1>2, <1>3

LEMMA TimeLeft ==
  ASSUME NEW before \in Nat, NEW after \in Nat, NEW time \in Nat, NEW most \in Nat, NEW rest \in Nat,
         before - after <= time, time <= most, most <= before - rest
  PROVE  after >= rest
  OBVIOUS

\* What a call may take: the reserve is safe where the stage has a ceiling, and
\* with a fallback, whose limit was made to fit.
LEMMA CallTime ==
  ASSUME SearchInv, stage = "query", left - Ceiling >= 1,
         Spend(Least(query.timeout, left - Ceiling))
  PROVE  /\ left' \in 0..Budget /\ left' <= left
         /\ plan.round = 2 \/ query.origin = "ALTERNATE" \/ query.provider > 1 => left' >= Reserve
<1>1. /\ left \in 0..Budget /\ left \in Nat /\ Reserve \in Nat /\ plan.round \in {1, 2}
      /\ query.timeout \in Nat /\ query.origin \in {"PRIMARY", "ALTERNATE"}
      /\ query.provider \in Nat
  BY BudgetAssumption, RequestAssumption DEF SearchInv, SearchTypeOK, QueryRuns
<1>2. Ceiling \in {0, Reserve}
  BY DEF Ceiling
<1> DEFINE time == Least(query.timeout, left - Ceiling)
<1>3. time \in Nat /\ time <= query.timeout /\ time <= left - Ceiling
  BY <1>1, <1>2 DEF Least
<1>4. left' \in 0..Budget /\ left' <= left /\ left - left' <= time
  <2> HIDE DEF time
  <2> QED BY <1>1, <1>3, SpentTime DEF time
<1> HIDE DEF time
<1>5. left' \in Nat
  BY <1>4, RequestAssumption
<1> DEFINE before == left
           after == left'
           most == query.timeout
<1>6. /\ before \in Nat /\ after \in Nat /\ time \in Nat /\ most \in Nat /\ Reserve \in Nat
      /\ before - after <= time /\ time <= most
      /\ Ceiling = Reserve => time <= before - Reserve
  BY <1>1, <1>3, <1>4, <1>5
<1>7. CASE plan.round = 2 \/ query.origin = "ALTERNATE"
  <2>1. time <= before - Reserve
    BY <1>6, <1>7 DEF Ceiling
  <2>2. after >= Reserve
    <3> HIDE DEF before, after, most
    <3>1. time <= time
      BY <1>6
    <3> QED BY <1>6, <2>1, <3>1, TimeLeft
  <2> QED BY <1>4, <2>2
<1>8. CASE plan.round = 1 /\ query.origin = "PRIMARY" /\ query.provider > 1
  <2>1. most <= before - Reserve
    BY <1>8 DEF SearchInv, FallbackFits
  <2>2. after >= Reserve
    <3> HIDE DEF before, after, most
    <3> QED BY <1>6, <2>1, TimeLeft
  <2> QED BY <1>4, <2>2
<1> QED BY <1>1, <1>4, <1>7, <1>8

\* One call: its answer, the next window, the next provider, or nothing.
LEMMA SearchCallInv ==
  ASSUME SearchInv, SearchCall
  PROVE  SearchInv' /\ UNCHANGED context /\ stage' \in SearchStages \cup {"expired"}
<1> USE DEF SearchInv
<1>1. /\ stage = "query" /\ UNCHANGED <<plan, route, context>>
      /\ left' \in 0..Budget /\ left' <= left /\ left' \in Int
  BY CallTime, RequestAssumption DEF SearchCall
<1>2. /\ query.origin \in {"PRIMARY", "ALTERNATE"} /\ query.provider \in 1..Len(route)
      /\ query.window \in {1, 2} /\ plan.round \in {1, 2} /\ Len(route) \in Nat
      /\ query \in [origin : {"NONE", "PRIMARY", "ALTERNATE"}, provider : Nat,
                    window : 0..2, timeout : 0..SearchTimeout]
  BY <1>1 DEF QueryRuns, SearchTypeOK
<1>3. CASE query' = Idle /\ stage' \in {"expired", "alternate", "merge"}
  <2>1. SearchTypeOK' /\ PlanIsWhole'
    BY <1>1, <1>3, BudgetAssumption DEF SearchTypeOK, PlanIsWhole, Idle
  <2>2. QueryRuns' /\ OneWindowOfFallbacks' /\ FallbackFits'
    BY <1>1, <1>3 DEF QueryRuns, OneWindowOfFallbacks, FallbackFits, SearchStages
  <2> QED BY <1>1, <1>3, <2>1, <2>2 DEF SearchStages
<1>4. CASE /\ query.window < Windows(route[query.provider])
           /\ query' = [query EXCEPT !.window = @ + 1] /\ UNCHANGED stage
  <2>1. /\ query.window = 1 /\ Windows(route[query.provider]) = 2
        /\ plan.mode = "NEWS_RECENT" /\ route[query.provider] = "tavily"
    BY <1>2, <1>4 DEF Windows
  <2>2. /\ query'.origin = query.origin /\ query'.provider = query.provider
        /\ query'.window = 2 /\ query'.timeout = query.timeout
        /\ query' \in [origin : {"NONE", "PRIMARY", "ALTERNATE"}, provider : Nat,
                       window : 0..2, timeout : 0..SearchTimeout]
    BY <1>2, <1>4, <2>1
  <2>3. plan.round = 1 => ~(query.provider > 1)
    BY <1>1, <1>2, <2>1 DEF OneWindowOfFallbacks, SearchStages
  <2>4. SearchTypeOK' /\ PlanIsWhole'
    BY <1>1, <2>2 DEF SearchTypeOK, PlanIsWhole
  <2>5. QueryRuns' /\ OneWindowOfFallbacks' /\ FallbackFits'
    BY <1>1, <1>2, <1>4, <2>2, <2>3 DEF QueryRuns, OneWindowOfFallbacks, FallbackFits
  <2> QED BY <1>1, <1>4, <2>4, <2>5 DEF SearchStages
<1>5. CASE MayFallBack /\ query' = Fallback /\ UNCHANGED stage
  <2>1. query.provider + 1 \in 1..Len(route) /\ left' - Reserve >= MinStage
    BY <1>2, <1>5 DEF MayFallBack
  <2> DEFINE after == left'
             fits == Least(SearchTimeout, after - Reserve)
  <2>2. fits \in 0..SearchTimeout /\ fits <= after - Reserve
    <3>1. after \in Int /\ after - Reserve >= MinStage
      BY <1>1, <2>1
    <3>2. MinStage \in Nat /\ SearchTimeout \in Nat /\ Reserve \in Nat
      BY BudgetAssumption
    <3> HIDE DEF after
    <3> QED BY <3>1, <3>2 DEF Least
  <2>3. query' = [query EXCEPT !.provider = query.provider + 1, !.window = 1, !.timeout = fits]
    BY <1>5 DEF Fallback
  <2>4. fits \in 0..SearchTimeout /\ query.provider + 1 \in 0..Len(route) /\ 1 \in 0..2
    BY <2>1, <2>2
  <2> HIDE DEF fits, after
  <2>5. /\ query'.origin = query.origin /\ query'.provider = query.provider + 1
        /\ query'.window = 1 /\ query'.timeout = fits
        /\ query' \in [origin : {"NONE", "PRIMARY", "ALTERNATE"}, provider : Nat,
                       window : 0..2, timeout : 0..SearchTimeout]
    <3> DEFINE next == query.provider + 1
    <3>1. query' = [query EXCEPT !.provider = next, !.window = 1, !.timeout = fits]
      BY <2>3
    <3>2. next \in Nat
      BY <1>2
    <3> HIDE DEF next
    <3>3. /\ query'.origin = query.origin /\ query'.provider = next
          /\ query'.window = 1 /\ query'.timeout = fits
          /\ query' \in [origin : {"NONE", "PRIMARY", "ALTERNATE"}, provider : Nat,
                         window : 0..2, timeout : 0..SearchTimeout]
      BY <1>2, <2>4, <3>1, <3>2
    <3> QED BY <3>3 DEF next
  <2>6. SearchTypeOK' /\ PlanIsWhole'
    BY <1>1, <2>5 DEF SearchTypeOK, PlanIsWhole
  <2>7. QueryRuns' /\ OneWindowOfFallbacks'
    BY <1>1, <1>2, <1>5, <2>1, <2>5 DEF QueryRuns, OneWindowOfFallbacks
  <2>8. FallbackFits'
    BY <2>2, <2>5 DEF FallbackFits, after
  <2> QED BY <1>1, <1>5, <2>6, <2>7, <2>8 DEF SearchStages
<1> QED BY <1>1, <1>3, <1>4, <1>5 DEF SearchCall, EndQuery

\* The alternate query, and the retry's first one, begin with the first provider.
LEMMA FirstTryInv ==
  ASSUME SearchInv, NEW origin \in {"PRIMARY", "ALTERNATE"}, UNCHANGED <<left, plan, route, context>>,
         stage \in SearchStages, route # <<>>,
         \/ stage' = "query" /\ query' = FirstTry(origin)
         \/ stage' = "merge" /\ UNCHANGED query
  PROVE  SearchInv'
<1> USE DEF SearchInv
<1>1. route \in Seq(Providers) /\ Len(route) \in Nat /\ 1 \in 1..Len(route)
  BY DEF SearchTypeOK
<1>2. CASE stage' = "query" /\ query' = FirstTry(origin)
  <2>1. query' = [origin |-> origin, provider |-> 1, window |-> 1, timeout |-> SearchTimeout]
    BY <1>2 DEF FirstTry
  <2>2. SearchTypeOK' /\ PlanIsWhole'
    BY <1>1, <2>1, BudgetAssumption DEF SearchTypeOK, PlanIsWhole
  <2>3. QueryRuns' /\ OneWindowOfFallbacks' /\ FallbackFits'
    BY <1>1, <1>2, <2>1 DEF QueryRuns, OneWindowOfFallbacks, FallbackFits
  <2> QED BY <2>2, <2>3
<1>3. CASE stage' = "merge" /\ UNCHANGED query
  <2>1. SearchTypeOK' /\ PlanIsWhole'
    BY <1>3 DEF SearchTypeOK, PlanIsWhole
  <2>2. QueryRuns' /\ OneWindowOfFallbacks' /\ FallbackFits'
    BY <1>3 DEF QueryRuns, OneWindowOfFallbacks, FallbackFits
  <2> QED BY <2>1, <2>2
<1> QED BY <1>2, <1>3

\* Between two queries the plan and the route stand.
LEMMA BetweenQueriesInv ==
  ASSUME SearchInv, stage \in SearchStages, left' \in 0..Budget,
         UNCHANGED <<plan, route, query, context>>, stage' \in SearchStages \ {"query"}
  PROVE  SearchInv'
<1> USE DEF SearchInv
<1>1. SearchTypeOK' /\ PlanIsWhole'
  BY DEF SearchTypeOK, PlanIsWhole
<1>2. QueryRuns' /\ OneWindowOfFallbacks' /\ FallbackFits'
  BY DEF QueryRuns, OneWindowOfFallbacks, FallbackFits
<1> QED BY <1>1, <1>2

\* A search ends with a resolution and without a plan.
LEMMA ResolveInv ==
  ASSUME SearchInv, UNCHANGED <<left, query>>, NEW outcome, Resolve(outcome),
         outcome.status \in {"NONE", "PASS", "FAILED"}, outcome.mode \in Modes
  PROVE  SearchInv' /\ stage' = "resolved" /\ context' = outcome
<1> USE DEF SearchInv
<1>1. /\ stage' = "resolved" /\ context' = outcome /\ plan' = NoPlan /\ route' = <<>>
  BY DEF Resolve
<1>2. SearchTypeOK' /\ PlanIsWhole'
  <2>1. /\ plan'.mode = "GENERAL" /\ plan'.first = "GENERAL" /\ plan'.round = 1
        /\ plan'.query = NoQuery /\ plan'.alt = NoQuery
    BY <1>1 DEF NoPlan
  <2>2. PlanIsWhole'
    BY <1>1 DEF PlanIsWhole, NoPlan
  <2>3. route' \in Seq(Providers)
    BY <1>1
  <2> QED BY <1>1, <2>1, <2>2, <2>3, BudgetAssumption DEF SearchTypeOK, Modes
<1>3. QueryRuns' /\ OneWindowOfFallbacks' /\ FallbackFits'
  BY <1>1 DEF QueryRuns, OneWindowOfFallbacks, FallbackFits, SearchStages
<1> QED BY <1>1, <1>2, <1>3

\* Pages take what is spare and no more.
LEMMA PageTime ==
  ASSUME left \in 0..Budget, Spare >= MinStage, NEW t \in 0..Least(PageTimeout, Spare), left' = left - t
  PROVE  left' \in 0..Budget /\ left' <= left /\ left' >= Reserve
<1> DEFINE before == left
           after == left'
<1>1. before \in Nat /\ before <= Budget /\ Budget \in Nat /\ Spare \in Nat
  BY RequestAssumption, SpareTime
<1>2. Spare > 0 /\ before - Spare = Reserve /\ Reserve \in Nat /\ PageTimeout \in Nat
  <2>1. Spare > 0
    BY <1>1, BudgetAssumption
  <2> QED BY <2>1, SpareTime, BudgetAssumption
<1>3. t \in Nat /\ t <= Spare
  BY <1>1, <1>2 DEF Least
<1>4. after = before - t
  OBVIOUS
<1> HIDE DEF before, after
<1>5. after \in 0..Budget /\ after <= before /\ after >= Reserve
  BY <1>1, <1>2, <1>3, <1>4
<1> QED BY <1>5 DEF before, after

\* The gate takes what is spare and no more.
LEMMA GateTime ==
  ASSUME left \in 0..Budget, Spare >= MinStage, Spend(Spare)
  PROVE  left' \in 0..Budget /\ left' <= left /\ left' >= Reserve
<1> DEFINE before == left
           after == left'
<1>1. before \in Nat /\ Budget \in Nat /\ Spare \in Nat
  BY RequestAssumption, SpareTime
<1>2. Spare > 0 /\ before - Spare = Reserve /\ Reserve \in Nat
  <2>1. Spare > 0
    BY <1>1, BudgetAssumption
  <2> QED BY <2>1, SpareTime, BudgetAssumption
<1>3. after \in 0..Budget /\ after <= before /\ before - after <= Spare
  BY <1>1, SpentTime
<1>4. after \in Nat
  BY <1>1, <1>3
<1> HIDE DEF before, after
<1>5. after >= Reserve
  BY <1>1, <1>2, <1>3, <1>4
<1> QED BY <1>3, <1>5 DEF before, after

\* Every step of a search: the reply waits until it is over.
LEMMA SearchStep ==
  ASSUME SearchInv, Search
  PROVE  /\ SearchInv' /\ stage \in SearchStages
         /\ stage' \in SearchStages \cup {"resolved", "expired"}
         /\ stage' # "resolved" => UNCHANGED context
<1>1. CASE QueryOutOfTime
  <2>1. stage = "query" /\ stage' \in {"alternate", "merge"} /\ UNCHANGED context
    BY <1>1 DEF QueryOutOfTime, EndQuery
  <2> QED BY <1>1, <2>1, QueryOutOfTimeInv DEF SearchStages
<1>2. CASE SearchCall
  BY <1>2, SearchCallInv DEF SearchCall, SearchStages
<1>3. CASE Alternate
  <2>1. /\ stage = "alternate" /\ UNCHANGED <<left, plan, route, context>>
        /\ \/ stage' = "query" /\ query' = FirstTry("ALTERNATE")
           \/ stage' = "merge" /\ UNCHANGED query
    BY <1>3 DEF Alternate
  <2>2. stage \in SearchStages /\ route # <<>>
    BY <2>1 DEF SearchStages, SearchInv, QueryRuns
  <2> QED BY <2>1, <2>2, FirstTryInv DEF SearchStages
<1>4. CASE MergeAndRank
  <2>1. stage = "merge" /\ UNCHANGED <<left, query>>
    BY <1>4 DEF MergeAndRank
  <2>2. CASE Resolve(NothingFound)
    <3>1. NothingFound.status = "FAILED" /\ NothingFound.mode \in Modes
      BY DEF NothingFound, NoContext, SearchInv, SearchTypeOK
    <3> QED BY <2>1, <2>2, <3>1, ResolveInv DEF SearchStages
  <2>3. CASE stage' = "page" /\ UNCHANGED <<plan, route, context>>
    <3>1. left' \in 0..Budget /\ stage \in SearchStages /\ stage' \in SearchStages \ {"query"}
      BY <2>1, <2>3 DEF SearchInv, SearchTypeOK, SearchStages
    <3> QED BY <2>1, <2>3, <3>1, BetweenQueriesInv
  <2> QED BY <1>4, <2>2, <2>3 DEF MergeAndRank
<1>5. CASE FetchPages
  <2>1. /\ stage = "page" /\ stage' = AfterPages /\ UNCHANGED <<plan, route, query, context>>
        /\ Spare >= MinStage
    BY <1>5 DEF FetchPages
  <2>2. left' \in 0..Budget
    <3>1. PICK t \in 0..Least(PageTimeout, Spare) : left' = left - t
      BY <1>5 DEF FetchPages
    <3> QED BY <2>1, <3>1, PageTime DEF SearchInv, SearchTypeOK
  <2>3. stage \in SearchStages /\ stage' \in SearchStages \ {"query"}
    BY <2>1 DEF AfterPages, SearchStages
  <2> QED BY <2>1, <2>2, <2>3, BetweenQueriesInv
<1>6. CASE SkipPages
  <2>1. /\ stage = "page" /\ stage' = AfterPages /\ UNCHANGED <<left, plan, route, query, context>>
    BY <1>6 DEF SkipPages
  <2>2. /\ left' \in 0..Budget /\ stage \in SearchStages /\ stage' \in SearchStages \ {"query"}
    BY <2>1 DEF AfterPages, SearchStages, SearchInv, SearchTypeOK
  <2> QED BY <2>1, <2>2, BetweenQueriesInv
<1>7. CASE AskQuality
  <2>1. stage = "quality" /\ UNCHANGED <<route, query, context>> /\ left' \in 0..Budget
    BY <1>7, GateTime DEF AskQuality, NeedsGate, SearchInv, SearchTypeOK
  <2>2. CASE stage' = "bound" /\ UNCHANGED plan
    <3>1. stage \in SearchStages /\ stage' \in SearchStages \ {"query"}
      BY <2>1, <2>2 DEF SearchStages
    <3> QED BY <2>1, <2>2, <3>1, BetweenQueriesInv
  <2>3. ASSUME NEW g \in GateDecisions, stage' = "retry",
               plan' = [plan EXCEPT !.query = g.query, !.alt = g.alt, !.mode = g.mode, !.round = 2,
                                    !.window = IF g.window = "NONE" THEN @ ELSE g.window]
        PROVE  SearchInv'
    <3>1. {g.query, g.alt} \cap Forbidden = {} /\ g.mode \in Modes
      BY <2>3, BudgetAssumption DEF GateDecisions, ValidGate
    <3>2. PICK w : plan' = [query |-> g.query, alt |-> g.alt, mode |-> g.mode, window |-> w,
                            first |-> plan.first, round |-> 2]
      BY <2>3 DEF SearchInv, PlanIsWhole
    <3>3. SearchTypeOK' /\ PlanIsWhole'
      BY <2>1, <3>1, <3>2 DEF SearchInv, SearchTypeOK, PlanIsWhole
    <3>4. QueryRuns' /\ OneWindowOfFallbacks' /\ FallbackFits'
      BY <2>1, <2>3, <3>2 DEF SearchInv, QueryRuns, OneWindowOfFallbacks, FallbackFits, SearchStages
    <3> QED BY <3>3, <3>4 DEF SearchInv
  <2>4. \/ stage' = "bound" /\ UNCHANGED plan
        \/ \E g \in GateDecisions :
             /\ stage' = "retry"
             /\ plan' = [plan EXCEPT !.query = g.query, !.alt = g.alt, !.mode = g.mode, !.round = 2,
                                     !.window = IF g.window = "NONE" THEN @ ELSE g.window]
    BY <1>7 DEF AskQuality
  <2> QED BY <2>1, <2>2, <2>3, <2>4 DEF SearchStages
<1>8. CASE SkipQuality
  <2>1. /\ stage = "quality" /\ stage' = "bound" /\ UNCHANGED <<left, plan, route, query, context>>
    BY <1>8 DEF SkipQuality
  <2>2. /\ left' \in 0..Budget /\ stage \in SearchStages /\ stage' \in SearchStages \ {"query"}
    BY <2>1 DEF SearchStages, SearchInv, SearchTypeOK
  <2> QED BY <2>1, <2>2, BetweenQueriesInv
<1>9. CASE Retry
  <2>1. /\ stage = "retry" /\ UNCHANGED <<left, plan, route, context>>
        /\ \/ stage' = "query" /\ query' = FirstTry("PRIMARY")
           \/ stage' = "merge" /\ UNCHANGED query
    BY <1>9 DEF Retry
  <2>2. stage \in SearchStages /\ route # <<>>
    BY <2>1 DEF SearchStages, SearchInv, QueryRuns
  <2> QED BY <2>1, <2>2, FirstTryInv DEF SearchStages
<1>10. CASE Bound
  <2> DEFINE section == BuildWebSearchContext(kept)
             outcome == IF section = <<>> THEN NothingFound
                        ELSE [status |-> "PASS", mode |-> plan.mode, results |-> section]
  <2>1. stage = "bound" /\ UNCHANGED <<left, query>> /\ Resolve(outcome)
    BY <1>10 DEF Bound
  <2>2. outcome.status \in {"NONE", "PASS", "FAILED"} /\ outcome.mode \in Modes
    BY DEF NothingFound, NoContext, SearchInv, SearchTypeOK
  <2> HIDE DEF outcome
  <2> QED BY <2>1, <2>2, ResolveInv DEF SearchStages
<1> QED BY <1>1, <1>2, <1>3, <1>4, <1>5, <1>6, <1>7, <1>8, <1>9, <1>10 DEF Search

-----------------------------------------------------------------------------
(* The reply.                                                              *)

\* The conjuncts of the invariant that a reply step keeps.
LEMMA ReplyTypes ==
  ASSUME ReplyInv
  PROVE  /\ stage \in SearchStages \cup {"resolved"} \cup ReplyStages \cup {"done", "failed"}
         /\ kind \in Kinds /\ depth \in Depths
         /\ recovery \in {"NONE", "OFFERED", "RUNNING", "DONE"}
         /\ draft \in Texts /\ shown \in Texts /\ sent \in Texts
  BY DEF ReplyInv, ReplyTypeOK

\* The initial state.
LEMMA RequestInitInv == RequestInit => RequestInv
<1> SUFFICES ASSUME RequestInit PROVE RequestInv
  OBVIOUS
<1> USE DEF RequestInit
<1>1. /\ left \in 1..Budget /\ stage \in {"planner", "draft"} /\ kind \in Kinds
      /\ plan = NoPlan /\ route = <<>> /\ query = Idle /\ context = NoContext /\ basis = NoContext
      /\ depth = "NORMAL" /\ recovery = "NONE" /\ draft = <<>> /\ shown = <<>> /\ sent = <<>>
  OBVIOUS
<1>2. SearchInv
  <2>1. left \in 0..Budget
    BY <1>1, RequestAssumption
  <2>2. route \in Seq(Providers)
    BY <1>1, NoPart
  <2>3. SearchTypeOK
    BY <1>1, <2>1, <2>2, BudgetAssumption DEF SearchTypeOK, NoPlan, Idle, NoContext, Modes
  <2>4. PlanIsWhole
    BY <1>1 DEF PlanIsWhole, NoPlan
  <2>5. QueryRuns /\ OneWindowOfFallbacks /\ FallbackFits
    BY <1>1 DEF QueryRuns, OneWindowOfFallbacks, FallbackFits, SearchStages
  <2> QED BY <2>3, <2>4, <2>5 DEF SearchInv
<1>3. ReplyInv
  <2>1. <<>> \in Texts /\ Len(<<>>) = 0 /\ ToSet(<<>>) = {}
    BY NoPart DEF Texts
  <2>2. ReplyTypeOK
    BY <1>1, <2>1 DEF ReplyTypeOK, ReplyStages, Kinds, Depths, NoContext
  <2>3. RecoveryInOrder
    BY <1>1 DEF RecoveryInOrder, SearchStages
  <2>4. BasisIsContext /\ DraftIsGuarded /\ NothingSentBefore
    BY <1>1 DEF BasisIsContext, DraftIsGuarded, NothingSentBefore
  <2>5. EvidenceIsOwned
    BY <1>1 DEF EvidenceIsOwned, Answered
  <2>6. NothingInternalLeaves
    <3>1. plan.query = NoQuery /\ plan.alt = NoQuery
      BY <1>1 DEF NoPlan
    <3>2. /\ HardCap["NORMAL"] \in Nat /\ HardCap["DETAILED"] \in Nat
      BY CapAssumption
    <3>3. Len(sent) <= HardCap["NORMAL"]
      BY <1>1, <2>1, <3>2
    <3> QED BY <1>1, <2>1, <3>1, <3>3, BudgetAssumption DEF NothingInternalLeaves, Has
  <2> QED BY <2>2, <2>3, <2>4, <2>5, <2>6 DEF ReplyInv
<1> QED BY <1>2, <1>3 DEF RequestInv

\* What leaves is unchanged, and so is what it says, until the request is done.
LEMMA NothingSentNow ==
  ASSUME ReplyInv, UNCHANGED <<sent, kind>>, stage # "done", stage' # "done",
         ~Has(shown', "value"), {plan'.query, plan'.alt} \cap Forbidden = {},
         depth' \in Depths
  PROVE  EvidenceIsOwned' /\ NothingInternalLeaves' /\ NothingSentBefore'
<1>1. sent = <<>> /\ sent' = <<>>
  BY DEF ReplyInv, NothingSentBefore
<1>2. EvidenceIsOwned' /\ NothingSentBefore'
  BY <1>1 DEF EvidenceIsOwned, Answered, NothingSentBefore
<1>3. NothingInternalLeaves'
  <2>1. Len(sent') = 0 /\ ToSet(sent') = {}
    BY <1>1, NoPart
  <2>2. \A d \in {"NORMAL", "DETAILED"} : HardCap[d] \in Nat /\ 0 <= HardCap[d]
    BY CapAssumption
  <2>3. Len(sent') <= HardCap[IF depth' = "DETAILED" THEN "DETAILED" ELSE "NORMAL"]
    BY <2>1, <2>2
  <2> QED BY <2>1, <2>3 DEF NothingInternalLeaves, Has
<1> QED BY <1>2, <1>3

\* A step of the search leaves the answer alone.
LEMMA SearchKeepsReply ==
  ASSUME RequestInv, Search, UNCHANGED replyVars
  PROVE  ReplyInv'
<1>1. /\ SearchInv' /\ stage \in SearchStages
      /\ stage' \in SearchStages \cup {"resolved", "expired"}
      /\ stage' # "resolved" => UNCHANGED context
  BY SearchStep DEF RequestInv
<1>2. UNCHANGED <<kind, depth, recovery, draft, basis, shown, sent>>
  BY DEF replyVars
<1>3. ReplyInv
  BY DEF RequestInv
<1>4. ReplyTypeOK'
  BY <1>1, <1>2, <1>3 DEF ReplyInv, ReplyTypeOK, ReplyStages
<1>5. stage \notin {"planner", "redraft", "done"} /\ recovery \in {"NONE", "RUNNING"}
  BY <1>1, <1>3 DEF SearchStages, ReplyInv, RecoveryInOrder
<1>6. RecoveryInOrder'
  BY <1>1, <1>2, <1>3, <1>5 DEF ReplyInv, RecoveryInOrder, SearchStages
<1>7. BasisIsContext' /\ DraftIsGuarded'
  BY <1>1 DEF BasisIsContext, DraftIsGuarded, SearchStages
<1>8. EvidenceIsOwned' /\ NothingInternalLeaves' /\ NothingSentBefore'
  <2>1. stage' # "done" /\ depth' \in Depths
    BY <1>1, <1>4 DEF SearchStages, ReplyTypeOK
  <2>2. ~Has(shown', "value") /\ {plan'.query, plan'.alt} \cap Forbidden = {}
    BY <1>1, <1>2, <1>3 DEF ReplyInv, NothingInternalLeaves, Has, SearchInv, SearchTypeOK
  <2> QED BY <1>2, <1>3, <1>5, <2>1, <2>2, NothingSentNow
<1> QED BY <1>4, <1>6, <1>7, <1>8 DEF ReplyInv

LEMMA AwaitTime ==
  ASSUME SearchInv, Await
  PROVE  left' \in 0..Budget
<1>1. left \in 0..Budget /\ left \in Nat
  BY RequestAssumption DEF SearchInv, SearchTypeOK
<1> QED BY <1>1, SpentTime DEF Await

\* A step that sends nothing: what is left to show of it.
LEMMA MovesOn ==
  ASSUME ReplyInv, SearchInv', stage \notin {"done", "failed"}, stage' \in ReplyStages \cup
           SearchStages \cup {"resolved", "failed"},
         UNCHANGED <<kind, sent>>, depth' \in Depths,
         recovery' \in {"NONE", "OFFERED", "RUNNING", "DONE"},
         basis'.status \in {"NONE", "PASS", "FAILED"},
         draft' \in Texts, shown' \in Texts, ~Has(shown', "value"),
         RecoveryInOrder', BasisIsContext', DraftIsGuarded'
  PROVE  ReplyInv'
<1>1. stage' # "done"
  BY DEF ReplyStages, SearchStages
<1>2. ReplyTypeOK'
  BY DEF ReplyInv, ReplyTypeOK
<1>3. {plan'.query, plan'.alt} \cap Forbidden = {}
  BY DEF SearchInv, SearchTypeOK
<1> QED BY <1>1, <1>2, <1>3, NothingSentNow DEF ReplyInv

\* A generation that ends too late, or fails, leaves everything else alone.
LEMMA GivesUp ==
  ASSUME RequestInv, stage \in ReplyStages, stage \notin SearchStages,
         stage' \in {"expired", "failed"}, left' \in 0..Budget, UNCHANGED searchIdle,
         UNCHANGED <<context, kind, depth, recovery, draft, basis, shown, sent>>
  PROVE  RequestInv'
<1>1. SearchInv /\ ReplyInv
  BY DEF RequestInv
<1>2. SearchInv'
  BY <1>1, QuietSearch DEF SearchStages
<1>3. ReplyTypeOK /\ ~Has(shown, "value") /\ stage \notin {"done", "failed"}
  BY <1>1 DEF ReplyInv, NothingInternalLeaves, ReplyStages
<1>4. RecoveryInOrder' /\ BasisIsContext' /\ DraftIsGuarded'
  BY <1>1 DEF ReplyInv, RecoveryInOrder, BasisIsContext, DraftIsGuarded, SearchStages, ReplyStages
<1>5. ReplyInv'
  <2>1. stage' \in ReplyStages \cup SearchStages \cup {"resolved", "failed"}
    BY DEF ReplyStages
  <2>2. ~Has(shown', "value")
    BY <1>3
  <2> QED BY <1>1, <1>2, <1>3, <1>4, <2>1, <2>2, MovesOn DEF ReplyTypeOK
<1> QED BY <1>2, <1>5 DEF RequestInv

LEMMA PlanInv == ASSUME RequestInv, Plan PROVE RequestInv'
<1>1. SearchInv /\ ReplyInv
  BY DEF RequestInv
<1>2. /\ stage = "planner" /\ left' \in 0..Budget
      /\ UNCHANGED <<found, kept, kind, depth, draft, basis, shown, sent>>
  BY <1>1, AwaitTime DEF Plan
<1>3. /\ recovery = "NONE" /\ context = NoContext /\ ReplyTypeOK /\ ~Has(shown, "value")
  BY <1>1, <1>2 DEF ReplyInv, RecoveryInOrder, NothingInternalLeaves
<1>4. SUFFICES /\ SearchInv' /\ stage' \in {"expired", "draft", "query", "resolved"}
               /\ \/ UNCHANGED recovery
                  \/ recovery' = "OFFERED" /\ stage' = "draft" /\ UNCHANGED context
  <2>1. stage' \in ReplyStages \cup SearchStages \cup {"resolved", "failed"}
    BY <1>4 DEF ReplyStages, SearchStages
  <2>2. RecoveryInOrder' /\ BasisIsContext' /\ DraftIsGuarded'
    BY <1>2, <1>3, <1>4 DEF RecoveryInOrder, BasisIsContext, DraftIsGuarded, SearchStages
  <2>3. ~Has(shown', "value") /\ recovery' \in {"NONE", "OFFERED", "RUNNING", "DONE"}
    BY <1>2, <1>3, <1>4
  <2> QED BY <1>1, <1>2, <1>3, <1>4, <2>1, <2>2, <2>3, MovesOn DEF ReplyTypeOK, RequestInv
<1>5. CASE stage' \in {"expired", "draft"} /\ UNCHANGED <<plan, route, query, context>>
           /\ (UNCHANGED recovery \/ (recovery' = "OFFERED" /\ stage' = "draft"))
  <2>1. UNCHANGED searchIdle /\ stage' \notin SearchStages
    BY <1>2, <1>5 DEF searchIdle, SearchStages
  <2> QED BY <1>1, <1>2, <1>5, <2>1, QuietSearch
<1>6. ASSUME NEW p \in PlannedDecisions, p.action = "SEARCH", BeginSearch(p), UNCHANGED recovery
      PROVE  /\ SearchInv' /\ stage' \in {"expired", "draft", "query", "resolved"}
             /\ UNCHANGED recovery
  <2>1. p.mode \in Modes /\ {p.query, p.alt} \cap Forbidden = {}
    BY <1>6, BudgetAssumption DEF PlannedDecisions, ValidPlan
  <2> QED BY <1>1, <1>2, <1>6, <2>1, BeginSearchInv
<1>7. \/ stage' \in {"expired", "draft"} /\ UNCHANGED <<plan, route, query, context>>
         /\ (UNCHANGED recovery \/ (recovery' = "OFFERED" /\ stage' = "draft"))
      \/ \E p \in PlannedDecisions :
           p.action = "SEARCH" /\ BeginSearch(p) /\ UNCHANGED recovery
  BY DEF Plan
<1>8. CASE \E p \in PlannedDecisions : p.action = "SEARCH" /\ BeginSearch(p) /\ UNCHANGED recovery
  BY <1>6, <1>8
<1> QED BY <1>5, <1>7, <1>8

LEMMA TakeResolutionInv == ASSUME RequestInv, TakeResolution PROVE RequestInv'
<1>1. SearchInv /\ ReplyInv
  BY DEF RequestInv
<1>2. /\ stage = "resolved" /\ UNCHANGED searchIdle
      /\ UNCHANGED <<left, kind, depth, draft, basis, shown, sent>>
  BY DEF TakeResolution
<1>3. /\ ReplyTypeOK /\ ~Has(shown, "value") /\ recovery \in {"NONE", "RUNNING"}
      /\ recovery = "RUNNING" => basis = NoContext
  BY <1>1, <1>2 DEF ReplyInv, RecoveryInOrder, NothingInternalLeaves
<1>4. \/ recovery = "NONE" /\ stage' = "draft" /\ UNCHANGED <<context, recovery>>
      \/ /\ recovery = "RUNNING" /\ recovery' = "DONE"
         /\ \/ stage' = "redraft" /\ UNCHANGED context
            \/ stage' = "guard" /\ context' = NoContext
  BY <1>3 DEF TakeResolution
<1>5. SearchInv'
  <2>1. left' \in 0..Budget
    BY <1>1, <1>2 DEF SearchInv, SearchTypeOK
  <2>2. stage' \notin SearchStages /\ context' \in {context, NoContext}
    BY <1>4 DEF SearchStages
  <2> QED BY <1>1, <1>2, <2>1, <2>2, QuietSearch
<1>6. RecoveryInOrder' /\ BasisIsContext' /\ DraftIsGuarded'
  BY <1>2, <1>3, <1>4 DEF RecoveryInOrder, BasisIsContext, DraftIsGuarded, SearchStages
<1>7. stage' \in ReplyStages \cup SearchStages \cup {"resolved", "failed"}
  BY <1>4 DEF ReplyStages
<1>8. ~Has(shown', "value") /\ recovery' \in {"NONE", "OFFERED", "RUNNING", "DONE"}
  BY <1>2, <1>3, <1>4
<1> QED BY <1>1, <1>2, <1>3, <1>5, <1>6, <1>7, <1>8, MovesOn DEF ReplyTypeOK, RequestInv

\* A usable text becomes the draft, written from the context in its prompt.
LEMMA TakeDraftInv ==
  ASSUME RequestInv, stage \in {"draft", "repair", "redraft"}, left' \in 0..Budget,
         UNCHANGED searchIdle, UNCHANGED <<kind, depth>>,
         NEW next \in {"recover", "guard"}, NEW text \in Texts, TakeDraft(next, text)
  PROVE  RequestInv'
<1>1. SearchInv /\ ReplyInv
  BY DEF RequestInv
<1>2. /\ stage' = next /\ draft' = text /\ basis' = context
      /\ UNCHANGED <<context, recovery, shown, sent>>
  BY DEF TakeDraft
<1>3. /\ ReplyTypeOK /\ ~Has(shown, "value") /\ recovery # "RUNNING"
      /\ context.status \in {"NONE", "PASS", "FAILED"}
  BY <1>1 DEF ReplyInv, RecoveryInOrder, NothingInternalLeaves, SearchStages, SearchInv, SearchTypeOK
<1>4. SearchInv'
  <2>1. stage' \notin SearchStages /\ context' \in {context, NoContext}
    BY <1>2 DEF SearchStages
  <2> QED BY <1>1, <2>1, QuietSearch
<1>5. RecoveryInOrder' /\ BasisIsContext' /\ DraftIsGuarded'
  BY <1>1, <1>2, <1>3 DEF ReplyInv, RecoveryInOrder, BasisIsContext, DraftIsGuarded, SearchStages
<1>6. stage' \in ReplyStages \cup SearchStages \cup {"resolved", "failed"}
  BY <1>2 DEF ReplyStages
<1>7. ~Has(shown', "value") /\ basis'.status \in {"NONE", "PASS", "FAILED"}
  BY <1>2, <1>3
<1> QED BY <1>1, <1>2, <1>3, <1>4, <1>5, <1>6, <1>7, MovesOn DEF ReplyTypeOK, RequestInv

\* A generation in time: the cases an action makes of its outcome.
LEMMA DraftInv == ASSUME RequestInv, Draft PROVE RequestInv'
<1>1. stage = "draft" /\ left' \in 0..Budget /\ UNCHANGED searchIdle /\ UNCHANGED <<kind, depth>>
  BY AwaitTime DEF Draft, RequestInv
<1>2. \/ OutOfTime
      \/ \E text \in Outcomes : IsUsable(text) /\ TakeDraft("recover", text)
      \/ stage' = "repair" /\ UNCHANGED <<context, recovery, draft, basis, shown, sent>>
      \/ Fail
  BY DEF Draft
<1>3. CASE OutOfTime \/ Fail
  <2>1. /\ stage' \in {"expired", "failed"}
        /\ UNCHANGED <<context, recovery, draft, basis, shown, sent>>
    BY <1>3 DEF OutOfTime, Fail
  <2> QED BY <1>1, <2>1, GivesUp DEF ReplyStages, SearchStages
<1>4. ASSUME NEW text \in Outcomes, IsUsable(text), TakeDraft("recover", text) PROVE RequestInv'
  BY <1>1, <1>4, UsableTexts, TakeDraftInv
<1>5. CASE stage' = "repair" /\ UNCHANGED <<context, recovery, draft, basis, shown, sent>>
  <2>1. SearchInv /\ ReplyInv
    BY DEF RequestInv
  <2>2. SearchInv'
    BY <1>1, <1>5, <2>1, QuietSearch DEF SearchStages
  <2>3. RecoveryInOrder' /\ BasisIsContext' /\ DraftIsGuarded'
    BY <1>1, <1>5, <2>1 DEF ReplyInv, RecoveryInOrder, BasisIsContext, DraftIsGuarded, SearchStages
  <2>4. ReplyTypeOK /\ ~Has(shown, "value") /\ stage' \in ReplyStages
    BY <1>5, <2>1 DEF ReplyInv, NothingInternalLeaves, ReplyStages
  <2>5. ~Has(shown', "value")
    BY <1>5, <2>4
  <2> QED BY <1>1, <1>5, <2>1, <2>2, <2>3, <2>4, <2>5, MovesOn DEF ReplyTypeOK, RequestInv
<1> QED BY <1>2, <1>3, <1>4, <1>5

LEMMA RepairMarkupInv == ASSUME RequestInv, RepairMarkup PROVE RequestInv'
<1>1. stage = "repair" /\ left' \in 0..Budget /\ UNCHANGED searchIdle /\ UNCHANGED <<kind, depth>>
  BY AwaitTime DEF RepairMarkup, RequestInv
<1>2. \/ OutOfTime \/ Fail
      \/ \E text \in Outcomes : IsUsable(text) /\ TakeDraft("recover", text)
  BY DEF RepairMarkup
<1>3. CASE OutOfTime \/ Fail
  <2>1. /\ stage' \in {"expired", "failed"}
        /\ UNCHANGED <<context, recovery, draft, basis, shown, sent>>
    BY <1>3 DEF OutOfTime, Fail
  <2> QED BY <1>1, <2>1, GivesUp DEF ReplyStages, SearchStages
<1>4. ASSUME NEW text \in Outcomes, IsUsable(text), TakeDraft("recover", text) PROVE RequestInv'
  BY <1>1, <1>4, UsableTexts, TakeDraftInv
<1> QED BY <1>2, <1>3, <1>4

LEMMA SkipRecoveryInv == ASSUME RequestInv, SkipRecovery PROVE RequestInv'
<1>1. /\ stage = "recover" /\ stage' = "guard" /\ UNCHANGED searchIdle
      /\ UNCHANGED <<left, context, kind, depth, recovery, draft, basis, shown, sent>>
  BY DEF SkipRecovery, replyVars
<1>2. SearchInv /\ ReplyInv
  BY DEF RequestInv
<1>3. SearchInv'
  <2>1. left' \in 0..Budget
    BY <1>1, <1>2 DEF SearchInv, SearchTypeOK
  <2> QED BY <1>1, <1>2, <2>1, QuietSearch DEF SearchStages
<1>4. RecoveryInOrder' /\ BasisIsContext' /\ DraftIsGuarded'
  BY <1>1, <1>2 DEF ReplyInv, RecoveryInOrder, BasisIsContext, DraftIsGuarded, SearchStages
<1>5. ReplyTypeOK /\ ~Has(shown, "value") /\ stage' \in ReplyStages
  BY <1>1, <1>2 DEF ReplyInv, NothingInternalLeaves, ReplyStages
<1>6. ~Has(shown', "value")
  BY <1>1, <1>5
<1> QED BY <1>1, <1>2, <1>3, <1>4, <1>5, <1>6, MovesOn DEF ReplyTypeOK, RequestInv

\* A recovery is only ever run for a draft written without a search.
LEMMA RecoverInv == ASSUME RequestInv, Recover PROVE RequestInv'
<1>1. SearchInv /\ ReplyInv
  BY DEF RequestInv
<1>2. /\ stage = "recover" /\ recovery = "OFFERED" /\ left' \in 0..Budget /\ shown' = Redact(draft)
      /\ UNCHANGED <<found, kept, kind, depth, draft, basis, sent>>
  BY <1>1, AwaitTime DEF Recover, MayRecover
<1>3. ReplyTypeOK /\ context = NoContext /\ basis = NoContext
  BY <1>1, <1>2 DEF ReplyInv, RecoveryInOrder, BasisIsContext
<1>4. shown' \in Texts /\ ~Has(shown', "value")
  BY <1>2, <1>3, RedactedParts DEF ReplyTypeOK
<1>5. SUFFICES /\ SearchInv'
               /\ \/ stage' = "guard" /\ UNCHANGED <<context, recovery>>
                  \/ stage' \in {"query", "resolved"} /\ recovery' = "RUNNING"
  <2>1. stage' \in ReplyStages \cup SearchStages \cup {"resolved", "failed"}
    BY <1>5 DEF ReplyStages, SearchStages
  <2>2. RecoveryInOrder' /\ BasisIsContext' /\ DraftIsGuarded'
    BY <1>2, <1>3, <1>5 DEF RecoveryInOrder, BasisIsContext, DraftIsGuarded, SearchStages
  <2>3. recovery' \in {"NONE", "OFFERED", "RUNNING", "DONE"}
    BY <1>2, <1>5
  <2> QED BY <1>1, <1>2, <1>3, <1>4, <1>5, <2>1, <2>2, <2>3, MovesOn DEF ReplyTypeOK, RequestInv
<1>6. \/ stage' = "guard" /\ UNCHANGED <<plan, route, query, context, recovery>>
      \/ /\ recovery' = "RUNNING"
         /\ \E r \in RecoveryDecisions :
              BeginSearch([query |-> r.query, alt |-> NoQuery, mode |-> r.mode,
                           window |-> r.window])
  BY DEF Recover
<1>7. CASE stage' = "guard" /\ UNCHANGED <<plan, route, query, context, recovery>>
  <2>1. UNCHANGED searchIdle /\ stage' \notin SearchStages
    BY <1>2, <1>7 DEF searchIdle, SearchStages
  <2> QED BY <1>1, <1>2, <1>7, <2>1, QuietSearch
<1>8. ASSUME recovery' = "RUNNING", NEW r \in RecoveryDecisions,
             BeginSearch([query |-> r.query, alt |-> NoQuery, mode |-> r.mode, window |-> r.window])
      PROVE  SearchInv' /\ stage' \in {"query", "resolved"}
  <2> DEFINE p == [query |-> r.query, alt |-> NoQuery, mode |-> r.mode, window |-> r.window]
  <2>1. p.mode \in Modes /\ {p.query, p.alt} \cap Forbidden = {}
    BY <1>8, RequestAssumption, BudgetAssumption DEF RecoveryDecisions, ValidRecovery
  <2>2. BeginSearch(p)
    BY <1>8
  <2> HIDE DEF p
  <2> QED BY <1>1, <1>2, <2>1, <2>2, BeginSearchInv
<1> QED BY <1>6, <1>7, <1>8

LEMMA RedraftInv == ASSUME RequestInv, Redraft PROVE RequestInv'
<1>1. /\ stage = "redraft" /\ left' \in 0..Budget /\ UNCHANGED searchIdle /\ UNCHANGED <<kind, depth>>
  BY AwaitTime DEF Redraft, RequestInv
<1>2. \/ OutOfTime \/ KeepDraft
      \/ \E text \in Outcomes : IsUsable(text) /\ TakeDraft("guard", text)
  BY DEF Redraft
<1>3. CASE OutOfTime
  <2>1. stage' = "expired" /\ UNCHANGED <<context, recovery, draft, basis, shown, sent>>
    BY <1>3 DEF OutOfTime
  <2> QED BY <1>1, <2>1, GivesUp DEF ReplyStages, SearchStages
<1>4. ASSUME NEW text \in Outcomes, IsUsable(text), TakeDraft("guard", text) PROVE RequestInv'
  BY <1>1, <1>4, UsableTexts, TakeDraftInv
<1>5. CASE KeepDraft
  <2>1. SearchInv /\ ReplyInv
    BY DEF RequestInv
  <2>2. /\ stage' = "guard" /\ context' = NoContext
        /\ UNCHANGED <<recovery, draft, basis, shown, sent>>
    BY <1>5 DEF KeepDraft
  <2>3. SearchInv'
    <3>1. stage' \notin SearchStages /\ context' \in {context, NoContext}
      BY <2>2 DEF SearchStages
    <3> QED BY <1>1, <2>1, <3>1, QuietSearch
  <2>4. basis = NoContext /\ recovery = "DONE" /\ ReplyTypeOK /\ ~Has(shown, "value")
    BY <1>1, <2>1 DEF ReplyInv, RecoveryInOrder, NothingInternalLeaves
  <2>5. RecoveryInOrder' /\ BasisIsContext' /\ DraftIsGuarded'
    BY <2>2, <2>4 DEF RecoveryInOrder, BasisIsContext, DraftIsGuarded, SearchStages
  <2>6. ~Has(shown', "value") /\ stage' \in ReplyStages
    BY <2>2, <2>4 DEF ReplyStages
  <2> QED BY <1>1, <2>1, <2>2, <2>3, <2>4, <2>5, <2>6, MovesOn DEF ReplyTypeOK, RequestInv
<1> QED BY <1>2, <1>3, <1>4, <1>5

\* The guard lets a text pass, asks for a rewrite of one without a raw value,
\* or refuses it for good.
LEMMA GuardInv == ASSUME RequestInv, Guard PROVE RequestInv'
<1>1. SearchInv /\ ReplyInv
  BY DEF RequestInv
<1>2. /\ stage = "guard" /\ UNCHANGED left /\ UNCHANGED searchIdle
      /\ UNCHANGED <<context, kind, recovery, basis, shown, sent>> /\ depth' \in TurnDepths
  BY DEF Guard
<1>3. ReplyTypeOK /\ ~Has(shown, "value") /\ basis = context /\ recovery # "RUNNING"
  BY <1>1, <1>2 DEF ReplyInv, NothingInternalLeaves, BasisIsContext, RecoveryInOrder, SearchStages
<1> DEFINE guarded == GuardFinalAnswer(draft)
<1>4. /\ guarded.text \in Texts /\ ToSet(guarded.text) \cap Internal = {}
      /\ guarded.regenerable => ~Has(draft, "value")
  BY <1>3, GuardedParts DEF ReplyTypeOK
<1>5. \/ stage' = "present" /\ draft' = guarded.text
      \/ stage' = "rewrite" /\ guarded.regenerable /\ UNCHANGED draft
      \/ stage' = "failed" /\ UNCHANGED draft
  BY DEF Guard
<1> HIDE DEF guarded
<1>6. SearchInv'
  <2>1. stage' \notin SearchStages /\ left' \in 0..Budget
    BY <1>1, <1>2, <1>5 DEF SearchStages, SearchInv, SearchTypeOK
  <2> QED BY <1>1, <1>2, <2>1, QuietSearch
<1>7. RecoveryInOrder' /\ BasisIsContext'
  BY <1>1, <1>2, <1>3, <1>5 DEF ReplyInv, RecoveryInOrder, BasisIsContext, SearchStages
<1>8. DraftIsGuarded'
  BY <1>4, <1>5 DEF DraftIsGuarded, Has
<1>9. /\ stage' \in ReplyStages \cup {"failed"} /\ depth' \in Depths /\ draft' \in Texts
      /\ ~Has(shown', "value")
  BY <1>2, <1>3, <1>4, <1>5 DEF ReplyStages, TurnDepths, ReplyTypeOK
<1> QED BY <1>1, <1>2, <1>3, <1>6, <1>7, <1>8, <1>9, MovesOn DEF ReplyTypeOK, RequestInv

\* A rewrite sees the draft it replaces and passes the guard itself.
LEMMA RewriteInv == ASSUME RequestInv, Rewrite PROVE RequestInv'
<1>1. /\ stage = "rewrite" /\ left' \in 0..Budget /\ UNCHANGED searchIdle /\ UNCHANGED <<kind, depth>>
  BY AwaitTime DEF Rewrite, RequestInv
<1>2. \/ OutOfTime \/ Fail
      \/ \E text \in Outcomes : IsUsable(text) /\ Rewritten(text)
  BY DEF Rewrite
<1>3. CASE OutOfTime \/ Fail
  <2>1. /\ stage' \in {"expired", "failed"}
        /\ UNCHANGED <<context, recovery, draft, basis, shown, sent>>
    BY <1>3 DEF OutOfTime, Fail
  <2> QED BY <1>1, <2>1, GivesUp DEF ReplyStages, SearchStages
<1>4. ASSUME NEW text \in Outcomes, IsUsable(text), Rewritten(text) PROVE RequestInv'
  <2> DEFINE guarded == GuardFinalAnswer(text)
  <2>1. SearchInv /\ ReplyInv
    BY DEF RequestInv
  <2>2. /\ stage' \in {"failed", "present"} /\ draft' = guarded.text /\ basis' = context
        /\ shown' = draft /\ UNCHANGED <<context, recovery, sent>>
    BY <1>4 DEF Rewritten
  <2>3. guarded.text \in Texts /\ ToSet(guarded.text) \cap Internal = {}
    BY <1>4, UsableTexts, GuardedParts
  <2> HIDE DEF guarded
  <2>4. /\ ReplyTypeOK /\ ~Has(draft, "value") /\ recovery # "RUNNING"
        /\ context.status \in {"NONE", "PASS", "FAILED"}
    BY <1>1, <2>1 DEF ReplyInv, DraftIsGuarded, RecoveryInOrder, SearchStages, SearchInv, SearchTypeOK
  <2>5. SearchInv'
    BY <1>1, <2>1, <2>2, QuietSearch DEF SearchStages
  <2>6. RecoveryInOrder' /\ BasisIsContext' /\ DraftIsGuarded'
    BY <2>1, <2>2, <2>3, <2>4
       DEF ReplyInv, RecoveryInOrder, BasisIsContext, DraftIsGuarded, SearchStages
  <2>7. /\ stage' \in ReplyStages \cup {"failed"} /\ shown' \in Texts /\ ~Has(shown', "value")
        /\ draft' \in Texts /\ basis'.status \in {"NONE", "PASS", "FAILED"}
    BY <2>2, <2>3, <2>4 DEF ReplyStages, ReplyTypeOK
  <2> QED BY <1>1, <2>1, <2>2, <2>4, <2>5, <2>6, <2>7, MovesOn DEF ReplyTypeOK, RequestInv
<1> QED BY <1>2, <1>3, <1>4

-----------------------------------------------------------------------------
(* The answer leaves.                                                      *)

LEMMA MarkersAre == Markers = {"S1", "S2", "S3", "S4"}
<1>1. DOMAIN SourceId = 1..4
  BY DEF SourceId
<1>2. /\ SourceId[1] = "S1" /\ SourceId[2] = "S2" /\ SourceId[3] = "S3" /\ SourceId[4] = "S4"
  BY DEF SourceId
<1>3. 1..4 = {1, 2, 3, 4}
  OBVIOUS
<1>4. Markers = {SourceId[i] : i \in {1, 2, 3, 4}}
  BY <1>1, <1>3 DEF Markers, ToSet
<1> QED BY <1>2, <1>4

\* A text that passed the guard and the boundaries.
IsClean(text) ==
  text \in Texts /\ ToSet(text) \cap Internal = {} /\ (IsGroup => ~Has(text, "bulk"))

\* A fixed reply is clean, and leaves as it is.
LEMMA FixedReplies ==
  ASSUME depth \in Depths, NEW p \in FixedParts, NEW suffix \in {<<>>, Disclosure}
  PROVE  IsClean(<<p>>) /\ Finalized(<<p>>, suffix) = <<p>> /\ ToSet(<<p>>) = {p}
<1>1. <<p>> \in Texts /\ Len(<<p>>) = 1 /\ ToSet(<<p>>) = {p}
  BY FixedTexts
<1>2. Finalized(<<p>>, suffix) = <<p>>
  BY <1>1, FinalizedParts
<1>3. p \notin Internal /\ p # "bulk"
  BY DEF FixedParts, Internal
<1> QED BY <1>1, <1>2, <1>3 DEF IsClean, Has

\* What leaves holds nothing internal, and a group's text keeps to its cap.
LEMMA CleanLeaves ==
  ASSUME depth \in Depths, NEW text, IsClean(text), NEW suffix \in {<<>>, Disclosure}
  PROVE  LET last == Finalized(text, suffix)
         IN  /\ last \in Texts
             /\ ToSet(last) \cap {"value", "label", "claim", "markup", "think", "open"} = {}
             /\ IsGroup =>
                  /\ ~Has(last, "bulk")
                  /\ Len(last) <= HardCap[IF depth = "DETAILED" THEN "DETAILED" ELSE "NORMAL"]
<1> DEFINE last == Finalized(text, suffix)
<1>1. /\ last \in Texts /\ ToSet(last) \subseteq ToSet(text) \cup {"BULK", "TAIL"}
      /\ IsGroup => Len(last) <= HardCap[IF depth = "DETAILED" THEN "DETAILED" ELSE "NORMAL"]
  BY FinalizedParts DEF IsClean
<1> HIDE DEF last
<1>2. ToSet(last) \subseteq Parts
  BY <1>1 DEF Texts, ToSet
<1>3. Parts \cap {"markup", "think", "open"} = {}
  BY MarkersAre DEF Parts, FixedParts
<1>4. ToSet(last) \cap {"value", "label", "claim"} = {}
  BY <1>1 DEF IsClean, Internal
<1>5. IsGroup => "bulk" \notin ToSet(last)
  BY <1>1 DEF IsClean, Has
<1> QED BY <1>1, <1>2, <1>3, <1>4, <1>5 DEF last, Has

\* What a text that leaves must say about a search, for the draft it comes from.
OwnsEvidence(last, written) ==
  /\ context.status = "PASS" =>
       /\ last \in {GroundingFailure, BulkFallback} \/ IsGrounded(written)
       /\ ToSet(last) \cap (Markers \cup {"link"}) = {}
  /\ context.status = "FAILED" => /\ ~Has(last, "searched")
                                  /\ ToSet(last) \cap Admissions # {}

\* An answer that leaves, or is too late to.
LEMMA FinishInv ==
  ASSUME RequestInv, stage \in {"present", "ground"}, left' \in 0..Budget,
         UNCHANGED searchIdle, UNCHANGED <<kind, depth, context, recovery>>,
         NEW text, IsClean(text), NEW suffix \in {<<>>, Disclosure}, Finish(text, suffix),
         NEW written \in Texts, draft' = written, OwnsEvidence(Finalized(text, suffix), written),
         basis' = context, shown' \in Texts, ~Has(shown', "value")
  PROVE  RequestInv'
<1>1. SearchInv /\ ReplyInv
  BY DEF RequestInv
<1>2. /\ ReplyTypeOK /\ recovery # "RUNNING" /\ sent = <<>>
      /\ context.status \in {"NONE", "PASS", "FAILED"} /\ context.mode \in Modes
      /\ recovery = "OFFERED" => context = NoContext
  BY <1>1 DEF ReplyInv, RecoveryInOrder, NothingSentBefore, SearchStages, SearchInv, SearchTypeOK
<1>3. stage' \in {"expired", "done"}
  BY DEF Finish
<1>4. SearchInv'
  BY <1>1, <1>3, QuietSearch DEF SearchStages
<1>5. RecoveryInOrder' /\ BasisIsContext' /\ DraftIsGuarded'
  BY <1>2, <1>3 DEF RecoveryInOrder, BasisIsContext, DraftIsGuarded, SearchStages
<1>6. basis'.status \in {"NONE", "PASS", "FAILED"}
  BY <1>2
<1>7. CASE stage' = "expired" /\ UNCHANGED sent
  <2>1. stage' \in ReplyStages /\ stage \notin {"done", "failed"}
    BY <1>7 DEF ReplyStages
  <2> QED BY <1>1, <1>2, <1>4, <1>5, <1>6, <1>7, <2>1, MovesOn DEF ReplyTypeOK, RequestInv
<1>8. CASE stage' = "done" /\ sent' = Finalized(text, suffix)
  <2> DEFINE last == Finalized(text, suffix)
             cap == HardCap[IF depth = "DETAILED" THEN "DETAILED" ELSE "NORMAL"]
  <2>1. /\ last \in Texts
        /\ ToSet(last) \cap {"value", "label", "claim", "markup", "think", "open"} = {}
        /\ IsGroup => ~Has(last, "bulk") /\ Len(last) <= cap
    BY <1>2, CleanLeaves DEF ReplyTypeOK
  <2>2. sent' = last /\ (IsGroup <=> IsGroup')
    BY <1>8 DEF IsGroup
  <2>3. OwnsEvidence(last, written)
    OBVIOUS
  <2> HIDE DEF last
  <2>4. EvidenceIsOwned'
    BY <2>2, <2>3 DEF EvidenceIsOwned, OwnsEvidence, Admissions, IsGrounded
  <2>5. {plan'.query, plan'.alt} \cap Forbidden = {}
    BY <1>4 DEF SearchInv, SearchTypeOK
  <2>6. NothingInternalLeaves'
    BY <2>1, <2>2, <2>5 DEF NothingInternalLeaves
  <2>7. ReplyTypeOK'
    BY <1>2, <1>6, <1>8, <2>1, <2>2 DEF ReplyTypeOK
  <2>8. NothingSentBefore'
    BY <1>8 DEF NothingSentBefore
  <2> QED BY <1>4, <1>5, <2>4, <2>6, <2>7, <2>8 DEF ReplyInv, RequestInv
<1> QED BY <1>7, <1>8 DEF Finish

\* The replies that stand for a failed search or a failed grounding.
LEMMA FixedEvidence ==
  ASSUME NEW last, NEW written,
         \/ last = GroundingFailure /\ context.status = "PASS"
         \/ last = NoRecentNews /\ context.status = "FAILED"
         \/ last = BulkFallback
  PROVE  OwnsEvidence(last, written)
<1>1. /\ ToSet(GroundingFailure) = {"UNGROUNDED"} /\ ToSet(NoRecentNews) = {"NONEWS"}
      /\ ToSet(BulkFallback) = {"BULK"}
  BY FixedTexts DEF GroundingFailure, NoRecentNews, BulkFallback, FixedParts
<1>2. Markers = {"S1", "S2", "S3", "S4"}
  BY MarkersAre
<1> QED BY <1>1, <1>2 DEF OwnsEvidence, Has, Admissions

\* A text through the guard and the boundaries is clean.
LEMMA BoundariesClean ==
  ASSUME depth \in Depths, NEW text \in Texts, ToSet(text) \cap Internal = {}
  PROVE  /\ IsClean(Bounded(text).text) /\ ToSet(Bounded(text).text) \cap Internal = {}
         /\ Bounded(text).blocked \in BOOLEAN
         /\ Bounded(text).blocked => Bounded(text).text = BulkFallback
<1> DEFINE bounded == Bounded(text)
<1>1. /\ bounded.text \in Texts /\ bounded.blocked \in BOOLEAN
      /\ bounded.blocked => bounded.text = BulkFallback
      /\ ToSet(bounded.text) \subseteq ToSet(text) \cup {"BULK", "TAIL"}
      /\ IsGroup => ~Has(bounded.text, "bulk")
  BY BoundariesParts
<1> HIDE DEF bounded
<1>2. ToSet(bounded.text) \cap Internal = {}
  BY <1>1 DEF Internal
<1> QED BY <1>1, <1>2 DEF bounded, IsClean

\* A failed search is disclosed, whatever the cap leaves of it.
LEMMA DisclosedEvidence ==
  ASSUME depth \in Depths, NEW text, IsClean(text), NEW written, context.status = "FAILED"
  PROVE  /\ IsClean(DiscloseWebSearchFailure(text))
         /\ OwnsEvidence(Finalized(DiscloseWebSearchFailure(text), Disclosure), written)
<1> DEFINE disclosed == DiscloseWebSearchFailure(text)
           last == Finalized(disclosed, Disclosure)
<1>1. /\ disclosed \in Texts /\ ToSet(disclosed) \subseteq ToSet(text) \cup {"DISCLOSED"}
      /\ "searched" \notin ToSet(disclosed) /\ ToSet(disclosed) \cap {"admits", "DISCLOSED"} # {}
  BY DisclosedParts DEF IsClean
<1> HIDE DEF disclosed
<1>2. IsClean(disclosed)
  BY <1>1 DEF IsClean, Internal, Has
<1>3. /\ ToSet(last) \subseteq ToSet(disclosed) \cup {"BULK", "TAIL"}
      /\ \/ ToSet(disclosed) \ {"cta"} \subseteq ToSet(last)
         \/ ToSet(last) \cap {"BULK", "TAIL"} # {}
  BY <1>1, FinalizedParts
<1> HIDE DEF last
<1>4. "searched" \notin ToSet(last) /\ ToSet(last) \cap Admissions # {}
  BY <1>1, <1>3 DEF Admissions
<1> QED BY <1>2, <1>4 DEF OwnsEvidence, Has, last, disclosed

\* A grounded answer leaves without its markers and without a link.
LEMMA GroundedEvidence ==
  ASSUME depth \in Depths, NEW text, IsClean(text), NEW written, context.status = "PASS",
         IsGrounded(written)
  PROVE  /\ IsClean(AppendGroundedSources(text))
         /\ OwnsEvidence(Finalized(AppendGroundedSources(text), <<>>), written)
<1> DEFINE grounded == AppendGroundedSources(text)
           last == Finalized(grounded, <<>>)
<1>1. grounded \in Texts /\ ToSet(grounded) = ToSet(text) \ (Markers \cup {"link"})
  BY GroundedParts DEF IsClean
<1> HIDE DEF grounded
<1>2. IsClean(grounded)
  BY <1>1 DEF IsClean, Internal, Has
<1>3. ToSet(last) \subseteq ToSet(grounded) \cup {"BULK", "TAIL"}
  BY <1>1, FinalizedParts
<1> HIDE DEF last
<1>4. ToSet(last) \cap (Markers \cup {"link"}) = {}
  BY <1>1, <1>3, MarkersAre
<1> QED BY <1>2, <1>4 DEF OwnsEvidence, last, grounded

\* A clean text that is grounded, or says what it lacks, may leave.
LEMMA PresentInv == ASSUME RequestInv, Present PROVE RequestInv'
<1>1. SearchInv /\ ReplyInv
  BY DEF RequestInv
<1>2. PICK text : text = Bounded(draft).text
  OBVIOUS
<1> DEFINE blocked == Bounded(draft).blocked
<1>3. /\ stage = "present" /\ UNCHANGED left /\ UNCHANGED searchIdle /\ draft' = text
      /\ UNCHANGED <<context, kind, depth, recovery, basis, shown>>
  BY <1>2 DEF Present
<1>4. /\ ReplyTypeOK /\ depth \in Depths /\ ~Has(shown, "value") /\ shown \in Texts /\ basis = context
      /\ draft \in Texts /\ ToSet(draft) \cap Internal = {} /\ left' \in 0..Budget
      /\ context.status \in {"NONE", "PASS", "FAILED"} /\ sent = <<>>
  BY <1>1, <1>3 DEF ReplyInv, ReplyTypeOK, NothingInternalLeaves, BasisIsContext, DraftIsGuarded,
       NothingSentBefore, SearchInv, SearchTypeOK
<1>5. /\ IsClean(text) /\ text \in Texts /\ ToSet(text) \cap Internal = {} /\ blocked \in BOOLEAN
      /\ blocked => text = BulkFallback
  BY <1>2, <1>4, BoundariesClean DEF IsClean
<1>6. \/ /\ blocked \/ context.status = "NONE"
         /\ Finish(text, <<>>)
      \/ /\ context.status = "FAILED" /\ Finish(NoRecentNews, <<>>)
      \/ /\ context.status = "FAILED" /\ Finish(DiscloseWebSearchFailure(text), Disclosure)
      \/ /\ context.status = "PASS" /\ IsGrounded(text)
         /\ Finish(AppendGroundedSources(text), <<>>)
      \/ /\ context.status = "PASS" /\ Finish(GroundingFailure, <<>>)
      \/ /\ context.status = "PASS" /\ stage' = "ground" /\ UNCHANGED sent
  BY <1>2 DEF Present
<1> HIDE DEF blocked
<1>7. ASSUME NEW out, IsClean(out), NEW suffix \in {<<>>, Disclosure}, Finish(out, suffix),
             OwnsEvidence(Finalized(out, suffix), text)
      PROVE  RequestInv'
  <2>1. basis' = context /\ shown' \in Texts /\ ~Has(shown', "value")
    BY <1>3, <1>4
  <2> QED BY <1>3, <1>4, <1>5, <1>7, <2>1, FinishInv
<1>8. ASSUME NEW p \in {"UNGROUNDED", "NONEWS", "BULK"}, NEW suffix \in {<<>>, Disclosure}
      PROVE  IsClean(<<p>>) /\ Finalized(<<p>>, suffix) = <<p>>
  BY <1>4, FixedReplies DEF FixedParts
<1>9. CASE (blocked \/ context.status = "NONE") /\ Finish(text, <<>>)
  <2>1. CASE blocked
    <3>1. text = BulkFallback /\ Finalized(text, <<>>) = BulkFallback
      BY <1>5, <1>8, <2>1 DEF BulkFallback
    <3> QED BY <1>5, <1>7, <1>9, <3>1, FixedEvidence
  <2>2. CASE context.status = "NONE"
    BY <1>5, <1>7, <1>9, <2>2 DEF OwnsEvidence
  <2> QED BY <1>9, <2>1, <2>2
<1>10. CASE context.status = "FAILED" /\ Finish(NoRecentNews, <<>>)
  <2>1. IsClean(NoRecentNews) /\ Finalized(NoRecentNews, <<>>) = NoRecentNews
    BY <1>8 DEF NoRecentNews
  <2>2. OwnsEvidence(NoRecentNews, text)
    BY <1>10, FixedEvidence
  <2> QED BY <1>7, <1>10, <2>1, <2>2
<1>11. CASE context.status = "FAILED" /\ Finish(DiscloseWebSearchFailure(text), Disclosure)
  BY <1>4, <1>5, <1>7, <1>11, DisclosedEvidence
<1>12. CASE /\ context.status = "PASS" /\ IsGrounded(text)
            /\ Finish(AppendGroundedSources(text), <<>>)
  BY <1>4, <1>5, <1>7, <1>12, GroundedEvidence
<1>13. CASE context.status = "PASS" /\ Finish(GroundingFailure, <<>>)
  <2>1. IsClean(GroundingFailure) /\ Finalized(GroundingFailure, <<>>) = GroundingFailure
    BY <1>8 DEF GroundingFailure
  <2>2. OwnsEvidence(GroundingFailure, text)
    BY <1>13, FixedEvidence
  <2> QED BY <1>7, <1>13, <2>1, <2>2
<1>14. CASE context.status = "PASS" /\ stage' = "ground" /\ UNCHANGED sent
  <2>1. SearchInv'
    BY <1>1, <1>3, <1>4, <1>14, QuietSearch DEF SearchStages
  <2>2. RecoveryInOrder' /\ BasisIsContext' /\ DraftIsGuarded'
    BY <1>1, <1>3, <1>4, <1>5, <1>14
       DEF ReplyInv, RecoveryInOrder, BasisIsContext, DraftIsGuarded, SearchStages
  <2>3. /\ stage' \in ReplyStages /\ draft' \in Texts /\ ~Has(shown', "value")
        /\ basis'.status \in {"NONE", "PASS", "FAILED"}
    BY <1>3, <1>4, <1>5, <1>14 DEF ReplyStages
  <2> QED BY <1>1, <1>3, <1>4, <1>14, <2>1, <2>2, <2>3, MovesOn DEF ReplyTypeOK, RequestInv
<1> QED BY <1>6, <1>9, <1>10, <1>11, <1>12, <1>13, <1>14

\* A repaired answer passes the same guard and boundaries.
LEMMA GroundInv == ASSUME RequestInv, Ground PROVE RequestInv'
<1>1. SearchInv /\ ReplyInv
  BY DEF RequestInv
<1>2. /\ stage = "ground" /\ left' \in 0..Budget /\ UNCHANGED searchIdle /\ UNCHANGED <<kind, depth>>
  BY <1>1, AwaitTime DEF Ground
<1>3. /\ ReplyTypeOK /\ depth \in Depths /\ ~Has(shown, "value") /\ shown \in Texts
      /\ draft \in Texts /\ context.status = "PASS" /\ basis = context
  BY <1>1, <1>2 DEF ReplyInv, ReplyTypeOK, NothingInternalLeaves, BasisIsContext
<1>4. /\ IsClean(GroundingFailure) /\ Finalized(GroundingFailure, <<>>) = GroundingFailure
      /\ \A written : OwnsEvidence(GroundingFailure, written)
  BY <1>3, FixedReplies, FixedEvidence DEF GroundingFailure, FixedParts
<1>5. \/ OutOfTime
      \/ NotRepaired
      \/ \E text \in Outcomes : IsUsable(text) /\ Repaired(text)
  BY DEF Ground
<1>6. CASE OutOfTime
  <2>1. stage' = "expired" /\ UNCHANGED <<context, recovery, draft, basis, shown, sent>>
    BY <1>6 DEF OutOfTime
  <2> QED BY <1>2, <2>1, GivesUp DEF ReplyStages, SearchStages
<1>7. CASE NotRepaired
  <2>1. PICK written : written = draft
    OBVIOUS
  <2>2. Finish(GroundingFailure, <<>>) /\ UNCHANGED <<context, recovery, draft, basis, shown>>
    BY <1>7 DEF NotRepaired
  <2>3. /\ written \in Texts /\ draft' = written /\ basis' = context /\ shown' \in Texts
        /\ ~Has(shown', "value")
    BY <1>3, <2>1, <2>2
  <2> QED BY <1>2, <1>4, <2>2, <2>3, FinishInv
<1>8. ASSUME NEW text \in Outcomes, IsUsable(text), Repaired(text) PROVE RequestInv'
  <2> DEFINE guarded == GuardFinalAnswer(text)
  <2>1. PICK written : written = Bounded(guarded.text).text
    OBVIOUS
  <2>2. /\ guarded.text \in Texts /\ ToSet(guarded.text) \cap Internal = {}
        /\ guarded.blocked \in BOOLEAN
    BY <1>8, UsableTexts, GuardedParts
  <2>3. /\ shown' = Redact(draft) /\ basis' = context /\ draft' = written
        /\ UNCHANGED <<context, recovery>>
    BY <1>8, <2>1 DEF Repaired
  <2>4. \/ Finish(GroundingFailure, <<>>)
        \/ Bounded(guarded.text).blocked /\ Finish(written, <<>>)
        \/ IsGrounded(written) /\ Finish(AppendGroundedSources(written), <<>>)
    BY <1>8, <2>1, <2>2 DEF Repaired
  <2> HIDE DEF guarded
  <2>5. /\ IsClean(written) /\ written \in Texts
        /\ Bounded(guarded.text).blocked => written = BulkFallback
    BY <1>3, <2>1, <2>2, BoundariesClean DEF IsClean
  <2>6. shown' \in Texts /\ ~Has(shown', "value")
    BY <1>3, <2>3, RedactedParts
  <2>7. ASSUME NEW out, IsClean(out), Finish(out, <<>>), OwnsEvidence(Finalized(out, <<>>), written)
        PROVE  RequestInv'
    BY <1>2, <2>3, <2>5, <2>6, <2>7, FinishInv
  <2>8. CASE Finish(GroundingFailure, <<>>)
    BY <1>4, <2>7, <2>8
  <2>9. CASE Bounded(guarded.text).blocked /\ Finish(written, <<>>)
    <3>1. Finalized(BulkFallback, <<>>) = BulkFallback
      BY <1>3, FixedReplies DEF BulkFallback, FixedParts
    <3>2. OwnsEvidence(BulkFallback, written)
      BY FixedEvidence
    <3> QED BY <2>5, <2>7, <2>9, <3>1, <3>2
  <2>10. CASE IsGrounded(written) /\ Finish(AppendGroundedSources(written), <<>>)
    BY <1>3, <2>5, <2>7, <2>10, GroundedEvidence
  <2> QED BY <2>4, <2>8, <2>9, <2>10
<1> QED BY <1>5, <1>6, <1>7, <1>8

\* The fallback names no search and nothing else.
LEMMA ExpireInv == ASSUME RequestInv, Expire PROVE RequestInv'
<1>1. SearchInv /\ ReplyInv
  BY DEF RequestInv
<1>2. /\ stage = "expired" /\ UNCHANGED searchIdle
      /\ UNCHANGED <<left, context, kind, depth, recovery, draft, basis, shown>>
      /\ \/ stage' = "failed" /\ UNCHANGED sent
         \/ stage' = "done" /\ sent' = DeadlineFallback
  BY DEF Expire
<1>3. left' \in 0..Budget
  BY <1>1, <1>2 DEF SearchInv, SearchTypeOK
<1>4. CASE stage' = "failed" /\ UNCHANGED sent
  BY <1>2, <1>3, <1>4, GivesUp DEF ReplyStages, SearchStages
<1>5. CASE stage' = "done" /\ sent' = DeadlineFallback
  <2>1. SearchInv'
    BY <1>1, <1>2, <1>3, <1>5, QuietSearch DEF SearchStages
  <2>2. ReplyTypeOK /\ ~Has(shown, "value") /\ RecoveryInOrder
    BY <1>1 DEF ReplyInv, NothingInternalLeaves
  <2>3. sent' \in Texts /\ Len(sent') = 1 /\ ToSet(sent') = {"LATE"}
    BY <1>5, FixedTexts DEF DeadlineFallback, FixedParts
  <2>4. ReplyTypeOK'
    BY <1>2, <1>5, <2>2, <2>3 DEF ReplyTypeOK
  <2>5. RecoveryInOrder' /\ BasisIsContext' /\ DraftIsGuarded' /\ NothingSentBefore'
    BY <1>2, <1>5, <2>2
       DEF RecoveryInOrder, BasisIsContext, DraftIsGuarded, NothingSentBefore, SearchStages
  <2>6. EvidenceIsOwned'
    BY <1>5 DEF EvidenceIsOwned, Answered
  <2>7. \A d \in {"NORMAL", "DETAILED"} : HardCap[d] \in Nat /\ 1 <= HardCap[d]
    BY CapAssumption
  <2>8. NothingInternalLeaves'
    BY <1>2, <2>1, <2>2, <2>3, <2>7 DEF NothingInternalLeaves, SearchInv, SearchTypeOK, Has
  <2> QED BY <2>1, <2>4, <2>5, <2>6, <2>8 DEF ReplyInv, RequestInv
<1> QED BY <1>2, <1>4, <1>5

-----------------------------------------------------------------------------
(* The theorems.                                                           *)

LEMMA RequestStepInv == RequestInv /\ [RequestNext]_requestVars => RequestInv'
<1> SUFFICES ASSUME RequestInv, [RequestNext]_requestVars PROVE RequestInv'
  OBVIOUS
<1>1. CASE Search /\ UNCHANGED replyVars
  BY <1>1, SearchStep, SearchKeepsReply DEF RequestInv
<1>2. CASE Reply
  BY <1>2, PlanInv, TakeResolutionInv, DraftInv, RepairMarkupInv, SkipRecoveryInv, RecoverInv,
     RedraftInv, GuardInv, RewriteInv, PresentInv, GroundInv, ExpireInv DEF Reply
<1>3. CASE UNCHANGED requestVars
  <2>1. UNCHANGED <<left, stage, plan, route, query, context>>
        /\ UNCHANGED <<kind, depth, recovery, draft, basis, shown, sent>>
    BY <1>3 DEF requestVars, searchVars, replyVars
  <2>2. SearchInv'
    BY <2>1 DEF RequestInv, SearchInv, SearchTypeOK, PlanIsWhole, QueryRuns, OneWindowOfFallbacks,
         FallbackFits
  <2>3. ReplyTypeOK' /\ RecoveryInOrder' /\ BasisIsContext' /\ DraftIsGuarded' /\ NothingSentBefore'
    BY <2>1 DEF RequestInv, ReplyInv, ReplyTypeOK, RecoveryInOrder, BasisIsContext, DraftIsGuarded,
         NothingSentBefore
  <2>4. EvidenceIsOwned'
    BY <2>1 DEF RequestInv, ReplyInv, EvidenceIsOwned, Answered, IsGrounded
  <2>5. NothingInternalLeaves'
    BY <2>1 DEF RequestInv, ReplyInv, NothingInternalLeaves, IsGroup
  <2> QED BY <2>2, <2>3, <2>4, <2>5 DEF RequestInv, ReplyInv
<1> QED BY <1>1, <1>2, <1>3 DEF RequestNext, RequestEnded

\* The invariant holds in every state of every request.
THEOREM RequestInvariance == RequestSpec => []RequestInv
  BY RequestInitInv, RequestStepInv, PTL DEF RequestSpec

\* What an answer says about a search is what the search in its own prompt
\* allows: presented, cited and without links where it passed, admitted where it
\* failed.
THEOREM EvidenceStaysOwned == RequestSpec => []EvidenceIsOwned
<1>1. RequestInv => EvidenceIsOwned
  BY DEF RequestInv, ReplyInv
<1> QED BY <1>1, RequestInvariance, PTL

\* No raw value reaches a provider, a later generation or the chat, and a group
\* never gets bulk or a text above its cap.
THEOREM InternalsStayIn == RequestSpec => []NothingInternalLeaves
<1>1. RequestInv => NothingInternalLeaves
  BY DEF RequestInv, ReplyInv
<1> QED BY <1>1, RequestInvariance, PTL

\* A step of an optional stage that takes time keeps the reserve.
LEMMA OptionalStep ==
  ASSUME RequestInv, RequestNext, IsOptional, left' # left
  PROVE  left' >= Reserve
<1>1. SearchInv /\ left \in 0..Budget
  BY DEF RequestInv, SearchInv, SearchTypeOK
<1>2. stage \in {"page", "quality", "query"}
  BY DEF IsOptional
<1>3. SearchCall \/ FetchPages \/ AskQuality
  BY <1>2 DEF RequestNext, Search, Reply, RequestEnded, requestVars, searchVars,
       QueryOutOfTime, Alternate, MergeAndRank, SkipPages, SkipQuality, Retry, Bound, Plan,
       TakeResolution, Draft, RepairMarkup, SkipRecovery, Recover, Redraft, Guard, Rewrite, Present,
       Ground, Expire
<1>4. CASE SearchCall
  <2>1. /\ stage = "query" /\ left - Ceiling >= 1 /\ Spend(Least(query.timeout, left - Ceiling))
    BY <1>4 DEF SearchCall
  <2>2. plan.round = 2 \/ query.origin = "ALTERNATE" \/ query.provider > 1
    BY <2>1 DEF IsOptional
  <2> QED BY <1>1, <2>1, <2>2, CallTime
<1>5. CASE FetchPages
  <2>1. Spare >= MinStage
    BY <1>5 DEF FetchPages
  <2>2. PICK t \in 0..Least(PageTimeout, Spare) : left' = left - t
    BY <1>5 DEF FetchPages
  <2> QED BY <1>1, <2>1, <2>2, PageTime
<1>6. CASE AskQuality
  BY <1>1, <1>6, GateTime DEF AskQuality, NeedsGate
<1> QED BY <1>3, <1>4, <1>5, <1>6

\* Pages, the quality gate, the alternate query, a retry and a fallback provider
\* leave the final answer the reserve it had.
THEOREM ReserveStaysKept == RequestSpec => ReserveIsKept
<1>1. RequestInv /\ [RequestNext]_requestVars
        => [IsOptional /\ left' # left => left' >= Reserve]_requestVars
  BY OptionalStep
<1> QED BY <1>1, RequestInvariance, PTL DEF RequestSpec, ReserveIsKept

-----------------------------------------------------------------------------
(* The results of a request.                                               *)

\* A search begins with nothing kept, and only a second round merges with what it
\* finds kept.
KeptBegins ==
  /\ stage \in {"planner", "draft", "repair", "recover", "resolved"} => kept = <<>>
  /\ stage \in {"query", "alternate", "merge"} /\ plan.round = 1 => kept = <<>>
  /\ stage = "retry" => plan.round = 2

\* The results kept are the canonical ones of different pages, so that no page held
\* is taken for another result's duplicate when a retry's are merged into them.
ResultsInv ==
  /\ ResultsTypeOK /\ IsBare(found) /\ IsCanonical(kept) /\ HasNoDuplicates(kept)
  /\ Total(CharsOf(kept)) <= MaxTotalChars
  /\ KeptBegins

\* Without results there is nothing to show.
LEMMA NoResults ==
  /\ <<>> \in Seq(Result) /\ IsBare(<<>>) /\ IsCanonical(<<>>) /\ HasNoDuplicates(<<>>)
  /\ Total(CharsOf(<<>>)) <= MaxTotalChars
<1>1. <<>> \in Seq(Result) /\ DOMAIN <<>> = {}
  OBVIOUS
<1>2. IsBare(<<>>) /\ IsCanonical(<<>>) /\ HasNoDuplicates(<<>>)
  BY <1>1 DEF IsBare, IsCanonical, HasNoDuplicates
<1>3. Total(CharsOf(<<>>)) <= MaxTotalChars
  <2>1. CharsOf(<<>>) = <<>> /\ <<>> \in Seq(Nat) /\ Len(<<>>) = 0
    BY DEF CharsOf
  <2>2. PICK sum \in [0..0 -> Nat] : sum[0] = 0 /\ Total(<<>>) = sum[0]
    BY <2>1, PartialSums
  <2>3. MaxTotalChars \in Nat
    BY ResultAssumption
  <2> QED BY <2>1, <2>2, <2>3
<1> QED BY <1>1, <1>2, <1>3

\* Where results stay as they are only their place matters.
LEMMA ResultsStay ==
  ASSUME ResultsInv, UNCHANGED <<found, kept>>, context'.results \in {context.results, <<>>},
         KeptBegins'
  PROVE  ResultsInv'
<1>1. ResultsTypeOK'
  BY NoResults DEF ResultsInv, ResultsTypeOK
<1> QED BY <1>1 DEF ResultsInv

LEMMA BegunWithoutResults ==
  ASSUME NEW p, BeginSearch(p)
  PROVE  context'.results \in {context.results, <<>>}
BY DEF BeginSearch, NoContext

\* The reply takes the results as they are.
LEMMA ReplyLeavesResults ==
  ASSUME ResultsInv, Reply
  PROVE  /\ UNCHANGED <<found, kept>> /\ context'.results \in {context.results, <<>>}
         /\ \/ kept = <<>> /\ stage' # "retry"
            \/ stage' \in {"guard", "rewrite", "present", "ground", "expired", "done", "failed"}
<1> USE DEF ResultsInv, KeptBegins, searchIdle, NoContext
<1>1. CASE Plan
  <2>1. stage = "planner" /\ UNCHANGED <<found, kept>> /\ kept = <<>>
    BY <1>1 DEF Plan
  <2>2. \/ stage' \in {"expired", "draft"} /\ UNCHANGED context
        \/ \E p \in PlannedDecisions : BeginSearch(p)
    BY <1>1 DEF Plan
  <2>3. ASSUME NEW p, BeginSearch(p) PROVE stage' \in {"resolved", "query"}
    BY <2>3 DEF BeginSearch
  <2> QED BY <2>1, <2>2, <2>3, BegunWithoutResults
<1>2. CASE TakeResolution
  BY <1>2 DEF TakeResolution
<1>3. CASE Draft
  BY <1>3 DEF Draft, OutOfTime, TakeDraft, Fail
<1>4. CASE RepairMarkup
  BY <1>4 DEF RepairMarkup, OutOfTime, TakeDraft, Fail
<1>5. CASE SkipRecovery
  BY <1>5 DEF SkipRecovery
<1>6. CASE Recover
  <2>1. stage = "recover" /\ UNCHANGED <<found, kept>> /\ kept = <<>>
    BY <1>6 DEF Recover
  <2>2. \/ stage' = "guard" /\ UNCHANGED context
        \/ \E p : BeginSearch(p)
    BY <1>6 DEF Recover
  <2>3. ASSUME NEW p, BeginSearch(p) PROVE stage' \in {"resolved", "query"}
    BY <2>3 DEF BeginSearch
  <2> QED BY <2>1, <2>2, <2>3, BegunWithoutResults
<1>7. CASE Redraft
  BY <1>7 DEF Redraft, OutOfTime, TakeDraft, KeepDraft
<1>8. CASE Guard
  BY <1>8 DEF Guard
<1>9. CASE Rewrite
  BY <1>9 DEF Rewrite, OutOfTime, Rewritten, Fail
<1>10. CASE Present
  BY <1>10 DEF Present, Finish
<1>11. CASE Ground
  <2>1. UNCHANGED <<found, kept, context>>
    BY <1>11 DEF Ground, OutOfTime, Repaired, NotRepaired
  <2>2. stage' \in {"expired", "done"}
    BY <1>11 DEF Ground, OutOfTime, Repaired, NotRepaired, Finish
  <2> QED BY <2>1, <2>2
<1>12. CASE Expire
  BY <1>12 DEF Expire
<1> QED BY <1>1, <1>2, <1>3, <1>4, <1>5, <1>6, <1>7, <1>8, <1>9, <1>10, <1>11, <1>12 DEF Reply

\* What a query found, without page text, joins what was found before it.
LEMMA MoreFound ==
  ASSUME ResultsInv, NEW results \in Seq(Result), IsBare(results), EndQuery(results)
  PROVE  found' \in Seq(Result) /\ IsBare(found')
<1>1. found \in Seq(Result) /\ IsBare(found) /\ found' = found \o results
  BY DEF ResultsInv, ResultsTypeOK, EndQuery
<1>2. /\ found \o results \in Seq(Result)
      /\ Len(found) \in Nat /\ Len(results) \in Nat
      /\ DOMAIN found = 1..Len(found) /\ DOMAIN results = 1..Len(results)
      /\ DOMAIN (found \o results) = 1..(Len(found) + Len(results))
      /\ \A i \in 1..(Len(found) + Len(results)) :
           (found \o results)[i] = IF i <= Len(found) THEN found[i] ELSE results[i - Len(found)]
  BY <1>1, ConcatProperties
<1>3. ASSUME NEW i \in DOMAIN (found \o results) PROVE (found \o results)[i].chars = 0
  <2>1. CASE i <= Len(found)
    <3>1. i \in DOMAIN found /\ (found \o results)[i] = found[i]
      BY <1>2, <2>1
    <3> QED BY <1>1, <3>1 DEF IsBare
  <2>2. CASE ~(i <= Len(found))
    <3>1. i - Len(found) \in DOMAIN results /\ (found \o results)[i] = results[i - Len(found)]
      BY <1>2, <2>2
    <3> QED BY <3>1 DEF IsBare
  <2> QED BY <2>1, <2>2
<1> QED BY <1>1, <1>2, <1>3 DEF IsBare

\* A call adds results or none.
LEMMA QueryResults ==
  ASSUME RequestInv, ResultsInv, QueryOutOfTime \/ SearchCall
  PROVE  ResultsInv'
<1>1. /\ stage = "query" /\ UNCHANGED <<plan, kept, context>>
      /\ stage' \in {"query", "expired", "alternate", "merge"}
  BY DEF QueryOutOfTime, SearchCall, EndQuery
<1>2. query.origin \in {"PRIMARY", "ALTERNATE"} /\ plan.round \in {1, 2}
  BY <1>1 DEF RequestInv, SearchInv, QueryRuns, SearchTypeOK
<1>3. \/ UNCHANGED found
      \/ EndQuery(<<>>)
      \/ \E items \in ProviderAnswers :
           EndQuery(NormalizeWebSearchResults(Retrieved(ProviderSearch(items), query.origin,
                                                        plan.round)))
  BY DEF QueryOutOfTime, SearchCall
<1>4. found' \in Seq(Result) /\ IsBare(found')
  <2>1. CASE UNCHANGED found
    BY <2>1 DEF ResultsInv, ResultsTypeOK
  <2>2. CASE EndQuery(<<>>)
    BY <2>2, NoResults, MoreFound
  <2>3. ASSUME NEW items \in ProviderAnswers,
               EndQuery(NormalizeWebSearchResults(Retrieved(ProviderSearch(items), query.origin,
                                                            plan.round)))
        PROVE  found' \in Seq(Result) /\ IsBare(found')
    <3> DEFINE results == NormalizeWebSearchResults(Retrieved(ProviderSearch(items), query.origin,
                                                              plan.round))
    <3>1. results \in Seq(Result) /\ IsBare(results)
      BY <1>2, FoundResults
    <3> HIDE DEF results
    <3> QED BY <2>3, <3>1, MoreFound DEF results
  <2> QED BY <1>3, <2>1, <2>2, <2>3
<1>5. KeptBegins'
  BY <1>1 DEF ResultsInv, KeptBegins
<1>6. ResultsTypeOK'
  BY <1>1, <1>4 DEF ResultsInv, ResultsTypeOK
<1> QED BY <1>1, <1>4, <1>5, <1>6 DEF ResultsInv

\* A search ends without any result of its own left.
LEMMA ResolvedResults ==
  ASSUME NEW outcome, Resolve(outcome), outcome.results \in Seq(Result)
  PROVE  ResultsInv'
<1>1. /\ found' = <<>> /\ kept' = <<>> /\ stage' = "resolved" /\ context'.results \in Seq(Result)
  BY DEF Resolve
<1>2. ResultsTypeOK' /\ KeptBegins'
  BY <1>1, NoResults DEF ResultsTypeOK, KeptBegins
<1> QED BY <1>1, <1>2, NoResults DEF ResultsInv

LEMMA MergeResults ==
  ASSUME ResultsInv, MergeAndRank
  PROVE  ResultsInv' /\ \A k \in DOMAIN kept : HasPage(kept[k]) => kept[k] \in ToSet(kept')
<1>1. stage = "merge" /\ found \in Seq(Result) /\ kept \in Seq(Result)
  BY DEF MergeAndRank, ResultsInv, ResultsTypeOK
<1>2. CASE plan.round = 1 /\ found = <<>>
  <2>1. kept = <<>> /\ Resolve(NothingFound)
    BY <1>1, <1>2 DEF MergeAndRank, ResultsInv, KeptBegins
  <2>2. NothingFound.results \in Seq(Result)
    BY NoResults DEF NothingFound, NoContext
  <2>3. ResultsInv'
    BY <2>1, <2>2, ResolvedResults
  <2>4. DOMAIN kept = {}
    BY <2>1
  <2> QED BY <2>3, <2>4
<1>3. CASE ~(plan.round = 1 /\ found = <<>>)
  <2>1. stage' = "page" /\ kept' = Merged /\ found' = <<>> /\ UNCHANGED context
    BY <1>3 DEF MergeAndRank
  <2>2. /\ kept' \in Seq(Result) /\ IsCanonical(kept') /\ HasNoDuplicates(kept')
        /\ Total(CharsOf(kept')) <= Total(CharsOf(kept))
        /\ ToSet(kept) \subseteq ToSet(kept')
    BY <1>1, <2>1, MergedResults DEF Merged, ResultsInv
  <2>3. Total(CharsOf(kept')) <= MaxTotalChars
    <3>1. Total(CharsOf(kept')) \in Int /\ Total(CharsOf(kept)) \in Int /\ MaxTotalChars \in Int
      BY <1>1, <2>2, CharsAreNumbers, TotalIsNumber, ResultAssumption
    <3> QED BY <2>2, <3>1 DEF ResultsInv
  <2>4. ResultsTypeOK' /\ KeptBegins'
    BY <1>1, <2>1, <2>2, NoResults DEF ResultsInv, ResultsTypeOK, KeptBegins
  <2>5. \A k \in DOMAIN kept : kept[k] \in ToSet(kept')
    BY <2>2 DEF ToSet
  <2> QED BY <2>1, <2>2, <2>3, <2>4, <2>5, NoResults DEF ResultsInv
<1> QED BY <1>2, <1>3

LEMMA PagesResults ==
  ASSUME ResultsInv, FetchPages
  PROVE  ResultsInv' /\ \A k \in DOMAIN kept : HasPage(kept[k]) => kept[k] \in ToSet(kept')
<1>1. kept \in Seq(Result)
  BY DEF ResultsInv, ResultsTypeOK
<1>2. /\ stage' \in {"quality", "bound"} /\ UNCHANGED <<found, context>>
      /\ \/ UNCHANGED kept
         \/ \E finished \in FinishedPages(kept) : kept' = EnrichWebSearchResults(kept, finished)
  BY DEF FetchPages, AfterPages
<1>3. KeptBegins'
  BY <1>2 DEF KeptBegins
<1>4. CASE UNCHANGED kept
  <2>1. ResultsInv'
    BY <1>2, <1>3, <1>4, ResultsStay
  <2>2. \A k \in DOMAIN kept : kept[k] \in ToSet(kept')
    BY <1>4 DEF ToSet
  <2> QED BY <2>1, <2>2
<1>5. CASE \E finished \in FinishedPages(kept) : kept' = EnrichWebSearchResults(kept, finished)
  <2>1. PICK finished \in FinishedPages(kept) : kept' = EnrichWebSearchResults(kept, finished)
    BY <1>5
  <2>2. finished \in SUBSET (1..Len(PageCandidates(kept)))
    BY DEF FinishedPages
  <2>3. Total(CharsOf(kept)) <= MaxTotalChars
    BY DEF ResultsInv
  <2>4. /\ kept' \in Seq(Result) /\ IsCanonical(kept') /\ HasNoDuplicates(kept')
        /\ Total(CharsOf(kept')) <= MaxTotalChars
        /\ \A k \in DOMAIN kept : HasPage(kept[k]) => kept[k] \in ToSet(kept')
    BY <1>1, <2>1, <2>2, <2>3, EnrichedResults DEF ResultsInv
  <2>5. ResultsTypeOK'
    BY <1>2, <2>4 DEF ResultsInv, ResultsTypeOK
  <2> QED BY <1>2, <1>3, <2>4, <2>5 DEF ResultsInv
<1> QED BY <1>2, <1>4, <1>5

\* The steps that only decide what comes next.
LEMMA StagesResults ==
  ASSUME RequestInv, ResultsInv,
         Alternate \/ SkipPages \/ AskQuality \/ SkipQuality \/ Retry
  PROVE  ResultsInv' /\ UNCHANGED kept
<1>1. UNCHANGED <<found, kept, context>>
  BY DEF Alternate, SkipPages, AskQuality, SkipQuality, Retry
<1>2. KeptBegins'
  <2>1. CASE Alternate
    BY <2>1 DEF Alternate, ResultsInv, KeptBegins
  <2>2. CASE SkipPages
    BY <2>2 DEF SkipPages, AfterPages, KeptBegins
  <2>3. CASE AskQuality
    <3>1. CASE stage' = "bound"
      BY <3>1 DEF KeptBegins
    <3>2. CASE stage' = "retry"
      <4>1. plan'.round = 2
        <5>1. PICK g \in GateDecisions :
                plan' = [plan EXCEPT !.query = g.query, !.alt = g.alt, !.mode = g.mode, !.round = 2,
                                     !.window = IF g.window = "NONE" THEN @ ELSE g.window]
          BY <2>3, <3>2 DEF AskQuality
        <5> QED BY <5>1 DEF RequestInv, SearchInv, PlanIsWhole
      <4> QED BY <3>2, <4>1 DEF KeptBegins
    <3> QED BY <2>3, <3>1, <3>2 DEF AskQuality
  <2>4. CASE SkipQuality
    BY <2>4 DEF SkipQuality, KeptBegins
  <2>5. CASE Retry
    BY <2>5 DEF Retry, ResultsInv, KeptBegins
  <2> QED BY <2>1, <2>2, <2>3, <2>4, <2>5
<1> QED BY <1>1, <1>2, ResultsStay

LEMMA ResultsInit == RequestInit => ResultsInv
<1> SUFFICES ASSUME RequestInit PROVE ResultsInv
  OBVIOUS
<1>1. /\ found = <<>> /\ kept = <<>> /\ context = NoContext /\ stage \in {"planner", "draft"}
  BY DEF RequestInit
<1>2. ResultsTypeOK /\ KeptBegins
  BY <1>1, NoResults DEF ResultsTypeOK, KeptBegins, NoContext
<1> QED BY <1>1, <1>2, NoResults DEF ResultsInv

LEMMA ResultsStep ==
  ASSUME RequestInv, ResultsInv, [RequestNext]_requestVars
  PROVE  ResultsInv'
<1>1. CASE Search
  <2>1. CASE Bound
    <3> DEFINE section == BuildWebSearchContext(kept)
               outcome == IF section = <<>> THEN NothingFound
                          ELSE [status |-> "PASS", mode |-> plan.mode, results |-> section]
    <3>1. Resolve(outcome)
      BY <2>1 DEF Bound
    <3>2. section \in Seq(Result)
      BY SectionResults DEF ResultsInv, ResultsTypeOK
    <3>3. outcome.results \in Seq(Result)
      BY <3>2, NoResults DEF NothingFound, NoContext
    <3> HIDE DEF outcome
    <3> QED BY <3>1, <3>3, ResolvedResults
  <2> QED BY <1>1, <2>1, QueryResults, MergeResults, PagesResults, StagesResults DEF Search
<1>2. CASE Reply
  <2>1. /\ UNCHANGED <<found, kept>> /\ context'.results \in {context.results, <<>>}
        /\ \/ kept = <<>> /\ stage' # "retry"
           \/ stage' \in {"guard", "rewrite", "present", "ground", "expired", "done", "failed"}
    BY <1>2, ReplyLeavesResults
  <2>2. KeptBegins'
    BY <2>1 DEF KeptBegins
  <2> QED BY <2>1, <2>2, ResultsStay
<1>3. CASE UNCHANGED requestVars
  <2>1. UNCHANGED <<stage, plan, found, kept, context>>
    BY <1>3 DEF requestVars, searchVars
  <2> QED BY <2>1, ResultsStay DEF ResultsInv, KeptBegins
<1> QED BY <1>1, <1>2, <1>3 DEF RequestNext, RequestEnded

THEOREM ResultsInvariance == RequestSpec => []ResultsInv
<1>1. RequestInv /\ ResultsInv /\ [RequestNext]_requestVars => ResultsInv'
  BY ResultsStep
<1> QED BY <1>1, ResultsInit, RequestInvariance, PTL DEF RequestSpec

\* Every variable has its type in every state of every request, the search
\* results included.
THEOREM RequestTypeCorrectness == RequestSpec => []RequestTypeOK
<1>1. RequestInv /\ ResultsInv => RequestTypeOK
  BY DEF RequestInv, SearchInv, ReplyInv, ResultsInv, RequestTypeOK
<1> QED BY <1>1, RequestInvariance, ResultsInvariance, PTL

\* Page text once fetched is kept by the merge of a retry and by a second
\* enrichment, and all of it together stays within the request's total.
THEOREM PageEvidenceStays == RequestSpec => PageEvidenceIsKept
<1> DEFINE Step == (stage \in {"merge", "page", "retry"}) =>
                      /\ \A k \in DOMAIN kept : HasPage(kept[k]) => kept[k] \in ToSet(kept')
                      /\ Total([k \in DOMAIN kept' |-> kept'[k].chars]) <= MaxTotalChars
<1>1. ASSUME RequestInv, ResultsInv, [RequestNext]_requestVars PROVE [Step]_requestVars
  <2> SUFFICES ASSUME RequestNext, stage \in {"merge", "page", "retry"}
               PROVE  /\ \A k \in DOMAIN kept : HasPage(kept[k]) => kept[k] \in ToSet(kept')
                      /\ Total([k \in DOMAIN kept' |-> kept'[k].chars]) <= MaxTotalChars
    BY <1>1
  <2>1. Total([k \in DOMAIN kept' |-> kept'[k].chars]) <= MaxTotalChars
    BY <1>1, ResultsStep DEF ResultsInv, CharsOf
  <2>2. MergeAndRank \/ FetchPages \/ SkipPages \/ Retry
    BY DEF RequestNext, Search, Reply, RequestEnded, QueryOutOfTime, SearchCall, Alternate,
         AskQuality, SkipQuality, Bound, Plan, TakeResolution, Draft, RepairMarkup, SkipRecovery,
         Recover, Redraft, Guard, Rewrite, Present, Ground, Expire
  <2>3. \A k \in DOMAIN kept : HasPage(kept[k]) => kept[k] \in ToSet(kept')
    <3>1. UNCHANGED kept => \A k \in DOMAIN kept : kept[k] \in ToSet(kept')
      BY DEF ToSet
    <3> QED BY <1>1, <2>2, <3>1, MergeResults, PagesResults, StagesResults
  <2> QED BY <2>1, <2>3
<1>2. RequestInv /\ ResultsInv /\ [RequestNext]_requestVars => [Step]_requestVars
  BY <1>1
<1> QED BY <1>2, RequestInvariance, ResultsInvariance, PTL DEF RequestSpec, PageEvidenceIsKept

-----------------------------------------------------------------------------
(* No step goes back.                                                      *)

LEMMA NearerAt ==
  ASSUME NEW a1 \in Int, NEW a2 \in Int, NEW a3 \in Int, NEW a4 \in Int,
         NEW b1 \in Int, NEW b2 \in Int, NEW b3 \in Int, NEW b4 \in Int,
         \/ a1 < b1
         \/ a1 = b1 /\ a2 < b2
         \/ a1 = b1 /\ a2 = b2 /\ a3 < b3
         \/ a1 = b1 /\ a2 = b2 /\ a3 = b3 /\ a4 < b4
  PROVE  IsNearer(<<a1, a2, a3, a4>>, <<b1, b2, b3, b4>>)
<1> DEFINE d == <<a1, a2, a3, a4>>
           e == <<b1, b2, b3, b4>>
<1>1. /\ d[1] = a1 /\ d[2] = a2 /\ d[3] = a3 /\ d[4] = a4
      /\ e[1] = b1 /\ e[2] = b2 /\ e[3] = b3 /\ e[4] = b4
  OBVIOUS
<1> HIDE DEF d, e
<1>2. CASE a1 < b1
  <2>1. 1 \in 1..4 /\ d[1] < e[1] /\ \A j \in 1..(1 - 1) : d[j] = e[j]
    BY <1>1, <1>2
  <2> QED BY <2>1 DEF IsNearer, d, e
<1>3. CASE a1 = b1 /\ a2 < b2
  <2>1. 2 \in 1..4 /\ d[2] < e[2] /\ \A j \in 1..(2 - 1) : d[j] = e[j]
    BY <1>1, <1>3
  <2> QED BY <2>1 DEF IsNearer, d, e
<1>4. CASE a1 = b1 /\ a2 = b2 /\ a3 < b3
  <2>1. 3 \in 1..4 /\ d[3] < e[3] /\ \A j \in 1..(3 - 1) : d[j] = e[j]
    BY <1>1, <1>4
  <2> QED BY <2>1 DEF IsNearer, d, e
<1>5. CASE a1 = b1 /\ a2 = b2 /\ a3 = b3 /\ a4 < b4
  <2>1. 4 \in 1..4 /\ d[4] < e[4] /\ \A j \in 1..(4 - 1) : d[j] = e[j]
    BY <1>1, <1>5
  <2> QED BY <2>1 DEF IsNearer, d, e
<1> QED BY <1>2, <1>3, <1>4, <1>5

\* The ranks of the reply and of the search.
LEMMA StageRanks ==
  /\ ReplyRank["expired"] = 1 /\ ReplyRank["ground"] = 2 /\ ReplyRank["present"] = 3
  /\ ReplyRank["rewrite"] = 4 /\ ReplyRank["guard"] = 5 /\ ReplyRank["redraft"] = 6
  /\ ReplyRank["RECOVERY"] = 7 /\ ReplyRank["recover"] = 8 /\ ReplyRank["repair"] = 9
  /\ ReplyRank["draft"] = 10 /\ ReplyRank["SEARCH"] = 11 /\ ReplyRank["planner"] = 12
  /\ SearchRank["bound"] = 1 /\ SearchRank["quality"] = 2 /\ SearchRank["page"] = 3
  /\ SearchRank["merge"] = 4 /\ SearchRank["ALTERNATE"] = 5 /\ SearchRank["alternate"] = 6
  /\ SearchRank["PRIMARY"] = 7 /\ SearchRank["retry"] = 8
  BY DEF ReplyRank, SearchRank

\* How far a search is from the reply that waits for it.
Waiting == ReplyRank[IF recovery = "RUNNING" THEN "RECOVERY" ELSE "SEARCH"]
Substage == SearchRank[IF stage = "query" THEN query.origin ELSE stage]
ToTry == 2 * (Len(route) - query.provider) - query.window

DistanceIs ==
  /\ stage \in {"done", "failed"} => Distance = <<0, 0, 0, 0>>
  /\ stage \in ReplyStages => Distance = <<ReplyRank[stage], 0, 0, 0>>
  /\ stage = "resolved" => Distance = <<Waiting, 0, 0, 0>>
  /\ stage \in SearchStages => Distance = <<Waiting, 3 - plan.round, Substage, ToTry>>

LEMMA DistanceNow == DistanceIs
<1> USE DEF DistanceIs
<1>1. CASE stage \in {"done", "failed"}
  BY <1>1 DEF Distance, ReplyStages, SearchStages
<1>2. CASE stage \in ReplyStages
  BY <1>2 DEF Distance, ReplyStages, SearchStages
<1>3. CASE stage = "resolved"
  BY <1>3 DEF Distance, ReplyStages, SearchStages, Waiting
<1>4. CASE stage \in SearchStages
  <2>1. stage \notin {"done", "failed", "resolved"} /\ stage \notin ReplyStages
    BY <1>4 DEF ReplyStages, SearchStages
  <2>2. Distance = <<Waiting, 3 - plan.round, Substage, ToTry>>
    BY <2>1 DEF Distance, Waiting, Substage, ToTry
  <2> QED BY <2>1, <2>2
<1> QED BY <1>1, <1>2, <1>3, <1>4

LEMMA DistanceLater == DistanceIs'
  BY DistanceNow, PTL

\* The first part of the distance.
Rank == IF stage \in {"done", "failed"} THEN 0
        ELSE IF stage \in ReplyStages THEN ReplyRank[stage] ELSE Waiting

DistanceIsRanked ==
  /\ Rank \in Nat
  /\ \E x, y, z \in Int : Distance = <<Rank, x, y, z>>
  /\ stage \in SearchStages =>
       Waiting \in {7, 11} /\ 3 - plan.round \in {1, 2} /\ Substage \in Int /\ ToTry \in Int

LEMMA DistanceRanked == RequestInv => DistanceIsRanked
<1> SUFFICES ASSUME RequestInv PROVE DistanceIsRanked
  OBVIOUS
<1>1. SearchTypeOK /\ ReplyTypeOK /\ QueryRuns
  BY DEF RequestInv, SearchInv, ReplyInv
<1>2. Waiting \in {7, 11}
  BY StageRanks DEF Waiting
<1>3. CASE stage \in {"done", "failed"}
  <2>1. Rank = 0 /\ Distance = <<0, 0, 0, 0>> /\ stage \notin SearchStages
    BY <1>3, DistanceNow DEF Rank, DistanceIs, SearchStages
  <2> QED BY <2>1 DEF DistanceIsRanked
<1>4. CASE stage \in ReplyStages
  <2>1. /\ Rank = ReplyRank[stage] /\ Distance = <<ReplyRank[stage], 0, 0, 0>>
        /\ stage \notin SearchStages
    BY <1>4, DistanceNow DEF Rank, DistanceIs, ReplyStages, SearchStages
  <2>2. ReplyRank[stage] \in Nat
    BY <1>4, StageRanks DEF ReplyStages
  <2> QED BY <2>1, <2>2 DEF DistanceIsRanked
<1>5. CASE stage = "resolved"
  <2>1. Rank = Waiting /\ Distance = <<Waiting, 0, 0, 0>> /\ stage \notin SearchStages
    BY <1>5, DistanceNow DEF Rank, DistanceIs, ReplyStages, SearchStages
  <2> QED BY <1>2, <2>1 DEF DistanceIsRanked
<1>6. CASE stage \in SearchStages
  <2>1. Rank = Waiting /\ Distance = <<Waiting, 3 - plan.round, Substage, ToTry>>
    BY <1>6, DistanceNow DEF Rank, DistanceIs, ReplyStages, SearchStages
  <2>2. 3 - plan.round \in {1, 2}
    BY <1>1 DEF SearchTypeOK
  <2>3. Substage \in Int
    BY <1>1, <1>6, StageRanks DEF Substage, SearchStages, QueryRuns
  <2>4. ToTry \in Int
    <3>1. Len(route) \in Int /\ query.provider \in Int /\ query.window \in Int
      BY <1>1 DEF SearchTypeOK
    <3> QED BY <3>1 DEF ToTry
  <2> QED BY <1>2, <2>1, <2>2, <2>3, <2>4 DEF DistanceIsRanked
<1> QED BY <1>1, <1>3, <1>4, <1>5, <1>6 DEF ReplyTypeOK

LEMMA DistanceRankedLater == RequestInv' => DistanceIsRanked'
  BY DistanceRanked, PTL

\* A lower rank is nearer, whatever the rest.
LEMMA LowerRank ==
  ASSUME RequestInv, RequestInv', Rank' < Rank
  PROVE  IsNearer(Distance', Distance)
<1>1. PICK x \in Int, y \in Int, z \in Int : Distance = <<Rank, x, y, z>>
  BY DistanceRanked DEF DistanceIsRanked
<1>2. PICK u \in Int, v \in Int, w \in Int : Distance' = <<Rank', u, v, w>>
  BY DistanceRankedLater DEF DistanceIsRanked
<1>3. Rank \in Int /\ Rank' \in Int
  BY DistanceRanked, DistanceRankedLater DEF DistanceIsRanked
<1> QED BY <1>1, <1>2, <1>3, NearerAt

\* A step of the reply leads to a lower rank.
LEMMA ReplyNearer ==
  ASSUME RequestInv, Reply
  PROVE  IsNearer(Distance', Distance)
<1>1. RequestInv' /\ ReplyInv
  BY RequestStepInv DEF RequestInv, RequestNext
<1>2. SUFFICES Rank' < Rank
  BY <1>1, LowerRank
<1> USE StageRanks DEF Rank, ReplyStages, Waiting
<1>3. CASE Plan
  <2>1. /\ stage = "planner" /\ recovery = "NONE"
        /\ \/ stage' \in {"expired", "draft"}
           \/ stage' \in {"query", "resolved"} /\ UNCHANGED recovery
    BY <1>1, <1>3 DEF Plan, BeginSearch, ReplyInv, RecoveryInOrder
  <2> QED BY <2>1
<1>4. CASE TakeResolution
  <2>1. /\ stage = "resolved"
        /\ \/ recovery # "RUNNING" /\ stage' = "draft"
           \/ recovery = "RUNNING" /\ stage' \in {"redraft", "guard"}
    BY <1>4 DEF TakeResolution
  <2> QED BY <2>1
<1>5. CASE Draft
  <2>1. stage = "draft" /\ stage' \in {"expired", "recover", "repair", "failed"}
    BY <1>5 DEF Draft, OutOfTime, TakeDraft, Fail
  <2> QED BY <2>1
<1>6. CASE RepairMarkup
  <2>1. stage = "repair" /\ stage' \in {"expired", "recover", "failed"}
    BY <1>6 DEF RepairMarkup, OutOfTime, TakeDraft, Fail
  <2> QED BY <2>1
<1>7. CASE SkipRecovery
  <2>1. stage = "recover" /\ stage' = "guard"
    BY <1>7 DEF SkipRecovery
  <2> QED BY <2>1
<1>8. CASE Recover
  <2>1. /\ stage = "recover"
        /\ stage' = "guard" \/ (stage' \in {"query", "resolved"} /\ recovery' = "RUNNING")
    BY <1>8 DEF Recover, BeginSearch
  <2> QED BY <2>1
<1>9. CASE Redraft
  <2>1. stage = "redraft" /\ stage' \in {"expired", "guard"}
    BY <1>9 DEF Redraft, OutOfTime, TakeDraft, KeepDraft
  <2> QED BY <2>1
<1>10. CASE Guard
  <2>1. stage = "guard" /\ stage' \in {"present", "rewrite", "failed"}
    BY <1>10 DEF Guard
  <2> QED BY <2>1
<1>11. CASE Rewrite
  <2>1. stage = "rewrite" /\ stage' \in {"expired", "present", "failed"}
    BY <1>11 DEF Rewrite, OutOfTime, Rewritten, Fail
  <2> QED BY <2>1
<1>12. CASE Present
  <2>1. stage = "present" /\ stage' \in {"expired", "done", "ground"}
    BY <1>12 DEF Present, Finish
  <2> QED BY <2>1
<1>13. CASE Ground
  <2>1. stage = "ground"
    BY <1>13 DEF Ground
  <2>2. stage' \in {"expired", "done"}
    <3>1. ASSUME NEW text, Repaired(text) PROVE stage' \in {"expired", "done"}
      BY <3>1, GuardedParts, Zenon DEF Repaired, Finish
    <3> QED BY <1>13, <3>1 DEF Ground, OutOfTime, NotRepaired, Finish
  <2> QED BY <2>1, <2>2
<1>14. CASE Expire
  <2>1. stage = "expired" /\ stage' \in {"done", "failed"}
    BY <1>14 DEF Expire
  <2> QED BY <2>1
<1> QED BY <1>3, <1>4, <1>5, <1>6, <1>7, <1>8, <1>9, <1>10, <1>11, <1>12, <1>13, <1>14 DEF Reply

\* The quality gate is asked in the first round only.
GateInFirstRound == stage = "quality" => plan.round = 1

LEMMA GateStep == [RequestNext]_requestVars /\ GateInFirstRound => GateInFirstRound'
<1> SUFFICES ASSUME [RequestNext]_requestVars, stage = "quality" => plan.round = 1, stage' = "quality"
             PROVE  plan'.round = 1
  BY DEF GateInFirstRound
<1>1. CASE Search
  <2>1. FetchPages \/ SkipPages
    BY <1>1 DEF Search, QueryOutOfTime, SearchCall, EndQuery, Alternate, MergeAndRank, Resolve,
         AskQuality, SkipQuality, Retry, Bound
  <2> QED BY <2>1 DEF FetchPages, SkipPages, AfterPages
<1>2. CASE Reply
  BY <1>2 DEF Reply, Plan, BeginSearch, TakeResolution, Draft, RepairMarkup, SkipRecovery, Recover,
       Redraft, Guard, Rewrite, Present, Ground, Expire, OutOfTime, Fail, TakeDraft, KeepDraft,
       Rewritten, Repaired, NotRepaired, Finish
<1>3. CASE UNCHANGED requestVars
  BY <1>3 DEF requestVars, searchVars
<1> QED BY <1>1, <1>2, <1>3 DEF RequestNext, RequestEnded

LEMMA GateInvariance == RequestSpec => []GateInFirstRound
<1>1. RequestInit => GateInFirstRound
  BY DEF RequestInit, GateInFirstRound
<1> QED BY <1>1, GateStep, PTL DEF RequestSpec

\* A step of the search ends it, comes to its second round, to a later stage of
\* the round, or to a later try of the same query.
LEMMA SearchNearer ==
  ASSUME RequestInv, GateInFirstRound, Search, UNCHANGED replyVars
  PROVE  IsNearer(Distance', Distance)
<1>1. RequestInv' /\ SearchTypeOK /\ QueryRuns /\ UNCHANGED recovery
  BY RequestStepInv DEF RequestNext, RequestInv, SearchInv, replyVars
<1>2. /\ stage \in SearchStages /\ stage' \in SearchStages \cup {"resolved", "expired"}
      /\ Waiting' = Waiting
  BY <1>1, SearchStep DEF RequestInv, Waiting
<1>3. /\ Distance = <<Waiting, 3 - plan.round, Substage, ToTry>>
      /\ Waiting \in {7, 11} /\ 3 - plan.round \in {1, 2} /\ Substage \in Int /\ ToTry \in Int
  BY <1>2, DistanceNow, DistanceRanked DEF DistanceIs, DistanceIsRanked
<1>4. CASE stage' = "expired"
  <2>1. Rank = Waiting /\ Rank' = 1
    BY <1>2, <1>4, StageRanks DEF Rank, ReplyStages, SearchStages
  <2> QED BY <1>1, <1>3, <2>1, LowerRank
<1>5. CASE stage' = "resolved"
  <2>1. Distance' = <<Waiting, 0, 0, 0>>
    BY <1>2, <1>5, DistanceLater DEF DistanceIs
  <2> DEFINE rest == 3 - plan.round
  <2>2. Distance = <<Waiting, rest, Substage, ToTry>> /\ rest \in Int /\ 0 < rest
    BY <1>3
  <2> HIDE DEF rest
  <2> QED BY <1>3, <2>1, <2>2, NearerAt, SMTT(20)
<1>6. CASE stage' \in SearchStages
  <2>1. /\ Distance' = <<Waiting, 3 - plan'.round, Substage', ToTry'>>
        /\ 3 - plan'.round \in {1, 2} /\ Substage' \in Int /\ ToTry' \in Int
    BY <1>1, <1>2, <1>6, DistanceLater, DistanceRankedLater DEF DistanceIs, DistanceIsRanked
  <2>2. SUFFICES \/ plan.round = 1 /\ plan'.round = 2
                 \/ UNCHANGED plan /\ Substage' < Substage
                 \/ UNCHANGED plan /\ Substage' = Substage /\ ToTry' < ToTry
    <3> DEFINE rest == 3 - plan.round
               later == 3 - plan'.round
    <3>1. /\ Distance = <<Waiting, rest, Substage, ToTry>>
          /\ Distance' = <<Waiting, later, Substage', ToTry'>>
          /\ rest \in Int /\ later \in Int
      BY <1>3, <2>1
    <3>2. later < rest \/ (later = rest /\ (Substage' < Substage \/ (Substage' = Substage /\ ToTry' < ToTry)))
      BY <2>2
    <3>3. /\ Waiting \in Int /\ Substage \in Int /\ ToTry \in Int
          /\ Substage' \in Int /\ ToTry' \in Int
      BY <1>3, <2>1
    <3> HIDE DEF rest, later
    <3>4. IsNearer(<<Waiting, later, Substage', ToTry'>>, <<Waiting, rest, Substage, ToTry>>)
      BY <3>1, <3>2, <3>3, NearerAt
    <3> QED BY <3>1, <3>4
  <2> USE StageRanks DEF Substage
  <2>3. CASE QueryOutOfTime
    <3>1. /\ stage = "query" /\ UNCHANGED plan
          /\ stage' = IF query.origin = "PRIMARY" THEN "alternate" ELSE "merge"
      BY <2>3 DEF QueryOutOfTime, EndQuery
    <3>2. query.origin \in {"PRIMARY", "ALTERNATE"}
      BY <1>1, <3>1 DEF QueryRuns
    <3> QED BY <3>1, <3>2
  <2>4. CASE SearchCall
    <3>1. stage = "query" /\ UNCHANGED <<plan, route>>
      BY <2>4 DEF SearchCall
    <3>2. /\ query.origin \in {"PRIMARY", "ALTERNATE"} /\ query.provider \in 1..Len(route)
          /\ query.window \in {1, 2} /\ Len(route) \in Nat
      BY <1>1, <3>1 DEF QueryRuns, SearchTypeOK
    <3>3. CASE stage' = IF query.origin = "PRIMARY" THEN "alternate" ELSE "merge"
      BY <3>1, <3>2, <3>3
    <3>4. CASE /\ query.window < Windows(route[query.provider])
               /\ query' = [query EXCEPT !.window = @ + 1] /\ UNCHANGED stage
      <4>1. /\ query'.origin = query.origin /\ query'.provider = query.provider
            /\ query'.window = query.window + 1
        BY <1>1, <3>4 DEF SearchTypeOK
      <4>2. ToTry' < ToTry
        BY <3>1, <3>2, <4>1 DEF ToTry
      <4> QED BY <3>1, <3>4, <4>1, <4>2
    <3>5. CASE MayFallBack /\ query' = Fallback /\ UNCHANGED stage
      <4>1. /\ query'.origin = query.origin /\ query'.provider = query.provider + 1
            /\ query'.window = 1
        BY <1>1, <3>5 DEF SearchTypeOK, Fallback
      <4>2. ToTry' < ToTry
        BY <3>1, <3>2, <4>1 DEF ToTry
      <4> QED BY <3>1, <3>5, <4>1, <4>2
    <3> QED BY <1>6, <2>4, <3>3, <3>4, <3>5 DEF SearchCall, EndQuery, SearchStages
  <2>5. CASE Alternate
    <3>1. /\ stage = "alternate" /\ UNCHANGED plan
          /\ \/ stage' = "query" /\ query'.origin = "ALTERNATE"
             \/ stage' = "merge"
      BY <2>5 DEF Alternate, FirstTry
    <3> QED BY <3>1
  <2>6. CASE MergeAndRank
    <3>1. stage = "merge" /\ UNCHANGED plan /\ stage' = "page"
      BY <1>6, <2>6 DEF MergeAndRank, Resolve, SearchStages
    <3> QED BY <3>1
  <2>7. CASE FetchPages \/ SkipPages
    <3>1. stage = "page" /\ UNCHANGED plan /\ stage' \in {"quality", "bound"}
      BY <2>7 DEF FetchPages, SkipPages, AfterPages
    <3> QED BY <3>1
  <2>8. CASE AskQuality
    <3>1. /\ stage = "quality" /\ plan.round = 1
          /\ \/ stage' = "bound" /\ UNCHANGED plan
             \/ stage' = "retry" /\ plan'.round = 2
      <4>1. ASSUME NEW g, plan' = [plan EXCEPT !.query = g.query, !.alt = g.alt, !.mode = g.mode,
                     !.round = 2, !.window = IF g.window = "NONE" THEN @ ELSE g.window]
            PROVE  plan'.round = 2
        BY <4>1 DEF RequestInv, SearchInv, PlanIsWhole
      <4> QED BY <2>8, <4>1 DEF AskQuality, GateInFirstRound
    <3> QED BY <3>1
  <2>9. CASE SkipQuality
    <3>1. stage = "quality" /\ UNCHANGED plan /\ stage' = "bound"
      BY <2>9 DEF SkipQuality
    <3> QED BY <3>1
  <2>10. CASE Retry
    <3>1. /\ stage = "retry" /\ UNCHANGED plan
          /\ \/ stage' = "query" /\ query'.origin = "PRIMARY"
             \/ stage' = "merge"
      BY <2>10 DEF Retry, FirstTry
    <3> QED BY <3>1
  <2>11. CASE Bound
    BY <1>6, <2>11 DEF Bound, Resolve, SearchStages
  <2> QED BY <2>3, <2>4, <2>5, <2>6, <2>7, <2>8, <2>9, <2>10, <2>11 DEF Search
<1> QED BY <1>2, <1>4, <1>5, <1>6

\* Every step of a request but the last one's stuttering brings it nearer to its
\* end, by a rank that no repair, rewrite, retry or recovery raises again.
THEOREM RequestIsForward == RequestSpec => RequestGoesForward
<1>1. RequestInv /\ GateInFirstRound /\ [RequestNext]_requestVars
        => [IsNearer(Distance', Distance)]_requestVars
  BY ReplyNearer, SearchNearer DEF RequestNext, RequestEnded
<1> QED BY <1>1, RequestInvariance, GateInvariance, PTL DEF RequestSpec, RequestGoesForward
================================================================================
