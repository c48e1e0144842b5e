--------------------------- MODULE OwnerAliasWake ---------------------------
(***************************************************************************)
(* Waking the Agent by the Owner's alias in a group message: the admission *)
(* gate (OwnerAliasWakeGate, src/src/owner-alias-wake.ts) and the          *)
(* single-flight generation it protects (handleOwnerAliasWake,             *)
(* src/src/production-agent-receiver.ts).  The transport starts the        *)
(* handler detached, so wakes of any messages interleave at its awaits.    *)
(*                                                                         *)
(* Abstractions.  The alias has already matched; Date.now never runs       *)
(* backwards.  `running` holds the suspended handlers, `offers` is a       *)
(* history variable.                                                       *)
(***************************************************************************)
EXTENDS Integers, Sequences, FiniteSets, SequencesExt

CONSTANTS
  Groups,     \* conversationId values
  Messages,   \* messageId values
  SeenLimit,  \* MAX_SEEN_ALIAS_MESSAGE_IDS_PER_GROUP
  Cooldown,   \* cooldownMs, in clock units
  Budget,     \* requestDeadlineMs, in clock units
  MaxOffers,  \* bound of the model: wakes attempted in one behaviour
  MaxClock    \* bound of the model: last clock reading

ASSUME WakeAssumption ==
  /\ SeenLimit \in Nat \ {0}
  /\ Cooldown \in Nat
  /\ Budget \in Nat \ {0}
  /\ MaxOffers \in Nat
  /\ MaxClock \in Nat

Never == -1

VARIABLES
  seen,      \* group -> remembered message ids, oldest first (seenOrder)
  lastWake,  \* group -> time of the last admission, or Never
  inFlight,  \* groups with the single-flight flag set
  running,   \* handlers suspended in completeWithinDeadline
  clock,     \* Date.now()
  offers     \* history: every wake attempted, with its verdict

vars == <<seen, lastWake, inFlight, running, clock, offers>>

Run == [group : Groups, message : Messages, startedAt : 0 .. MaxClock]
Verdicts == {"DUPLICATE", "COOLDOWN", "SINGLE_FLIGHT", "DETECTED"}
Offer == [group : Groups, message : Messages, verdict : Verdicts]

Init ==
  /\ seen = [g \in Groups |-> <<>>]
  /\ lastWake = [g \in Groups |-> Never]
  /\ inFlight = {}
  /\ running = {}
  /\ clock = 0
  /\ offers = <<>>

-----------------------------------------------------------------------------
(* The gate.                                                               *)

\* A remembered id wins over everything else.
IsDuplicate(g, m) == Contains(seen[g], m)

\* Less than the cooldown since the last admission of the group.
IsCooling(g) == lastWake[g] # Never /\ clock - lastWake[g] < Cooldown

\* Mutant: one id too few is remembered.
RememberFewer(order, m) ==
  IF Len(order) >= SeenLimit - 1 THEN <<m>> ELSE Append(order, m)

\* Remember an id, forgetting the oldest one past the limit.
Remember(order, m) ==
  IF Len(order) >= SeenLimit THEN Append(Tail(order), m) ELSE Append(order, m)

Record(g, m, verdict) ==
  offers' = Append(offers, [group |-> g, message |-> m, verdict |-> verdict])

-----------------------------------------------------------------------------
(* The handler up to its first await.                                      *)

Duplicate(g, m) ==
  /\ IsDuplicate(g, m)
  /\ Record(g, m, "DUPLICATE")
  /\ UNCHANGED <<seen, lastWake, inFlight, running, clock>>

\* The id is remembered even though the message woke nobody.
Cooling(g, m) ==
  /\ ~IsDuplicate(g, m) /\ IsCooling(g)
  /\ seen' = [seen EXCEPT ![g] = Remember(@, m)]
  /\ Record(g, m, "COOLDOWN")
  /\ UNCHANGED <<lastWake, inFlight, running, clock>>

\* Mutant: the refusal runs through the `finally` of the handler and clears the flag.
SingleFlightReleasing(g, m) ==
  /\ ~IsDuplicate(g, m) /\ ~IsCooling(g) /\ g \in inFlight
  /\ seen' = [seen EXCEPT ![g] = Remember(@, m)]
  /\ lastWake' = [lastWake EXCEPT ![g] = clock]
  /\ inFlight' = inFlight \ {g}
  /\ Record(g, m, "SINGLE_FLIGHT")
  /\ UNCHANGED <<running, clock>>

\* The gate admits, and restarts the cooldown, before the flag is looked at.
SingleFlight(g, m) ==
  /\ ~IsDuplicate(g, m) /\ ~IsCooling(g) /\ g \in inFlight
  /\ seen' = [seen EXCEPT ![g] = Remember(@, m)]
  /\ lastWake' = [lastWake EXCEPT ![g] = clock]
  /\ Record(g, m, "SINGLE_FLIGHT")
  /\ UNCHANGED <<inFlight, running, clock>>

Detected(g, m) ==
  /\ ~IsDuplicate(g, m) /\ ~IsCooling(g) /\ g \notin inFlight
  /\ seen' = [seen EXCEPT ![g] = Remember(@, m)]
  /\ lastWake' = [lastWake EXCEPT ![g] = clock]
  /\ inFlight' = inFlight \cup {g}
  /\ running' = running \cup {[group |-> g, message |-> m, startedAt |-> clock]}
  /\ Record(g, m, "DETECTED")
  /\ UNCHANGED <<clock>>

\* The second conjunct only keeps the end of every generation within MaxClock.
Wake(g, m) ==
  /\ Len(offers) < MaxOffers /\ clock + Budget <= MaxClock
  /\ Duplicate(g, m) \/ Cooling(g, m) \/ SingleFlight(g, m) \/ Detected(g, m)

-----------------------------------------------------------------------------
(* The handler after the generation, `finally` included.                   *)

Expired(run) == clock >= run.startedAt + Budget

Finish(run) ==
  /\ run \in running
  /\ running' = running \ {run}
  /\ inFlight' = inFlight \ {run.group}
  /\ UNCHANGED <<seen, lastWake, clock, offers>>

\* An answer past the deadline is thrown away by throwIfExpired.
FinishGenerated(run) == ~Expired(run) /\ Finish(run)

\* The provider fails or the answer is empty.
FinishFailed(run) == ~Expired(run) /\ Finish(run)

\* Mutant: the flag is cleared on the answered path only, not in `finally`.
FinishExpiredHolding(run) ==
  /\ Expired(run) /\ run \in running
  /\ running' = running \ {run}
  /\ UNCHANGED <<seen, lastWake, inFlight, clock, offers>>

\* The deadline timer rejects the provider call, whatever the provider does.
FinishExpired(run) == Expired(run) /\ Finish(run)

Tick ==
  /\ clock < MaxClock
  /\ clock' = clock + 1
  /\ UNCHANGED <<seen, lastWake, inFlight, running, offers>>

Next ==
  \/ \E g \in Groups, m \in Messages : Wake(g, m)
  \/ \E run \in running : FinishGenerated(run) \/ FinishFailed(run) \/ FinishExpired(run)
  \/ Tick

Spec == Init /\ [][Next]_vars

\* Time passes and an expired timer fires; nothing is assumed of the provider.
FairSpec ==
  /\ Spec
  /\ WF_vars(Tick)
  /\ WF_vars(\E run \in running : FinishExpired(run))

-----------------------------------------------------------------------------
(* Properties.                                                             *)

TypeOK ==
  /\ seen \in [Groups -> Seq(Messages)]
  /\ lastWake \in [Groups -> {Never} \cup 0 .. MaxClock]
  /\ inFlight \subseteq Groups
  /\ running \subseteq Run
  /\ clock \in 0 .. MaxClock
  /\ offers \in Seq(Offer)

\* At most one generation of a group is suspended, and the flag says so exactly:
\* a refused wake never clears the flag of the one that is running.
SingleFlightPerGroup ==
  /\ \A r, s \in running : r.group = s.group => r = s
  /\ inFlight = {r.group : r \in running}

\* The attempts of a group whose message was taken for a new one, and the messages
\* of those among them that lie between two attempts.
TakenAsNew(g) == {i \in DOMAIN offers : offers[i].group = g /\ offers[i].verdict # "DUPLICATE"}
NewBetween(k, l, g) == {offers[i].message : i \in {j \in TakenAsNew(g) : k < j /\ j < l}}

\* A message is taken for a new one again only after SeenLimit other messages of
\* its group were: bounding the memory never shortens it.  A redelivery does not
\* renew the memory, so the count starts where the message was last new.
RedeliveryForgottenOnlyWhenFull ==
  \A g \in Groups : \A k, l \in TakenAsNew(g) :
    k < l /\ offers[k].message = offers[l].message =>
      Cardinality(NewBetween(k, l, g) \ {offers[k].message}) >= SeenLimit

\* A provider that never answers cannot silence the alias of a group for good:
\* the single-flight flag is always cleared again.
FlagIsReleased == \A g \in Groups : g \in inFlight ~> g \notin inFlight
=============================================================================
