----------------------------- MODULE RequestPipeline ----------------------------
(***************************************************************************)
(* One request from the planner to the text that leaves: the search of     *)
(* SearchPipeline, the calls of ChatService.reply (chat.ts) and what       *)
(* production-agent-receiver.ts does around them: the draft, the repair of *)
(* control markup, the recovery search behind a draft that admits a gap,   *)
(* the guard and its rewrite, the group boundaries, the grounding gate and *)
(* its repair, and the fallback when the deadline is over.                 *)
(*                                                                         *)
(* Every await may take any time up to its limit; between awaits no time   *)
(* passes.  Owner chat has no deadline: for it `left` stands still.        *)
(***************************************************************************)
EXTENDS SearchPipeline, ReplyText

CONSTANTS
  Budget,           \* the largest rest of a deadline a request begins with
  MinRecovery,      \* MIN_ADAPTIVE_SEARCH_RECOVERY_BUDGET_MS
  Answers,          \* what the chat provider may return
  RecoveryAnswers   \* the searches the recovery gate may ask for, valid or not

ASSUME RequestAssumption ==
  /\ Budget \in Nat \ {0} /\ MinRecovery \in Nat
  /\ Answers \subseteq Seq(Parts \cup Control)
  /\ \A r \in RecoveryAnswers : r.mode \in Modes

VARIABLES
  kind,      \* a group request, a direct one, an alias wake or Owner chat
  depth,     \* the response depth of this turn, once it is needed
  recovery,  \* whether a recovery search is offered, running or done with
  draft,     \* the answer so far
  basis,     \* the search context in the prompt the draft answers
  shown,     \* the draft as a later provider call last saw it
  sent       \* the text that leaves

replyVars == <<kind, depth, recovery, draft, basis, shown, sent>>
requestVars == <<searchVars, replyVars>>

Kinds == {"GROUP", "DIRECT", "WAKE", "OWNER_CHAT"}
Depths == {"SHORT", "NORMAL", "DETAILED"}
IsGroup == kind \in {"GROUP", "WAKE"}
IsTimed == kind # "OWNER_CHAT"

\* A wake, Owner chat and a process without a planner go straight to the draft.
RequestInit ==
  /\ kind \in Kinds /\ left \in 1..Budget
  /\ stage \in IF kind \in {"GROUP", "DIRECT"} THEN {"planner", "draft"} ELSE {"draft"}
  /\ plan = NoPlan /\ route = <<>> /\ query = Idle /\ found = <<>> /\ kept = <<>>
  /\ context = NoContext /\ basis = NoContext
  /\ depth = "NORMAL" /\ recovery = "NONE"
  /\ draft = <<>> /\ shown = <<>> /\ sent = <<>>

----------------------------------------------------------------------------
(* Awaits                                                                  *)

\* requestFinalAnswer and the structured calls: the whole rest of the deadline.
Await == IF IsTimed THEN Spend(left) ELSE UNCHANGED left

Late == IsTimed /\ left' = 0

\* What a stage in front of another generation checks.
HasReserve == ~IsTimed \/ left' >= Reserve

\* No internal value is in the prompt of Owner chat.
Possible == {raw \in Answers : kind = "OWNER_CHAT" => ~Has(raw, "value")}

\* A generation that has the deadline end under it.
OutOfTime ==
  Late /\ stage' = "expired" /\ UNCHANGED <<context, recovery, draft, basis, shown, sent>>

\* What a generation in time comes to: a text, control markup, or nothing, which
\* stands for an error too.
MarkupOnly == <<"markup">>
Outcomes ==
  {<<>>} \cup {IF DetectProviderControlMarkup(raw) THEN MarkupOnly ELSE SanitizeFinalAnswer(raw) :
               raw \in Possible}
IsUsable(text) == text \notin {<<>>, MarkupOnly}

Fail == stage' = "failed" /\ UNCHANGED <<context, recovery, draft, basis, shown, sent>>

searchIdle == <<plan, route, query, found, kept>>

----------------------------------------------------------------------------
(* The planner and the first draft                                         *)

\* A planner that fails or breaks its protocol means no search and no recovery.
Plan ==
  /\ stage = "planner" /\ Await
  /\ UNCHANGED <<found, kept, kind, depth, draft, basis, shown, sent>>
  /\ \/ /\ Late
        /\ stage' = "expired" /\ UNCHANGED <<plan, route, query, context, recovery>>
     \/ /\ ~Late
        /\ stage' = "draft" /\ UNCHANGED <<plan, route, query, context, recovery>>
     \/ /\ ~Late
        /\ \E p \in PlannedDecisions :
             IF p.action = "SEARCH" THEN BeginSearch(p) /\ UNCHANGED recovery
             ELSE /\ stage' = "draft" /\ recovery' = "OFFERED"
                  /\ UNCHANGED <<plan, route, query, context>>

\* The search is over: the planner's leads to the draft, a recovery to a redraft
\* if it found something and is forgotten if not.
TakeResolution ==
  /\ stage = "resolved"
  /\ IF recovery # "RUNNING" THEN stage' = "draft" /\ UNCHANGED <<context, recovery>>
     ELSE /\ recovery' = "DONE"
          /\ IF context.status = "PASS" THEN stage' = "redraft" /\ UNCHANGED context
             ELSE stage' = "guard" /\ context' = NoContext
  /\ UNCHANGED <<searchIdle, left, kind, depth, draft, basis, shown, sent>>

TakeDraft(next, text) ==
  /\ stage' = next /\ draft' = text /\ basis' = context
  /\ UNCHANGED <<context, recovery, shown, sent>>

\* Control markup gets one more try with a prompt that does not repeat it.
Draft ==
  /\ stage = "draft" /\ Await
  /\ \/ OutOfTime
     \/ /\ ~Late
        /\ \E text \in Outcomes :
             \/ IsUsable(text) /\ TakeDraft("recover", text)
             \/ /\ text = MarkupOnly /\ HasReserve
                /\ stage' = "repair" /\ UNCHANGED <<context, recovery, draft, basis, shown, sent>>
             \/ (text = MarkupOnly => ~HasReserve) /\ ~IsUsable(text) /\ Fail
  /\ UNCHANGED <<searchIdle, kind, depth>>

RepairMarkup ==
  /\ stage = "repair" /\ Await
  /\ \/ OutOfTime
     \/ /\ ~Late
        /\ \E text \in Outcomes : IF IsUsable(text) THEN TakeDraft("recover", text) ELSE Fail
  /\ UNCHANGED <<searchIdle, kind, depth>>

----------------------------------------------------------------------------
(* The recovery search                                                     *)

\* Only a request the planner answered without a search may still search.
IsAdaptiveSearchCandidate(text) == Has(text, "gap")
MayRecover ==
  recovery = "OFFERED" /\ IsAdaptiveSearchCandidate(draft) /\ left >= MinRecovery

SkipRecovery ==
  /\ stage = "recover" /\ ~MayRecover
  /\ stage' = "guard"
  /\ UNCHANGED <<searchIdle, left, context, replyVars>>

\* parseAdaptiveSearchRecoveryProtocol.
ValidRecovery(r) == Consistent(r.mode, r.window) /\ r.query \notin Forbidden \cup {NoQuery}
RecoveryDecisions == {r \in RecoveryAnswers : ValidRecovery(r)}

\* The gate sees the draft without internal values; it fails closed, also when
\* the deadline ends under it.
Recover ==
  /\ stage = "recover" /\ MayRecover
  /\ Await
  /\ shown' = Redact(draft)
  /\ \/ /\ stage' = "guard" /\ UNCHANGED <<plan, route, query, context, recovery>>
     \/ /\ ~Late
        /\ \E r \in RecoveryDecisions :
             BeginSearch([query |-> r.query, alt |-> NoQuery, mode |-> r.mode,
                          window |-> r.window])
        /\ recovery' = "RUNNING"
  /\ UNCHANGED <<found, kept, kind, depth, draft, basis, sent>>

\* A mutant: the results count although the redraft failed.
KeepDraftWithResults ==
  stage' = "guard" /\ UNCHANGED <<context, recovery, draft, basis, shown, sent>>

\* The results count only if they were in the prompt of the text that is kept.
KeepDraft ==
  /\ stage' = "guard" /\ context' = NoContext
  /\ UNCHANGED <<recovery, draft, basis, shown, sent>>

Redraft ==
  /\ stage = "redraft" /\ Await
  /\ \/ OutOfTime
     \/ /\ ~Late
        /\ \E text \in Outcomes : IF IsUsable(text) THEN TakeDraft("guard", text) ELSE KeepDraft
  /\ UNCHANGED <<searchIdle, kind, depth>>

----------------------------------------------------------------------------
(* The guard                                                               *)

\* The response depth of this turn in a group, from its text and the recent lines.
TurnDepths == IF IsGroup THEN Depths ELSE {depth}

\* A refused answer is shown to a rewrite unless it holds a raw value.
Guard ==
  /\ stage = "guard" /\ UNCHANGED left
  /\ LET guarded == GuardFinalAnswer(draft)
     IN  IF ~guarded.blocked
         THEN stage' = "present" /\ draft' = guarded.text
         ELSE /\ stage' = IF guarded.regenerable /\ HasReserve THEN "rewrite" ELSE "failed"
              /\ UNCHANGED draft
  /\ depth' \in TurnDepths
  /\ UNCHANGED <<searchIdle, context, kind, recovery, basis, shown, sent>>

\* A mutant: the rewrite goes back to the guard, which may ask for another.
RewrittenAgain(text) ==
  /\ stage' = "guard" /\ draft' = text /\ basis' = context /\ shown' = draft
  /\ UNCHANGED <<context, recovery, sent>>

\* The rewrite has one try.
Rewritten(text) ==
  LET guarded == GuardFinalAnswer(text)
  IN  /\ stage' = IF guarded.blocked THEN "failed" ELSE "present"
      /\ draft' = guarded.text /\ basis' = context /\ shown' = draft
      /\ UNCHANGED <<context, recovery, sent>>

Rewrite ==
  /\ stage = "rewrite" /\ Await
  /\ \/ OutOfTime
     \/ ~Late /\ \E text \in Outcomes : IF IsUsable(text) THEN Rewritten(text) ELSE Fail
  /\ UNCHANGED <<searchIdle, kind, depth>>

----------------------------------------------------------------------------
(* The boundaries and the grounding gate                                   *)

Bounded(text) ==
  IF IsGroup THEN BoundGroupReply(text, depth) ELSE [blocked |-> FALSE, text |-> text]

\* finalizeGroupSocialOutput: a light turn loses its closing invitation first.
Finalized(text, suffix) ==
  IF ~IsGroup THEN text
  ELSE BoundGroupSocialOutput(IF depth = "SHORT" THEN StripTrailingGroupCta(text) ELSE text,
                              IF depth = "DETAILED" THEN "DETAILED" ELSE "NORMAL", suffix)

\* The answer leaves unless the deadline ended in the meantime.
Finish(text, suffix) ==
  IF Late THEN stage' = "expired" /\ UNCHANGED sent
  ELSE stage' = "done" /\ sent' = Finalized(text, suffix)

IsGrounded(text) == GroundedSources(text, context.results) # {}

Present ==
  /\ stage = "present" /\ UNCHANGED left
  /\ LET bounded == Bounded(draft)
         text == bounded.text
         passed == ~bounded.blocked /\ context.status = "PASS"
         failed == ~bounded.blocked /\ context.status = "FAILED"
     IN  /\ draft' = text
         /\ \/ /\ bounded.blocked \/ context.status = "NONE"
               /\ Finish(text, <<>>)
            \/ /\ failed /\ context.mode = "NEWS_RECENT"
               /\ Finish(NoRecentNews, <<>>)
            \/ /\ failed /\ context.mode = "GENERAL"
               /\ Finish(DiscloseWebSearchFailure(text), Disclosure)
            \/ /\ passed /\ IsGrounded(text)
               /\ Finish(AppendGroundedSources(text), <<>>)
            \/ /\ passed /\ ~IsGrounded(text) /\ ~HasReserve
               /\ Finish(GroundingFailure, <<>>)
            \/ /\ passed /\ ~IsGrounded(text) /\ HasReserve
               /\ stage' = "ground" /\ UNCHANGED sent
  /\ UNCHANGED <<searchIdle, context, kind, depth, recovery, basis, shown>>

\* A repaired answer passes the guard and the boundaries like the first one.
Repaired(text) ==
  LET guarded == GuardFinalAnswer(text)
      bounded == Bounded(guarded.text)
  IN  /\ shown' = Redact(draft) /\ basis' = context
      /\ draft' = bounded.text
      /\ CASE guarded.blocked -> Finish(GroundingFailure, <<>>)
           [] ~guarded.blocked /\ bounded.blocked -> Finish(bounded.text, <<>>)
           [] OTHER -> IF IsGrounded(bounded.text)
                       THEN Finish(AppendGroundedSources(bounded.text), <<>>)
                       ELSE Finish(GroundingFailure, <<>>)
      /\ UNCHANGED <<context, recovery>>

NotRepaired == Finish(GroundingFailure, <<>>) /\ UNCHANGED <<context, recovery, draft, basis, shown>>

Ground ==
  /\ stage = "ground" /\ Await
  /\ \/ OutOfTime
     \/ ~Late /\ \E text \in Outcomes : IF IsUsable(text) THEN Repaired(text) ELSE NotRepaired
  /\ UNCHANGED <<searchIdle, kind, depth>>

\* The deadline is over: a request is told so, a wake stays silent.
Expire ==
  /\ stage = "expired"
  /\ IF kind = "WAKE" THEN stage' = "failed" /\ UNCHANGED sent
     ELSE stage' = "done" /\ sent' = DeadlineFallback
  /\ UNCHANGED <<searchIdle, left, context, kind, depth, recovery, draft, basis, shown>>

RequestEnded == stage \in {"done", "failed"} /\ UNCHANGED requestVars

Reply ==
  \/ Plan \/ TakeResolution \/ Draft \/ RepairMarkup
  \/ SkipRecovery \/ Recover \/ Redraft \/ Guard \/ Rewrite
  \/ Present \/ Ground \/ Expire

RequestNext == (Search /\ UNCHANGED replyVars) \/ Reply \/ RequestEnded

RequestSpec == RequestInit /\ [][RequestNext]_requestVars

----------------------------------------------------------------------------
(* Properties                                                              *)

SearchStages == {"query", "alternate", "merge", "page", "quality", "retry", "bound"}
ReplyStages == {"planner", "draft", "repair", "recover", "redraft", "guard", "rewrite",
                "present", "ground", "expired"}

SearchTypeOK ==
  /\ left \in 0..Budget
  /\ plan.mode \in Modes /\ plan.first \in Modes
  /\ plan.round \in {1, 2} /\ {plan.query, plan.alt} \cap Forbidden = {}
  /\ route \in Seq(Providers)
  /\ query \in [origin : {"NONE", "PRIMARY", "ALTERNATE"}, provider : Nat,
                window : 0..2, timeout : 0..SearchTimeout]
  /\ context.status \in {"NONE", "PASS", "FAILED"} /\ context.mode \in Modes

ReplyTypeOK ==
  /\ stage \in SearchStages \cup {"resolved"} \cup ReplyStages \cup {"done", "failed"}
  /\ kind \in Kinds /\ depth \in Depths
  /\ recovery \in {"NONE", "OFFERED", "RUNNING", "DONE"}
  /\ basis.status \in {"NONE", "PASS", "FAILED"}
  /\ {draft, shown, sent} \subseteq Texts

ResultsTypeOK == {found, kept, context.results} \subseteq Seq(Result)

RequestTypeOK == SearchTypeOK /\ ReplyTypeOK /\ ResultsTypeOK

\* Stages that may not use the reserve of the final answer: pages, the quality
\* gate, the alternate query, a retry and a fallback provider.
IsOptional ==
  \/ stage \in {"page", "quality"}
  \/ stage = "query" /\ (plan.round = 2 \/ query.origin = "ALTERNATE" \/ query.provider > 1)

\* Whatever an optional stage takes, the final answer keeps the reserve it had
\* (MIN_FINAL_ANSWER_BUDGET_MS; resolveWebSearch and executeWebSearchQuery).
ReserveIsKept == [][IsOptional /\ left' # left => left' >= Reserve]_requestVars

\* Page text once fetched survives the merge of a retry and a second enrichment,
\* and all of it together stays within the request's total
\* (resolveWebSearch: mergedRoundTwo; enrichWebSearchResultsWithPageEvidence).
PageEvidenceIsKept ==
  [][(stage \in {"merge", "page", "retry"}) =>
       /\ \A k \in DOMAIN kept : HasPage(kept[k]) => kept[k] \in ToSet(kept')
       /\ Total([k \in DOMAIN kept' |-> kept'[k].chars]) <= MaxTotalChars]_requestVars

Answered == stage = "done" /\ sent # DeadlineFallback

\* What is said about a search fits the search the text was written from: an
\* answer is presented with the context that was in its own prompt, a grounded
\* one cites a result and carries no link of its own, and a failed search is
\* admitted, unless the cap cut the model's own words about it
\* (ChatService.reply: effectiveRequest, the grounding gate, the disclosure).
EvidenceIsOwned ==
  Answered =>
    /\ basis = context
    /\ context.status = "PASS" =>
         /\ sent \in {GroundingFailure, BulkFallback} \/ IsGrounded(draft)
         /\ ToSet(sent) \cap (Markers \cup {"link"}) = {}
    /\ context.status = "FAILED" =>
         /\ ~Has(sent, "searched")
         /\ ToSet(sent) \cap {"DISCLOSED", "NONEWS", "BULK", "admits", "TAIL"} # {}

\* Nothing internal reaches a search provider, a later generation or the chat,
\* whichever of the five generations wrote it, and a group gets no bulk and
\* nothing above its cap (guardFinalAnswer, redact, boundGroupSocialOutput).
NothingInternalLeaves ==
  /\ {plan.query, plan.alt} \cap Forbidden = {}
  /\ ~Has(shown, "value")
  /\ ToSet(sent) \cap {"value", "label", "claim", "markup", "think", "open"} = {}
  /\ IsGroup =>
       /\ ~Has(sent, "bulk")
       /\ Len(sent) <= HardCap[IF depth = "DETAILED" THEN "DETAILED" ELSE "NORMAL"]

\* How far a request is from its end: the stages of the reply, within a search
\* its round and stages, within a query the providers and windows left to try.
ReplyRank == [expired |-> 1, ground |-> 2, present |-> 3, rewrite |-> 4, guard |-> 5,
              redraft |-> 6, RECOVERY |-> 7, recover |-> 8, repair |-> 9, draft |-> 10,
              SEARCH |-> 11, planner |-> 12]
SearchRank == [bound |-> 1, quality |-> 2, page |-> 3, merge |-> 4, ALTERNATE |-> 5,
               alternate |-> 6, PRIMARY |-> 7, retry |-> 8]

Distance ==
  LET step == IF stage = "query" THEN query.origin ELSE stage
      search == IF recovery = "RUNNING" THEN "RECOVERY" ELSE "SEARCH"
  IN  CASE stage \in {"done", "failed"} -> <<0, 0, 0, 0>>
        [] stage \in ReplyStages -> <<ReplyRank[stage], 0, 0, 0>>
        [] stage = "resolved" -> <<ReplyRank[search], 0, 0, 0>>
        [] OTHER -> <<ReplyRank[search], 3 - plan.round, SearchRank[step],
                      2 * (Len(route) - query.provider) - query.window>>

IsNearer(d, e) == \E i \in 1..4 : d[i] < e[i] /\ \A j \in 1..(i - 1) : d[j] = e[j]

\* Every request comes to an end, as no step goes back: repairs, rewrites, retries
\* and recoveries follow one another only so many times, also where no time passes
\* between them; that no stage is without a way on is the deadlock check's to show
\* (ChatService.reply: one try each; executeRetrievalRetry; recoverAdaptiveSearch).
RequestGoesForward == [][IsNearer(Distance', Distance)]_requestVars
================================================================================
