------------------------------- MODULE ReplyText -------------------------------
(***************************************************************************)
(* What happens to the text of one answer between the chat provider and    *)
(* the outbound command: final-answer.ts, answer-guard.ts, the boundaries  *)
(* of chat-renderer.ts, the closing restraint of                           *)
(* group-conversational-restraint.ts and the grounding of web-search.ts.   *)
(*                                                                         *)
(* A text is a sequence of parts, one part a sentence, a marker or a fixed *)
(* reply; a length counts parts.  Lower-case parts come from the model:    *)
(*   "fact"       an ordinary sentence                                     *)
(*   "gap"        a sentence admitting that the model does not know        *)
(*   "label"      an internal label the guard can rewrite                  *)
(*   "claim"      a statement the guard refuses but may ask to rewrite     *)
(*   "value"      a raw internal value                                     *)
(*   "cta"        a closing invitation to go on                            *)
(*   "searched"   a claim that results were found                          *)
(*   "admits"     the model's own words that nothing could be confirmed    *)
(*   "link"       a URL that no search returned                            *)
(*   "bulk"       code or data above the bulk limits                       *)
(*   "structured" data of such a shape below them                          *)
(*   "think", "open", "markup"  a closed thinking block, an unclosed one,  *)
(*                and provider control markup                              *)
(* S1, S2, ... are source markers, the upper-case parts fixed replies.     *)
(* renderHumanChat only removes headings, emphasis and blank lines, which  *)
(* no part stands for: it has no definition here.                          *)
(***************************************************************************)
EXTENDS Integers, Sequences, FiniteSets, SequencesExt, Lists

CONSTANTS
  ReplyBudget,  \* GROUP_REPLY_LENGTH_BUDGETS: parts of a SHORT or NORMAL reply
  HardCap,      \* GROUP_SOCIAL_OUTPUT_BUDGETS: the cap of each depth, signature reserved
  Tainted       \* urls whose title or address holds an internal value

ASSUME CapAssumption ==
  /\ ReplyBudget \in [{"SHORT", "NORMAL"} -> Nat \ {0}]
  /\ HardCap \in [{"NORMAL", "DETAILED"} -> Nat]
  \* a cap leaves room for a body, the closing tail and a protected suffix
  /\ \A d \in {"NORMAL", "DETAILED"} : HardCap[d] >= 3

SourceId == <<"S1", "S2", "S3", "S4">>
Markers == ToSet(SourceId)

Disclosure == <<"DISCLOSED">>          \* WEB_SEARCH_FAILURE_DISCLOSURE
GroundingFailure == <<"UNGROUNDED">>   \* WEB_SEARCH_GROUNDING_FAILURE_REPLY
NoRecentNews == <<"NONEWS">>
BulkFallback == <<"BULK">>             \* GROUP_BULK_OUTPUT_FALLBACK
ClosingTail == <<"TAIL">>              \* GROUP_SOCIAL_CLOSING_TAIL
DeadlineFallback == <<"LATE">>         \* REQUEST_DEADLINE_FALLBACK_REPLY
FixedParts == {"DISCLOSED", "UNGROUNDED", "NONEWS", "BULK", "TAIL", "LATE"}

\* What a sanitized text is made of, and what a provider may write besides.
Parts == {"fact", "gap", "label", "claim", "value", "cta", "searched", "admits", "link",
          "bulk", "structured"} \cup Markers \cup FixedParts
Control == {"think", "open", "markup"}
Texts == Seq(Parts)

Has(text, part) == part \in ToSet(text)

\* The parts of a text but these, in order.
Without(text, parts) == Those(text, {i \in DOMAIN text : text[i] \notin parts})

----------------------------------------------------------------------------
(* final-answer.ts                                                         *)

\* Control markup makes a text unusable, an unclosed thinking block empties it.
DetectProviderControlMarkup(text) == Has(text, "markup")

SanitizeFinalAnswer(text) ==
  IF DetectProviderControlMarkup(text) \/ Has(text, "open")
  THEN <<>> ELSE Without(text, {"think"})

----------------------------------------------------------------------------
(* answer-guard.ts                                                         *)

\* Speaker labels and names of nobody present give way to natural phrases.
Relabelled(text) == [i \in DOMAIN text |-> IF text[i] = "label" THEN "fact" ELSE text[i]]

\* Claims to have changed memory without having done so, or of a role nobody holds.
HasUngroundedClaim(text) == Has(text, "claim")

\* A mutant: a raw value is rewritten like any other claim.
GuardFinalAnswerLenient(text) ==
  LET blocked == ToSet(text) \cap {"value", "claim"} # {} \/ text = <<>>
  IN  [blocked |-> blocked, regenerable |-> TRUE,
       text |-> IF blocked THEN <<>> ELSE Relabelled(text)]

\* A claim blocks the answer, a raw value blocks it for good.
GuardFinalAnswer(text) ==
  LET raw == Has(text, "value")
      blocked == raw \/ HasUngroundedClaim(text) \/ text = <<>>
  IN  [blocked |-> blocked, regenerable |-> ~raw,
       text |-> IF blocked THEN <<>> ELSE Relabelled(text)]

\* Internal values are cut out of what is shown to another provider call.
Redact(text) == Without(text, {"value"})

----------------------------------------------------------------------------
(* chat-renderer.ts                                                        *)

\* Code, markup, JSON, SQL, logs and base64 above their limits, and their shape alone.
IsBulk(text) == Has(text, "bulk")
IsStructured(text) == Has(text, "structured")

BoundGroupBulkOutput(text) ==
  [blocked |-> IsBulk(text), text |-> IF IsBulk(text) THEN BulkFallback ELSE text]

\* A part is a sentence or a protected range as a whole (a link, inline code, a
\* marker): no cut falls inside one, and a sentence keeps its markers.
IsBoundary(text, end) == end < Len(text) => text[end + 1] \notin Markers

\* The sentence ends within max parts.
SafeBoundaries(text, max) == {e \in 1..max : e <= Len(text) /\ IsBoundary(text, e)}

Latest(ends) == CHOOSE e \in ends : \A f \in ends : f <= e

\* Without a sentence end the cut falls inside a sentence.
ShortenAtSocialBoundary(body, limit) ==
  LET ends == SafeBoundaries(body, limit - 1)
      end == IF ends = {} THEN limit - 1 ELSE Latest(ends)
  IN  SubSeq(body, 1, end) \o ClosingTail

\* The cap of a group reply; a suffix the text really ends with stays whole.
BoundGroupSocialOutput(text, depth, suffix) ==
  LET kept == IF suffix # <<>> /\ IsSuffix(suffix, text) THEN suffix ELSE <<>>
      body == SubSeq(text, 1, Len(text) - Len(kept))
      limit == HardCap[depth] - Len(kept)
  IN  IF Len(body) <= limit THEN text
      ELSE IF IsStructured(body) THEN BulkFallback \o kept
      ELSE ShortenAtSocialBoundary(body, limit) \o kept

\* A reply with no boundary within its budget is left as long as it is.
BoundGroupReply(text, depth) ==
  LET bulk == BoundGroupBulkOutput(text)
      ends == SafeBoundaries(text, ReplyBudget[depth])
  IN  IF bulk.blocked \/ text = <<>> THEN bulk
      ELSE [blocked |-> FALSE,
            text |-> CASE depth = "DETAILED" -> BoundGroupSocialOutput(text, depth, <<>>)
                       [] depth # "DETAILED" /\ Len(text) > ReplyBudget[depth] /\ ends # {} ->
                            SubSeq(text, 1, Latest(ends))
                       [] OTHER -> text]

----------------------------------------------------------------------------
(* group-conversational-restraint.ts and chat.ts                           *)

\* The last sentence goes if it is an invitation and not the whole reply.
StripTrailingGroupCta(text) ==
  IF Len(text) > 1 /\ Last(text) = "cta" THEN Front(text) ELSE text

DiscloseWebSearchFailure(text) ==
  CASE Has(text, "searched") -> Disclosure
    [] ~Has(text, "searched") /\ (Has(text, "admits") \/ Has(text, "DISCLOSED")) -> text
    [] OTHER -> text \o Disclosure

----------------------------------------------------------------------------
(* web-search.ts: markers against the results that were in the prompt      *)

\* inspectGroundedSources: the results a text cites, tainted ones not counted.
GroundedSources(text, results) ==
  {i \in DOMAIN results : Has(text, SourceId[i]) /\ results[i].url \notin Tainted}

\* Markers and URLs of no result leave the text once it has been checked.
AppendGroundedSources(text) == Without(text, Markers \cup {"link"})
================================================================================
