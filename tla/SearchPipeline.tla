----------------------------- MODULE SearchPipeline -----------------------------
(***************************************************************************)
(* One web search of one request (production-agent-receiver.ts             *)
(* resolveWebSearch and the stages it awaits): the planner, the primary    *)
(* and the alternate query over a route of providers with a fallback, the  *)
(* merge and ranking, page evidence, the quality gate, one retry and the   *)
(* prompt section.  The data each stage passes on is that of               *)
(* SearchResults.                                                          *)
(*                                                                         *)
(* Time is `left`, the rest of the request's deadline in coarse units; an  *)
(* await takes any number of units up to its own limit.  Every stage but   *)
(* the primary query must leave the final answer its reserve.              *)
(***************************************************************************)
EXTENDS SearchResults

CONSTANTS
  Reserve,          \* MIN_FINAL_ANSWER_BUDGET_MS
  MinStage,         \* MIN_ALT_QUERY_SEARCH_, MIN_SEARCH_FALLBACK_, MIN_PAGE_FETCH_,
                    \* MIN_RETRIEVAL_QUALITY_GATE_ and MIN_RETRIEVAL_RETRY_BUDGET_MS
  SearchTimeout,    \* webSearchTimeoutMs
  PageTimeout,      \* webPageFetchTimeoutMs
  PagesEnabled,     \* webPageFetchEnabled and a number of pages above 0
  Forbidden,        \* queries that hold an internal value
  HanQueries,       \* queries in Chinese script
  NoQuery,          \* null
  Setups,           \* configured providers (a sequence) and the built-in ones
  PlannerAnswers,   \* what the planner may return, valid or not
  GateAnswers,      \* what the quality gate may return, valid or not
  ProviderAnswers   \* the sequences of items a provider may be answered, junk included

Modes == {"GENERAL", "NEWS_RECENT"}
Providers == {"tavily", "searxng", "degoog"}

\* Configured providers are adapters of their own, never the built-in tavily.
ASSUME BudgetAssumption ==
  /\ Reserve \in Nat \ {0} /\ MinStage \in Nat \ {0}
  /\ SearchTimeout \in Nat \ {0} /\ PageTimeout \in Nat \ {0}
  /\ PagesEnabled \in BOOLEAN /\ NoQuery \notin Forbidden
  /\ \A setup \in Setups : setup.configured \in Seq(Providers \ {"tavily"})
  /\ \A d \in PlannerAnswers \cup GateAnswers : d.mode \in Modes
  /\ \A items \in ProviderAnswers : items \in Seq(ToSet(items))

VARIABLES
  left,     \* units until the request's deadline
  stage,    \* what the request awaits or does next
  plan,     \* the decision in force: query, alternate, mode, window, first mode, round
  route,    \* the providers, resolved once from the primary query
  query,    \* the running query: origin, provider, window and time limit
  found,    \* results of the queries of this round
  kept,     \* results after ranking and enrichment
  context   \* the resolution: nothing, or status, mode and results

searchVars == <<left, stage, plan, route, query, found, kept, context>>

NoPlan == [query |-> NoQuery, alt |-> NoQuery, mode |-> "GENERAL", window |-> "NONE",
           first |-> "GENERAL", round |-> 1]
Idle == [origin |-> "NONE", provider |-> 0, window |-> 0, timeout |-> 0]
NoContext == [status |-> "NONE", mode |-> "GENERAL", results |-> <<>>]

\* An await of at most `limit` units.
Spend(limit) == \E t \in 0..Least(limit, left) : left' = left - t

\* What a stage may use without touching the reserve.
Spare == IF left > Reserve THEN left - Reserve ELSE 0

----------------------------------------------------------------------------
(* Decisions                                                               *)

Consistent(mode, window) == (mode = "GENERAL") = (window = "NONE")

\* parseWebSearchDecisionProtocol.
ValidPlan(p) ==
  IF p.action = "DIRECT"
  THEN p.query = NoQuery /\ p.alt = NoQuery /\ p.mode = "GENERAL" /\ p.window = "NONE"
  ELSE /\ Consistent(p.mode, p.window)
       /\ p.query # NoQuery
       /\ {p.query, p.alt} \cap Forbidden = {}

\* parseRetrievalQualityProtocol.
ValidGate(g) ==
  /\ {g.query, g.alt} \cap Forbidden = {}
  /\ IF g.decision = "RETRY"
     THEN g.query \notin {NoQuery, plan.query} /\ Consistent(g.mode, g.window)
     ELSE g.query = NoQuery /\ g.alt = NoQuery /\ g.mode = "GENERAL" /\ g.window = "NONE"

\* What the planner and the gate pass on: a broken protocol is no decision.
PlannedDecisions == {p \in PlannerAnswers : ValidPlan(p)}
GateDecisions == {g \in GateAnswers : ValidGate(g)}

\* Chinese general queries ask searxng first; configured providers win over both.
RouteFor(p, setup) ==
  LET Available(provider) == IF provider \in setup.builtin THEN <<provider>> ELSE <<>>
  IN  CASE setup.configured # <<>> -> setup.configured
        [] setup.configured = <<>> /\ p.mode = "GENERAL" /\ p.query \in HanQueries ->
             Available("searxng") \o Available("tavily")
        [] OTHER -> Available("tavily") \o Available("searxng")

\* Only tavily tries a second, wider window for the news of a day.
Windows(provider) ==
  IF plan.mode = "NEWS_RECENT" /\ plan.window = "DAY_1" /\ provider = "tavily" THEN 2 ELSE 1

\* A mutant: the retry is bounded by the deadline, not by the end of its stage.
CeilingOfAlternate == IF query.origin = "ALTERNATE" THEN Reserve ELSE 0

\* The part of `left` a query must not use: none for the primary query.
Ceiling == IF plan.round = 2 \/ query.origin = "ALTERNATE" THEN Reserve ELSE 0

----------------------------------------------------------------------------
(* Queries                                                                 *)

FirstTry(origin) == [origin |-> origin, provider |-> 1, window |-> 1, timeout |-> SearchTimeout]

\* calculateSearchProviderFallbackBudget, once for all windows of the fallback.
MayFallBack == query.provider < Len(route) /\ left' - Reserve >= MinStage
Fallback ==
  [query EXCEPT !.provider = @ + 1, !.window = 1,
                !.timeout = Least(SearchTimeout, left' - Reserve)]

\* A decision to search is carried out: without providers it fails at once.  A
\* request searches at most once, so the process's setup is chosen here.
BeginSearch(p) ==
  \E setup \in Setups :
  IF RouteFor(p, setup) = <<>>
  THEN /\ stage' = "resolved"
       /\ context' = [NoContext EXCEPT !.status = "FAILED", !.mode = p.mode]
       /\ UNCHANGED <<plan, route, query>>
  ELSE /\ stage' = "query" /\ route' = RouteFor(p, setup) /\ query' = FirstTry("PRIMARY")
       /\ plan' = [query |-> p.query, alt |-> p.alt, mode |-> p.mode, window |-> p.window,
                   first |-> p.mode, round |-> 1]
       /\ UNCHANGED context

EndQuery(results) ==
  /\ found' = found \o results /\ query' = Idle
  /\ stage' = IF query.origin = "PRIMARY" THEN "alternate" ELSE "merge"

\* executeWebSearchQuery before a call: no time, no results.
QueryOutOfTime ==
  /\ stage = "query" /\ left - Ceiling < 1
  /\ EndQuery(<<>>)
  /\ UNCHANGED <<left, plan, route, kept, context>>

\* One call of one provider, up to its timeout or the ceiling of its stage.
SearchCall ==
  /\ stage = "query" /\ left - Ceiling >= 1
  /\ Spend(Least(query.timeout, left - Ceiling))
  /\ UNCHANGED <<plan, route, kept, context>>
  /\ \/ /\ left' = 0
        /\ stage' = "expired" /\ query' = Idle /\ UNCHANGED found
     \/ /\ left' > 0
        /\ \E items \in ProviderAnswers :
             LET urls == ProviderSearch(items)
             IN  /\ urls # <<>>
                 /\ EndQuery(NormalizeWebSearchResults(Retrieved(urls, query.origin, plan.round)))
     \/ \* nothing found: the next window, then the next provider
        /\ left' > 0 /\ query.window < Windows(route[query.provider])
        /\ query' = [query EXCEPT !.window = @ + 1] /\ UNCHANGED <<stage, found>>
     \/ \* the last window empty, or an error at any window
        /\ left' > 0
        /\ IF MayFallBack THEN query' = Fallback /\ UNCHANGED <<stage, found>>
           ELSE EndQuery(<<>>)

\* The alternate query is asked for whatever became of the primary one.
Alternate ==
  /\ stage = "alternate"
  /\ IF plan.alt # NoQuery /\ Spare >= MinStage
     THEN stage' = "query" /\ query' = FirstTry("ALTERNATE")
     ELSE stage' = "merge" /\ UNCHANGED query
  /\ UNCHANGED <<left, plan, route, found, kept, context>>

----------------------------------------------------------------------------
(* From results to the prompt section                                      *)

\* The resolution; what the search held is over.
Resolve(outcome) ==
  /\ stage' = "resolved" /\ context' = outcome
  /\ plan' = NoPlan /\ route' = <<>> /\ found' = <<>> /\ kept' = <<>>

\* A failure names the mode of the first decision.
NothingFound == [NoContext EXCEPT !.status = "FAILED", !.mode = plan.first]

\* A mutant: what the retry found comes first.
MergedRetryFirst == RankWebSearchResults(NormalizeWebSearchResults(found \o kept), plan.mode)

\* What a retry found joins the enriched results of the first round.
Merged == RankWebSearchResults(NormalizeWebSearchResults(kept \o found), plan.mode)

MergeAndRank ==
  /\ stage = "merge"
  /\ IF plan.round = 1 /\ found = <<>> THEN Resolve(NothingFound)
     ELSE /\ stage' = "page" /\ kept' = Merged /\ found' = <<>>
          /\ UNCHANGED <<plan, route, context>>
  /\ UNCHANGED <<left, query>>

AfterPages == IF plan.round = 1 THEN "quality" ELSE "bound"

\* enrichPageEvidence: whatever goes wrong, the snippets stay.
FetchPages ==
  /\ stage = "page" /\ PagesEnabled /\ Spare >= MinStage
  /\ stage' = AfterPages
  /\ \E t \in 0..Least(PageTimeout, Spare) :
       /\ left' = left - t
       /\ \/ \E done \in FinishedPages(kept) :
               \* a page is missing only when the budget ran out
               /\ t < Least(PageTimeout, Spare) => done = 1..Len(PageCandidates(kept))
               /\ kept' = EnrichWebSearchResults(kept, done)
          \/ UNCHANGED kept
  /\ UNCHANGED <<plan, route, query, found, context>>

SkipPages ==
  /\ stage = "page" /\ ~(PagesEnabled /\ Spare >= MinStage)
  /\ stage' = AfterPages
  /\ UNCHANGED <<left, plan, route, query, found, kept, context>>

\* evaluateRetrievalQuality: the gate has a deadline of its own and fails closed.
NeedsGate == ~CheapEligible(kept, plan.mode) /\ Spare >= MinStage

AskQuality ==
  /\ stage = "quality" /\ NeedsGate
  /\ Spend(Spare)
  /\ \/ /\ stage' = "bound" /\ UNCHANGED plan          \* answerable, stop or failed
     \/ \E g \in GateDecisions :
          /\ left' > Reserve   \* answered within the gate's own deadline
          /\ g.decision = "RETRY"
          /\ stage' = "retry"
          /\ plan' = [plan EXCEPT !.query = g.query, !.alt = g.alt, !.mode = g.mode, !.round = 2,
                                  !.window = IF g.window = "NONE" THEN @ ELSE g.window]
  /\ UNCHANGED <<route, query, found, kept, context>>

SkipQuality ==
  /\ stage = "quality" /\ ~NeedsGate
  /\ stage' = "bound"
  /\ UNCHANGED <<left, plan, route, query, found, kept, context>>

\* executeRetrievalRetry: without time the retry finds nothing.
Retry ==
  /\ stage = "retry"
  /\ IF Spare >= MinStage THEN stage' = "query" /\ query' = FirstTry("PRIMARY")
     ELSE stage' = "merge" /\ UNCHANGED query
  /\ UNCHANGED <<left, plan, route, found, kept, context>>

\* buildWebSearchContext: an empty section is a failed search.
Bound ==
  /\ stage = "bound"
  /\ LET section == BuildWebSearchContext(kept)
     IN  Resolve(IF section = <<>> THEN NothingFound
                 ELSE [status |-> "PASS", mode |-> plan.mode, results |-> section])
  /\ UNCHANGED <<left, query>>

Search ==
  \/ QueryOutOfTime \/ SearchCall \/ Alternate
  \/ MergeAndRank \/ FetchPages \/ SkipPages
  \/ AskQuality \/ SkipQuality \/ Retry \/ Bound
================================================================================
