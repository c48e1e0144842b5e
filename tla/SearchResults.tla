----------------------------- MODULE SearchResults -----------------------------
(***************************************************************************)
(* The data path of web search: what a provider returns is normalised,     *)
(* merged, deduplicated, ranked, enriched with page text and cut to the    *)
(* size of the prompt (web-search.ts, search-provider.ts,                  *)
(* retrieval-quality.ts).                                                  *)
(*                                                                         *)
(* A result is a record of its url, the title it was found with, the query *)
(* it came from, the retrieval round and how much text of its page is held;*)
(* the attributes a score or a classification computes from its text are   *)
(* functions of the url.                                                   *)
(***************************************************************************)
EXTENDS Integers, Sequences, FiniteSets, SequencesExt, Lists

CONSTANTS
  Urls,
  Canonical,     \* canonicalizeKnownUrl: variants of one address
  Title,         \* the title key of a url
  Host,
  Relevance,     \* combinedRelevanceScore
  Age,           \* freshnessRank and distance: the less the fresher
  Authority,     \* classifyRetrievalAuthority
  Direct,        \* urls with a direct answer
  HighEvidence,  \* modes in which the question makes a strong claim: that of news
                 \* always, the other one if it compares, asks who or why, or of now
  Explicit,      \* urls with the explicit evidence that claim needs, fresh if it must be
  Unsafe,        \* urls the page fetcher refuses
  Redirect,      \* a redirecting url and its target
  Readable,      \* urls with an HTML page of some text
  MaxResults,    \* webSearchMaxResults
  MaxRedirects,
  MaxPages,      \* pages one enrichment fetches
  PageChars,     \* the most text kept of one page
  MaxTotalChars, \* the most page text of one request
  MaxContext     \* what the prompt section can hold

ASSUME ResultAssumption ==
  /\ Canonical \in [Urls -> Urls] /\ \A u \in Urls : Canonical[Canonical[u]] = Canonical[u]
  /\ DOMAIN Title = Urls /\ DOMAIN Host = Urls /\ DOMAIN Authority = Urls
  /\ Relevance \in [Urls -> Nat] /\ Age \in [Urls -> Nat]
  /\ Direct \subseteq Urls /\ Explicit \subseteq Urls
  /\ HighEvidence \in {{"NEWS_RECENT"}, {"NEWS_RECENT", "GENERAL"}}
  /\ Unsafe \subseteq Urls /\ Readable \subseteq Urls
  /\ DOMAIN Redirect \subseteq Urls /\ \A u \in DOMAIN Redirect : Redirect[u] \in Urls
  /\ {MaxResults, MaxRedirects, MaxPages, PageChars, MaxTotalChars, MaxContext} \subseteq Nat

Result == [url : Urls, title : {Title[u] : u \in Urls}, origin : {"PRIMARY", "ALTERNATE"},
           round : {1, 2}, chars : 0..PageChars]

\* A page fetched when no room was left counts as one not fetched.
HasPage(r) == r.chars > 0

Least(a, b) == IF a < b THEN a ELSE b

----------------------------------------------------------------------------
(* Normalising, deduplicating and ranking                                  *)

\* normalizeSearchResults: items without a usable url or text are dropped, and
\* the first item of every url stays.
NormalizeSearchResults(items) ==
  Those(items, {i \in DOMAIN items : /\ items[i] \in Urls
                                     /\ \A j \in 1..(i - 1) : items[j] # items[i]})

\* What a provider passes on of the items it was answered.
ProviderSearch(items) ==
  LET urls == NormalizeSearchResults(items) IN SubSeq(urls, 1, Least(Len(urls), MaxResults))

\* A provider's urls as results of one query of one round.
Retrieved(urls, origin, round) ==
  [i \in DOMAIN urls |->
     [url |-> urls[i], title |-> Title[urls[i]], origin |-> origin, round |-> round, chars |-> 0]]

\* The first result of every url stays.
NormalizeWebSearchResults(results) ==
  Those(results, {i \in DOMAIN results : \A j \in 1..(i - 1) : results[j].url # results[i].url})

\* Two results of one address, or whose titles differ by a source's suffix.
IsDuplicate(a, b) == Canonical[a.url] = Canonical[b.url] \/ a.title = b.title

\* The first of every canonical url and of every title stays.
DeduplicateQualityResults(results) ==
  LET deduped[n \in 0..Len(results)] ==
        IF n = 0 THEN <<>>
        ELSE LET before == deduped[n - 1]
                 item == results[n]
             IN  IF \E k \in DOMAIN before : IsDuplicate(before[k], item)
                 THEN before ELSE Append(before, [item EXCEPT !.url = Canonical[item.url]])
  IN  deduped[Len(results)]

\* Relevance to the question and the query; only recent news is ranked by age.
RelevanceScore(r) == Relevance[r.url]
FreshnessRank(r, mode) == IF mode = "NEWS_RECENT" THEN Age[r.url] ELSE 0

\* Recent news by freshness first; then relevance, then the primary query.
Before(a, b, mode) ==
  LET fresher == FreshnessRank(a, mode) < FreshnessRank(b, mode)
      asFresh == FreshnessRank(a, mode) = FreshnessRank(b, mode)
      better == RelevanceScore(a) > RelevanceScore(b)
      asGood == RelevanceScore(a) = RelevanceScore(b)
      earlierQuery == a.origin = "PRIMARY" /\ b.origin = "ALTERNATE"
  IN  fresher \/ (asFresh /\ (better \/ (asGood /\ earlierQuery)))

\* A stable sort: what compares equal stays in the provider's order.
Sorted(results, mode) ==
  ByRank(results, [i \in DOMAIN results |->
    {j \in DOMAIN results : \/ Before(results[j], results[i], mode)
                            \/ ~Before(results[i], results[j], mode) /\ j < i}])

\* Two results of a host come before a third of it.
DiversifyByHostname(results) ==
  LET early == {i \in DOMAIN results :
                  Cardinality({j \in 1..(i - 1) : Host[results[j].url] = Host[results[i].url]}) < 2}
  IN  Those(results, early) \o Those(results, DOMAIN results \ early)

RankWebSearchResults(results, mode) ==
  DiversifyByHostname(Sorted(DeduplicateQualityResults(results), mode))

----------------------------------------------------------------------------
(* Page evidence                                                           *)

\* Scheme, port and host are public, and so is every address the host resolves to.
ValidatePageFetchUrl(u) == u \notin Unsafe

\* The text of an HTML page, cut; without any the fetch fails.
PageText(u) == IF u \in Readable THEN PageChars ELSE 0

\* fetchWebPage: every hop is checked before it is requested.
FetchWebPage(start) ==
  LET fetch[hops \in 0..MaxRedirects] ==   \* hops that are still allowed
        [u \in Urls |-> IF ~ValidatePageFetchUrl(u) THEN 0
                        ELSE IF u \notin DOMAIN Redirect THEN PageText(u)
                        ELSE IF hops = 0 THEN 0 ELSE fetch[hops - 1][Redirect[u]]]
  IN  fetch[MaxRedirects][start]

\* The results an enrichment may fetch, the new ones of a retry first.
PageCandidates(results) ==
  LET missing == {i \in DOMAIN results : ~HasPage(results[i])}
      new == {i \in DOMAIN results : results[i].round = 2}
      indices == [i \in DOMAIN results |-> i]
      order == Those(indices, missing \cap new) \o Those(indices, missing \ new)
  IN  SubSeq(order, 1, Least(Len(order), MaxPages))

\* Two workers take the candidates in order until the budget is over: one may be
\* stuck while the other goes on.
FinishedPages(results) ==
  LET n == Len(PageCandidates(results))
  IN  {done \in SUBSET (1..n) :
         Cardinality({c \in (1..n) \ done : \E d \in done : c < d}) <= 1}

\* The pages of `done` share what the pages held so far leave of the total.
EnrichWebSearchResults(results, done) ==
  LET fetched == {PageCandidates(results)[c] : c \in done}
      size(i) == IF i \in fetched THEN FetchWebPage(results[i].url) ELSE 0
      held == Total([i \in DOMAIN results |-> results[i].chars])
      room == IF held < MaxTotalChars THEN MaxTotalChars - held ELSE 0
      taken[n \in 0..Len(results)] == IF n = 0 THEN 0 ELSE Least(taken[n - 1] + size(n), room)
  IN  [i \in DOMAIN results |-> [results[i] EXCEPT !.chars = @ + (taken[i] - taken[i - 1])]]

----------------------------------------------------------------------------
(* The quality of a first round and the prompt section                     *)

\* Official, authoritative, or neither, by host and title.
ClassifyRetrievalAuthority(r) == Authority[r.url]

\* Its text or its page speaks to the question.
HasDirectAnswerSignal(r) == r.url \in Direct \/ HasPage(r)

\* assessRetrievalQuality: no gate is asked when the evidence is plainly enough.
CheapEligible(results, mode) ==
  LET of(authority) == {i \in DOMAIN results : /\ HasDirectAnswerSignal(results[i])
                                              /\ ClassifyRetrievalAuthority(results[i]) = authority}
      official == of("PRIMARY_OFFICIAL")
      secondary == of("AUTHORITATIVE_SECONDARY")
      paged(S) == {i \in S : HasPage(results[i])}
      strong == mode \in HighEvidence
      extreme == \E i \in paged(official) : results[i].url \in Explicit
  IN  /\ results # <<>>
      /\ strong => extreme
      /\ official \cup secondary # {}
      /\ \/ paged(official) # {} \/ paged(secondary) # {}
         \/ official # {} /\ ~strong

\* The ranked prefix that fits; the last block may be cut.
BuildWebSearchContext(results) ==
  LET size(i) == 1 + results[i].chars
      fits == {n \in DOMAIN results : Total([i \in 1..(n - 1) |-> size(i)]) < MaxContext}
  IN  SubSeq(results, 1, Cardinality(fits))
================================================================================
