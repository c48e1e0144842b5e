---------------------------- MODULE MCRequestPipeline ---------------------------
(***************************************************************************)
(* A small instance of RequestPipeline: a deadline of twelve units, four   *)
(* urls, five queries and the answers a provider may give.                 *)
(***************************************************************************)
EXTENDS RequestPipeline

\* Two spellings of one official page, and two pages of one other host.
MCUrls == {"docs", "docsVariant", "wiki", "blog"}
MCCanonical == [u \in MCUrls |-> IF u = "docsVariant" THEN "docs" ELSE u]
MCTitle == [u \in MCUrls |-> IF u = "docsVariant" THEN "docs" ELSE u]
MCHost == [u \in MCUrls |-> IF u \in {"docs", "docsVariant"} THEN "official" ELSE "other"]
MCRelevance == [u \in MCUrls |-> IF u = "wiki" THEN 2 ELSE 1]
MCAge == [u \in MCUrls |-> IF u = "blog" THEN 1 ELSE 2]
MCAuthority == [u \in MCUrls |-> CASE u = "wiki" -> "AUTHORITATIVE_SECONDARY"
                                   [] u = "blog" -> "UGC"
                                   [] OTHER -> "PRIMARY_OFFICIAL"]
\* The blog redirects to a page that is refused; the first docs page is readable.
MCRedirect == [u \in {"blog"} |-> "docsVariant"]

\* One answer repeats a url and one holds only an item without a usable url.
MCProviderAnswers == {<<"docs", "docs", "wiki", "blog">>, <<"blog", "docsVariant">>, <<"ftp">>}
MCSetups == {[configured |-> <<>>, builtin |-> {"tavily", "searxng"}],
             [configured |-> <<"degoog">>, builtin |-> {"tavily"}],
             [configured |-> <<>>, builtin |-> {}]}

Decision(action, q, alt, mode, window) ==
  [action |-> action, query |-> q, alt |-> alt, mode |-> mode, window |-> window]
MCPlannerAnswers ==
  {Decision("DIRECT", "none", "none", "GENERAL", "NONE"),
   Decision("SEARCH", "qa", "qb", "NEWS_RECENT", "DAY_1"),
   Decision("SEARCH", "han", "none", "GENERAL", "NONE"),
   Decision("SEARCH", "qa", "secret", "GENERAL", "NONE")}
MCGateAnswers ==
  {[decision |-> "RETRY", query |-> "qc", alt |-> "none", mode |-> "GENERAL", window |-> "NONE"],
   [decision |-> "RETRY", query |-> "secret", alt |-> "none", mode |-> "GENERAL", window |-> "NONE"]}
MCRecoveryAnswers ==
  {[query |-> "qa", mode |-> "GENERAL", window |-> "NONE"],
   [query |-> "secret", mode |-> "GENERAL", window |-> "NONE"]}

MCAnswers ==
  {<<"fact", "fact", "fact", "fact", "S1">>,   \* cut in front of its marker, or behind
   <<"label", "S1", "link", "cta">>,
   <<"gap", "value">>, <<"gap">>, <<"claim">>, <<"markup">>,
   <<"think", "searched">>, <<"fact", "structured", "fact", "fact", "bulk">>,
   <<"admits", "fact", "structured", "fact">>,
   <<"fact", "fact", "fact", "fact", "admits">>, <<"S1", "link">>}

MCReplyBudget == [d \in {"SHORT", "NORMAL"} |-> IF d = "SHORT" THEN 2 ELSE 3]
MCHardCap == [d \in {"NORMAL", "DETAILED"} |-> IF d = "NORMAL" THEN 3 ELSE 4]
================================================================================
