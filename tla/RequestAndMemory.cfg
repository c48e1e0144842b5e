SPECIFICATION BothSpec
CONSTANTS
  Urls <- MCUrls
  Canonical <- MCCanonical
  Title <- MCTitle
  Host <- MCHost
  Relevance <- MCRelevance
  Age <- MCAge
  Authority <- MCAuthority
  Direct = {"docs", "docsVariant"}
  HighEvidence = {"NEWS_RECENT"}
  Explicit = {}
  Unsafe = {"docsVariant"}
  Redirect <- MCRedirect
  Readable = {"docs", "wiki"}
  MaxResults = 2
  MaxRedirects = 3
  MaxPages = 2
  PageChars = 2
  MaxTotalChars = 3
  MaxContext = 6
  Reserve = 3
  MinStage = 2
  SearchTimeout = 3
  PageTimeout = 2
  PagesEnabled = TRUE
  Forbidden = {"secret"}
  HanQueries = {"han"}
  NoQuery = "none"
  Setups <- MCSetups
  PlannerAnswers <- MCPlannerAnswers
  GateAnswers <- MCGateAnswers
  ProviderAnswers <- MCProviderAnswers
  ReplyBudget <- MCReplyBudget
  HardCap <- MCHardCap
  Tainted = {"blog"}
  Budget = 12
  MinRecovery = 9
  Answers <- MCAnswers
  RecoveryAnswers <- MCRecoveryAnswers
  OwnerScopes = {p1}
  MemberScopes = {}
  GroupScopes = {g1}
  Contents = {a, b}
  Slots = {residence}
  NoSlot = NoSlot
  Damaged = Damaged
  ShortWrites = TRUE
  MaxRecords = 3
SYMMETRY Symmetry
INVARIANTS
  EvidenceIsOwned
  NothingInternalLeaves
  MemoryAgreesWithFile
PROPERTIES
  ReserveIsKept
  PageEvidenceIsKept
  RequestGoesForward
  NothingIsErased
  OneCurrentValue
