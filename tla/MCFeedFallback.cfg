CONSTANTS
  Codes = {"USD", "CHF", "GBP", "EUR"}
  DefaultQuotes <- MCDefaultQuotes
  AliasGroups <- MCAliasGroups
  Categories <- MCCategories
  CategoryAliases <- MCCategoryAliases
  CategoryWords <- MCCategoryWords
  WordsOf <- MCWordsOf
  ValidTags <- MCValidTags
  MinRelevance = 3500
  MinConfidence = 7200
  MinFallback = 5000
  RiskTypes <- MCRiskTypes
  RiskAliases <- MCRiskAliases
  TextAliases <- MCTextAliases
  MaxEvents = 3
  WindowAge = 1
  TrackingParameters = {"utm"}
  StableIdProviders = {"eu_sanctions"}
  RrfK = 60
  Multiplier = 2
  Articles <- MCArticles
  Patches <- MCPatches
  SupplierOf <- MCSupplierOf
  Generators = {g1, g2}
  Limit = 1
  SaveBound = 1
  NumArticles = 3
  Found <- MCFound
  Poisoned = {1}
  ScanWindow = 2
  ScanLimit = 2
  ScanBurst = 2
  Scans = {s1, s2}
  SupplierIds = {"A", "B"}
  Names = {"a", "b", "x", "y"}
  FormsOf <- MCFormsOf
  Documents = {1, 2}
  Recognised <- MCRecognised
  Designated <- MCDesignated
  Registrars = {r1, r2}
  Screeners = {c1, c2}
  BatchLimit = 1
  MergeBound = 2
  Addresses = {"u", "v"}
  Offers = {"o"}
  Requests = {q1, q2}
  TokenBound = 2
  EndBound = 2
  ThrottleKeys = {"k", "l"}
  ThrottleWindow = 2
  MaxTries = 1
  MaxKeys = 1
  Slots = {t1, t2}
  TryBound = 1
  TableOrder <- MCTableOrder
  Writers = {w1}
  Erasers = {x1, x2}
  Spellings = {"Key", "KEY", "-"}
  Normalised <- MCNormalised
  Severities = {"high", "severe"}
  Watchable = {"s", "t"}
  Askers = {"a1", "a2"}
  Tabs = {b1, b2}
  TurnBound = 1
  ClearBound = 1
  Pages = {"p1", "p2"}
  Calls = {i1, i2}
  ExpiryBound = 1
  ReloadBound = 1
  Attempts = 2
  Redirects = 1
  RetryAfters <- MCRetryAfters
  Passes = {"n1", "n2"}
  BatchOf <- MCBatchOf
  RepeatBound = 1
  Jobs = {"j1", "j2"}
  MaxRetries <- MCMaxRetries
  Backups = {k1, k2}
  Overwrites = {k2}
SPECIFICATION MCSpec
INVARIANT
  FallbackKeepsExclusions
