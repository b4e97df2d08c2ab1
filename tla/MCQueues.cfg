CONSTANTS
  Workers = {w1, w2}
  NumArticles = 2
  Limit = 2
  LeaseLen = 2
  TaskLimit = 1
  ReleaseDelay = 1
  RouteDelay = 2
  BackoffBase = 1
  BackoffMax = 2
  AttemptCap = 2
  None = None
  Dead = Dead
  NumEvents = 2
  Window = 2
  EventLimit = 1
  Burst = 1
  Addressees = {p1}
  Evaluators = {v1, v2}
  Drains = {d1, d2}
  DrainLimit = 1
  MaxAttempts = 2
SPECIFICATION MCSpec
INVARIANTS
  ExclusiveWork
  LiveWorkerKeepsLease
  CompletedIffProcessed
  OwedOnce
  NoneMissed
  GivenUpAfterMaxTries
PROPERTIES
  ImplementsArticleWork
  VerdictsAreFinal
  OwedIsSettled
