CONSTANTS
  Workers = {w1, w2}
  NumArticles = 1
  Limit = 1
  LeaseLen = 3
  TaskLimit = 2
  ReleaseDelay = 1
  RouteDelay = 2
  BackoffBase = 1
  BackoffMax = 2
  AttemptCap = 2
  None = None
  Dead = Dead
SPECIFICATION NFairSpec
INVARIANTS
  CompletedMeansProcessed
PROPERTIES
  EnrichedIsNeverClaimed
  
