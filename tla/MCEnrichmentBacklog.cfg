CONSTANTS
  Workers = {w1}
  NumArticles = 3
  Limit = 1
  LeaseLen = 2
  TaskLimit = 1
  ReleaseDelay = 1
  RouteDelay = 2
  BackoffBase = 1
  BackoffMax = 1
  AttemptCap = 1
  None = None
  Dead = Dead
SPECIFICATION CalmSpec
PROPERTIES
  BacklogDrains
