CONSTANTS
  Runs = {r1}
  Admins = {a1, a2}
  Keys = {k1}
  Invented = {f1}
  MaxSteps = 2
  MaxCalls = 2
  MaxRecs = 1
  Nobody = Nobody
SPECIFICATION AnalysisSpec
INVARIANTS
  CompletedMeansChecked
CHECK_DEADLOCK FALSE
