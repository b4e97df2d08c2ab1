CONSTANTS
  Enrichers = {e1}
  Agents = {}
  Embedders = {}
  Days = 1
  Cap = 3
  Estimates = {1}
  Usages = {2}
  RunCalls = 2
  RunTokens = 3
  BillBound = 8
SPECIFICATION SpendSpec
INVARIANTS
  HardStop
