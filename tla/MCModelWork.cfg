CONSTANTS
  Runs = {r1}
  Admins = {a1, a2}
  Keys = {k1}
  Invented = {f1}
  MaxSteps = 3
  MaxCalls = 2
  MaxRecs = 2
  Nobody = Nobody
  Enrichers = {e1}
  Agents = {g1}
  Embedders = {m1}
  Days = 2
  Cap = 3
  Estimates = {1}
  Usages = {2}
  RunCalls = 3
  RunTokens = 2
  BillBound = 7
SPECIFICATION MCSpec
INVARIANTS
  Types
  ProposalsRestOnEvidence
  RowFollowsTrail
  OvershootBounded
  NothingElseIsLost
PROPERTIES
  RequestsEnd
  ChargesGoThrough
