CONSTANTS
  Execs = {e1, e2}
  Sources = {s1, s2}
  MaxRetries = 1
  Nobody = Nobody
  Askers = {a1, a2, a3}
  Threshold = 2
  MaxAttempts = 2
  Interruptions = 1
  None = None
  Dead = Dead
SPECIFICATION MCSpec
INVARIANTS
  Types
  SavedExactlyOnce
  HalfOpenAdmitsOne
PROPERTIES
  OnlyTheRunOwnerSaves
  ImplementsHarvest
  GatheringEnds
  ClosesOnFreshEvidence
  ClosesAfterRecovery
