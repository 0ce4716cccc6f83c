CONSTANTS
  Nobody = Nobody
  r1 = r1
  r2 = r2
  Registries <- MCRegistries
  Stalls = TRUE
  KillMayHang = TRUE
  MaxGen = 3
  MaxRev = 4
SPECIFICATION Spec
SYMMETRY Symmetry
CONSTRAINT OneSweepAfterEnd
CHECK_DEADLOCK FALSE
INVARIANTS
  DeathProofIsTrue
  ReapedLeaseStaysRevoked
PROPERTIES
  ResultsFollowDeath
