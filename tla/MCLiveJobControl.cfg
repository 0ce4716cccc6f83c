CONSTANTS
  Nobody = Nobody
  r1 = r1
  r2 = r2
  Registries <- MCRegistries
  Stalls = FALSE
  KillMayHang = FALSE
  MaxGen = 3
  MaxRev = 5
SPECIFICATION Spec
SYMMETRY Symmetry
CONSTRAINT OneSweepAfterEnd
CHECK_DEADLOCK FALSE
INVARIANTS
  TypeOK
  LeaseHolderUnique
PROPERTIES
  ProofBackedCancel
  ImplementsStore
