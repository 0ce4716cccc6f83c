CONSTANTS
  Nobody = Nobody
  r1 = r1
  r2 = r2
  Registries <- MCRegistries
  Stalls = FALSE
  KillMayHang = FALSE
  MaxGen = 3
  MaxRev = 5
SPECIFICATION Spec
SYMMETRY Symmetry
CHECK_DEADLOCK FALSE
PROPERTIES
  FenceReleaseNeedsDeath
