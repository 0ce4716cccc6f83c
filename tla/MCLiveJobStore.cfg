CONSTANTS
  Nobody = Nobody
  c1 = c1
  c2 = c2
  p1 = p1
  p2 = p2
  d1 = d1
  d2 = d2
  Controllers <- MCControllers
  Pairs <- MCPairs
  Digests <- MCDigests
  MaxGen = 4
  MaxRev = 7
SPECIFICATION Spec
SYMMETRY Symmetry
CHECK_DEADLOCK FALSE
INVARIANTS
  TypeOK
  FenceExcludesLease
  PairResultsAscend
PROPERTIES
  FreshFenceHasNoProof
  ProofKeepsItsTarget
  TerminalIsFinal
  RevisionGrows
  CancelIntentSticks
