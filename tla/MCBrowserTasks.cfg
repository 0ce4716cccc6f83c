CONSTANTS
  h1 = h1
  h2 = h2
  MaxRows = 2
  Handlers <- MCHandlers
  Publisher = Publisher
  None = None
  MaxConsumers = 3
  Setups <- MCSetups
SPECIFICATION Spec
CHECK_DEADLOCK FALSE
INVARIANTS
  TypeOK
  PendingRowIsHeld
  KeyGuardsOpenWork
  OneStory
PROPERTIES
  ResultIsFinal

  AcquisitionEnds
