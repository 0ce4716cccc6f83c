CONSTANTS
  c1 = c1
  c2 = c2
  c3 = c3
  q1 = q1
  q2 = q2
  p1 = p1
  p2 = p2
  Nothing = Nothing
  Components <- MCComponents
  Queries <- MCQueries
  Reprices <- MCReprices
  Setups <- MCSetups
SPECIFICATION Spec
SYMMETRY Symmetry
PROPERTIES
  EventKeepsBooked
