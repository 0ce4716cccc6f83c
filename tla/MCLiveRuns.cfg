CONSTANTS
  q1 = q1
  q2 = q2
  Replans <- MCReplans
  Nobody = Nobody
  Monitor = Monitor
  MaxChecks = 2
  MaxCrashes = 1
  MaxFaults = 1
SPECIFICATION Spec
CHECK_DEADLOCK FALSE
INVARIANTS
  TypeOK
  AckedReplansKept
  CountedChecksAreInTheRun
  HistoryIsBacked
  StoppedIsQuiet
  ActiveHasTask
PROPERTIES
  EndedStaysEnded
  MonitorEnds
