CONSTANTS
  t1 = t1
  t2 = t2
  Tasks <- MCTasks
  MaxAttempts = 3
  Environments <- MCEnvironments
  MaxReposts = 2
  MaxUserPlans = 1
  MaxCrashes = 2
SPECIFICATION Spec
CHECK_DEADLOCK FALSE
INVARIANTS
  TypeOK
  SingleExecutor
  QueuedIsOwned
  SucceededHasPlan
  PlanBudget
PROPERTIES
  OutcomeIsFinal
  OnlyPromptRestartAbandons
  JobEnds
