---------------------------- MODULE MCPlanningJobs ----------------------------
(* A small instance of PlanningJobs: two tasks at once, three attempts, with    *)
(* faults and without.                                                          *)
EXTENDS PlanningJobs
CONSTANTS t1, t2
MCTasks == {t1, t2}
MCEnvironments == BOOLEAN
===============================================================================
