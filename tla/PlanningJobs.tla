----------------------------- MODULE PlanningJobs -----------------------------
(***************************************************************************)
(* One persistent planning job, the asyncio tasks that run it, and the     *)
(* plan versions of its workspace.                                         *)
(* Source: jobs.py, WorkspaceRepository.save_plan and the lifespan and the *)
(* job endpoints of main.py.                                               *)
(*                                                                         *)
(* Every commit is a step; what a task computes between two commits (CP-SAT *)
(* in a thread, the workflow) is abstracted to success or an exception.    *)
(* The workspace keeps its plan versions in a row, so they are a sequence  *)
(* of authors.  A plan the job writes is determined by the problem and the *)
(* version it follows, unless the solver's time limit cut it short; a plan *)
(* the user posts is never the same as the job's.                          *)
(***************************************************************************)
EXTENDS Naturals, Sequences, FiniteSets

CONSTANTS
  Tasks,           \* slots for tasks of this job in one process
  MaxAttempts,     \* JobRow.max_attempts
  Environments,    \* which environments are there: with faults, without?
  MaxReposts,      \* bound: repeated submissions under one idempotency key
  MaxUserPlans,    \* bound: plan versions the user adds
  MaxCrashes       \* bound: crashes of the process

ASSUME JobsAssumption ==
  /\ MaxAttempts \in Nat \ {0}
  /\ Environments \subseteq BOOLEAN
  /\ MaxReposts \in Nat
  /\ MaxUserPlans \in Nat
  /\ MaxCrashes \in Nat

VARIABLES
  job,      \* the JobRow
  plans,    \* who wrote each plan version of the workspace
  task,     \* slot -> the task in it; base is the version it read
  up,       \* is the process alive
  spent,    \* how much of each bound is used
  faulty    \* may a task outlive its lease, and a transaction raise?

vars == <<job, plans, task, up, spent, faulty>>

NoTask == [pc |-> "none", base |-> 0]

TypeOK ==
  /\ job \in [status : {"absent", "queued", "running", "succeeded", "failed"},
              attempts : 0..MaxAttempts, lease : {"null", "live", "past"}]
  /\ plans \in Seq({"job", "user"})
  /\ task \in [Tasks -> [pc : {"none", "enqueued", "claimed", "solving",
                               "verified", "saved", "failing"}, base : Nat]]
  /\ up \in BOOLEAN
  /\ spent \in [reposts : 0..MaxReposts, userPlans : 0..MaxUserPlans,
                crashes : 0..MaxCrashes]
  /\ faulty \in Environments

Init ==
  /\ job = [status |-> "absent", attempts |-> 0, lease |-> "null"]
  /\ plans = <<>>
  /\ task = [t \in Tasks |-> NoTask]
  /\ up = TRUE
  /\ spent = [reposts |-> 0, userPlans |-> 0, crashes |-> 0]
  /\ faulty \in Environments

Free(t)    == task[t].pc = "none"
Working(t) == task[t].pc \notin {"none", "enqueued"}
Idle       == \A t \in Tasks : Free(t)

\* Mutants: a live lease, the status, or a queued job is not looked at.
ClaimableLeased      == job.status \in {"queued", "running"}
ClaimableFinished    == job.status # "absent" /\ job.lease # "live"
ClaimableOnlyRunning == job.status = "running" /\ job.lease # "live"

\* The filter of claim and of recoverable.
Claimable ==
  \/ job.status = "queued"
  \/ job.status = "running" /\ job.lease # "live"

Goto(t, pc)   == task' = [task EXCEPT ![t].pc = pc]
TaskEnds(t)   == task' = [task EXCEPT ![t] = NoTask]
EnqueueIn(t)  == task' = [task EXCEPT ![t] = [NoTask EXCEPT !.pc = "enqueued"]]
-------------------------------------------------------------------------------
\* POST .../jobs/planning: a repeated idempotency key finds the job, and enqueues
\* it again whatever its status.
Submit(t) ==
  /\ up /\ Free(t)
  /\ job.status = "absent"
  /\ job' = [job EXCEPT !.status = "queued"]
  /\ EnqueueIn(t)
  /\ UNCHANGED <<plans, up, spent>>

Repost(t) ==
  /\ up /\ Free(t)
  /\ job.status # "absent"
  /\ spent.reposts < MaxReposts
  /\ spent' = [spent EXCEPT !.reposts = @ + 1]
  /\ EnqueueIn(t)
  /\ UNCHANGED <<job, plans, up>>

\* The user posts a plan version, or an event that replans.
SaveUserPlan ==
  /\ up
  /\ spent.userPlans < MaxUserPlans
  /\ spent' = [spent EXCEPT !.userPlans = @ + 1]
  /\ plans' = Append(plans, "user")
  /\ UNCHANGED <<job, task, up>>
-------------------------------------------------------------------------------
\* Mutants: the attempts are not limited; a repeated attempt is not counted.
NeverExhausted == FALSE
CountedOnce    == IF job.attempts = 0 THEN 1 ELSE job.attempts

Exhausted    == job.attempts >= MaxAttempts
NextAttempts == job.attempts + 1

\* Mutant: a job without attempts left is passed over as it is.
ClaimPassingOver(t) ==
  /\ task[t].pc = "enqueued"
  /\ IF Claimable /\ ~Exhausted
       THEN /\ job' = [status |-> "running", attempts |-> NextAttempts,
                       lease |-> "live"]
            /\ Goto(t, "claimed")
       ELSE TaskEnds(t) /\ UNCHANGED job
  /\ UNCHANGED <<plans, up, spent>>

Claim(t) ==
  /\ task[t].pc = "enqueued"
  /\ CASE ~Claimable -> TaskEnds(t) /\ UNCHANGED job
       [] Claimable /\ Exhausted ->
            /\ job' = [job EXCEPT !.status = "failed", !.lease = "null"]
            /\ TaskEnds(t)
       [] OTHER ->
            /\ job' = [status |-> "running", attempts |-> NextAttempts,
                       lease |-> "live"]
            /\ Goto(t, "claimed")
  /\ UNCHANGED <<plans, up, spent>>

\* update: neither the lease nor the status is tested.
Updated(status) ==
  [job EXCEPT !.status = status,
              !.lease = IF status = "running" THEN "live" ELSE "null"]

\* update(optimizing), then the workspace is read.
StartSolving(t) ==
  /\ task[t].pc = "claimed"
  /\ job' = Updated("running")
  /\ task' = [task EXCEPT ![t] = [pc |-> "solving", base |-> Len(plans)]]
  /\ UNCHANGED <<plans, up, spent>>

Verify(t) ==
  /\ task[t].pc = "solving"
  /\ job' = Updated("running")
  /\ Goto(t, "verified")
  /\ UNCHANGED <<plans, up, spent>>

\* Mutant: a version that somebody else wrote is taken for the job's own.
SaveOverConflict(t) ==
  /\ task[t].pc = "verified"
  /\ plans' = IF Len(plans) = task[t].base THEN Append(plans, "job") ELSE plans
  /\ Goto(t, "saved")
  /\ UNCHANGED <<job, up, spent>>

\* save_plan: the version must be the next one, or be there with equal payload.
Save(t) ==
  LET base == task[t].base IN
  /\ task[t].pc = "verified"
  /\ \/ /\ Len(plans) = base
        /\ plans' = Append(plans, "job")
        /\ Goto(t, "saved")
     \/ /\ Len(plans) > base
        /\ plans[base + 1] = "job"
        /\ Goto(t, "saved")
        /\ UNCHANGED plans
     \/ /\ Len(plans) > base
        /\ Goto(t, "failing")
        /\ UNCHANGED plans
  /\ UNCHANGED <<job, up, spent>>

Succeed(t) ==
  /\ task[t].pc = "saved"
  /\ job' = Updated("succeeded")
  /\ TaskEnds(t)
  /\ UNCHANGED <<plans, up, spent>>

\* Solver, workflow or database raise.  A failed claim is handled like a failed
\* attempt.
Raise(t) ==
  /\ \/ task[t].pc \in {"solving", "verified"}
     \/ faulty /\ task[t].pc \in {"enqueued", "claimed", "saved"}
  /\ Goto(t, "failing")
  /\ UNCHANGED <<job, plans, up, spent>>

\* Mutant: the retry is recorded but not enqueued.
RetryUnqueued(t) ==
  /\ task[t].pc = "failing"
  /\ job' = [job EXCEPT !.lease = "null",
                        !.status = IF Exhausted THEN "failed" ELSE "queued"]
  /\ TaskEnds(t)
  /\ UNCHANGED <<plans, up, spent>>

\* schedule_retry: neither the lease nor the status is tested.
Retry(t) ==
  /\ task[t].pc = "failing"
  /\ job' = [job EXCEPT !.lease = "null",
                        !.status = IF Exhausted THEN "failed" ELSE "queued"]
  /\ IF Exhausted THEN TaskEnds(t) ELSE EnqueueIn(t)
  /\ UNCHANGED <<plans, up, spent>>

\* schedule_retry raises in its turn, and the task is gone.
RetryRaises(t) ==
  /\ faulty
  /\ task[t].pc = "failing"
  /\ TaskEnds(t)
  /\ UNCHANGED <<job, plans, up, spent>>
-------------------------------------------------------------------------------
Crash ==
  /\ up
  /\ spent.crashes < MaxCrashes
  /\ spent' = [spent EXCEPT !.crashes = @ + 1]
  /\ up' = FALSE
  /\ task' = [t \in Tasks |-> NoTask]
  /\ UNCHANGED <<job, plans>>

\* lifespan: recover runs once, before the first request.
Restart ==
  /\ ~up
  /\ up' = TRUE
  /\ IF Claimable THEN \E t \in Tasks : EnqueueIn(t) ELSE UNCHANGED task
  /\ UNCHANGED <<job, plans, spent>>

\* The solver is cut off after 120 seconds and every update gives the lease five
\* minutes more, so a lease runs out under a working task only if that stalls.
LeaseExpires ==
  /\ job.lease = "live"
  /\ faulty \/ \A t \in Tasks : ~Working(t)
  /\ job' = [job EXCEPT !.lease = "past"]
  /\ UNCHANGED <<plans, task, up, spent>>
-------------------------------------------------------------------------------
TaskStep(t) ==
  \/ Claim(t) \/ StartSolving(t) \/ Verify(t) \/ Save(t) \/ Succeed(t)
  \/ Raise(t) \/ Retry(t) \/ RetryRaises(t)

Next ==
  /\ \/ \E t \in Tasks : Submit(t) \/ Repost(t) \/ TaskStep(t)
     \/ SaveUserPlan \/ Crash \/ Restart \/ LeaseExpires
  /\ UNCHANGED faulty

\* The event loop runs every task on, a process that died is started again, and
\* time passes.
Fairness ==
  /\ \A t \in Tasks : WF_vars(TaskStep(t) /\ UNCHANGED faulty)
  /\ WF_vars(Restart /\ UNCHANGED faulty)
  /\ WF_vars(LeaseExpires /\ UNCHANGED faulty)

Spec == Init /\ [][Next]_vars /\ Fairness
-------------------------------------------------------------------------------
VersionsOfJob == {v \in 1..Len(plans) : plans[v] = "job"}
PlansOfJob    == Cardinality(VersionsOfJob)

\* SUCCEEDED is not reported for a plan the job did not get into the workspace,
\* whatever the user's own plans did to the versions meanwhile.
SucceededHasPlan == job.status = "succeeded" => PlansOfJob >= 1

\* A job that crashes between save_plan and update(SUCCEEDED) is run again and
\* saves one more version; the attempts bound how many.
PlanBudget == PlansOfJob <= job.attempts

\* Of all the tasks that reposts, retries and recovery enqueue for a job, one at
\* a time works on it, as long as no task outlives its lease.
SingleExecutor ==
  ~faulty => \A s, t \in Tasks : Working(s) /\ Working(t) => s = t

\* A job that reported its outcome to the client keeps it, as long as no task
\* outlives its lease.
OutcomeIsFinal ==
  [][~faulty /\ job.status \in {"succeeded", "failed"}
       => job'.status = job.status]_vars

\* A queued job is never forgotten: while the process is up, a task waits to
\* claim it, unless a transaction raised.
QueuedIsOwned ==
  ~faulty /\ up /\ job.status = "queued" => \E t \in Tasks : task[t].pc = "enqueued"

Abandoned ==
  /\ up
  /\ job.status = "running"
  /\ \A t \in Tasks : ~Working(t)
  /\ Idle \/ job.lease = "live"

\* A running job loses its last task to nothing but a crash, and is abandoned
\* only when the process comes back before the dead one's lease has run out:
\* recover passes it over, and it is not looked for again.
OnlyPromptRestartAbandons ==
  [][~faulty /\ ~Abandoned /\ Abandoned' => ~up /\ job.lease = "live"]_vars

\* Every job ends where nothing fails, unless it was never submitted or was
\* abandoned so.
JobEnds == faulty \/ <>[](job.status \notin {"queued", "running"} \/ Abandoned)
===============================================================================
