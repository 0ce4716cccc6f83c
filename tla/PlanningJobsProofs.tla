--------------------------- MODULE PlanningJobsProofs ---------------------------
(***************************************************************************)
(* What PlanningJobs promises, proved for every number of task slots,      *)
(* every limit on the attempts and every bound.                            *)
(*                                                                         *)
(* As long as no task outlives its lease, a task that works on the job     *)
(* holds it: the row is running and its lease is live (WorkerHoldsLease).  *)
(* So nobody else can claim it, and a finished or queued job has no worker *)
(* that could overwrite its status.  With faults, two things still hold:   *)
(* each attempt is counted before it can write a version (AttemptsCover),  *)
(* and a task reports success only after its save (SavedHasPlan).          *)
(***************************************************************************)
EXTENDS PlanningJobs, FiniteSetTheorems, TLAPS

\* A task that works on the job holds its lease.
WorkerHoldsLease ==
  ~faulty => \A t \in Tasks : Working(t) => job.status = "running" /\ job.lease = "live"

\* The tasks whose attempt is counted and has not written a version yet.
Unsaved == {t \in Tasks : task[t].pc \in {"claimed", "solving", "verified"}}

\* Every version of the job, and every one it may still write, is an attempt.
AttemptsCover ==
  /\ IsFiniteSet(Unsaved)
  /\ PlansOfJob + Cardinality(Unsaved) <= job.attempts

HasPlan == VersionsOfJob # {}

\* A task past save_plan has a version of the job in the workspace.
SavedHasPlan ==
  (job.status = "succeeded" \/ \E t \in Tasks : task[t].pc = "saved") => HasPlan

JobsInv ==
  /\ TypeOK
  /\ WorkerHoldsLease
  /\ SingleExecutor
  /\ QueuedIsOwned
  /\ SavedHasPlan
  /\ AttemptsCover

JobType  == [status : {"absent", "queued", "running", "succeeded", "failed"},
             attempts : 0..MaxAttempts, lease : {"null", "live", "past"}]
TaskType == [pc : {"none", "enqueued", "claimed", "solving",
                   "verified", "saved", "failing"}, base : Nat]
SpentType == [reposts : 0..MaxReposts, userPlans : 0..MaxUserPlans,
              crashes : 0..MaxCrashes]
-------------------------------------------------------------------------------
(* What the operators of the model do, field by field.                       *)

\* The row has its status, attempts and lease, and every slot its task.
LEMMA RowsTyped == TypeOK <=> /\ job \in JobType
                              /\ plans \in Seq({"job", "user"})
                              /\ task \in [Tasks -> TaskType]
                              /\ up \in BOOLEAN
                              /\ spent \in SpentType
                              /\ faulty \in Environments
BY DEF TypeOK, JobType, TaskType, SpentType

\* The task in slot t is at pc now, and the others are where they were.
Moves(t, pc) ==
  /\ task' \in [Tasks -> TaskType]
  /\ task'[t].pc = pc
  /\ \A s \in Tasks \ {t} : task'[s] = task[s]

Pcs == {"none", "enqueued", "claimed", "solving", "verified", "saved", "failing"}

LEMMA GotoMoves ==
  ASSUME task \in [Tasks -> TaskType], NEW t \in Tasks, NEW pc \in Pcs, Goto(t, pc)
  PROVE  Moves(t, pc)
<1>1. [task[t] EXCEPT !.pc = pc] \in TaskType /\ [task[t] EXCEPT !.pc = pc].pc = pc
  BY DEF TaskType, Pcs
<1>2. task' = [task EXCEPT ![t] = [task[t] EXCEPT !.pc = pc]]
  BY DEF Goto
<1>3. QED
  BY <1>1, <1>2 DEF Moves

LEMMA EndMoves ==
  ASSUME task \in [Tasks -> TaskType], NEW t \in Tasks, TaskEnds(t)
  PROVE  Moves(t, "none")
<1>1. NoTask \in TaskType /\ NoTask.pc = "none"
  BY DEF TaskType, NoTask
<1>2. QED
  BY <1>1 DEF Moves, TaskEnds

LEMMA EnqueueMoves ==
  ASSUME task \in [Tasks -> TaskType], NEW t \in Tasks, EnqueueIn(t)
  PROVE  Moves(t, "enqueued")
<1>1. [NoTask EXCEPT !.pc = "enqueued"] \in TaskType
  BY DEF TaskType, NoTask
<1>2. [NoTask EXCEPT !.pc = "enqueued"].pc = "enqueued"
  BY DEF NoTask
<1>3. QED
  BY <1>1, <1>2 DEF Moves, EnqueueIn

\* The row after a change of status and lease.
RowIs(status, lease) ==
  /\ job' \in JobType
  /\ job'.status = status /\ job'.lease = lease /\ job'.attempts = job.attempts

LEMMA UpdatedRow ==
  ASSUME job \in JobType, NEW s \in {"running", "succeeded"}, job' = Updated(s)
  PROVE  RowIs(s, IF s = "running" THEN "live" ELSE "null")
BY DEF JobType, RowIs, Updated
-------------------------------------------------------------------------------
(* What each step of a task does.                                            *)

LEMMA ClaimEffect ==
  ASSUME TypeOK, NEW t \in Tasks, Claim(t)
  PROVE  /\ task[t].pc = "enqueued" /\ UNCHANGED <<plans, up, spent>>
         /\ \/ ~Claimable /\ UNCHANGED job /\ Moves(t, "none")
            \/ Claimable /\ RowIs("failed", "null") /\ Moves(t, "none")
            \/ /\ Claimable /\ Moves(t, "claimed")
               /\ job' \in JobType /\ job'.status = "running" /\ job'.lease = "live"
               /\ job'.attempts = job.attempts + 1
<1>0. job \in JobType /\ task \in [Tasks -> TaskType]
  BY RowsTyped
<1>1. CASE ~Claimable
  BY <1>0, <1>1, EndMoves DEF Claim
<1>2. CASE Claimable /\ Exhausted
  <2>1. job' = [job EXCEPT !.status = "failed", !.lease = "null"] /\ TaskEnds(t)
    BY <1>2 DEF Claim
  <2>2. RowIs("failed", "null")
    BY <1>0, <2>1 DEF RowIs, JobType
  <2>3. QED
    BY <1>0, <1>2, <2>1, <2>2, EndMoves DEF Claim
<1>3. CASE Claimable /\ ~Exhausted
  <2>1. /\ job' = [status |-> "running", attempts |-> NextAttempts, lease |-> "live"]
        /\ Goto(t, "claimed")
    BY <1>3 DEF Claim
  <2>2. NextAttempts \in 0..MaxAttempts /\ NextAttempts = job.attempts + 1
    BY <1>0, <1>3, JobsAssumption DEF NextAttempts, Exhausted, JobType
  <2>3. Moves(t, "claimed")
    BY <1>0, <2>1, GotoMoves DEF Pcs
  <2>4. job' \in JobType /\ job'.status = "running" /\ job'.lease = "live"
        /\ job'.attempts = job.attempts + 1
    BY <2>1, <2>2 DEF JobType
  <2>5. QED
    BY <1>3, <2>3, <2>4 DEF Claim
<1>4. QED
  BY <1>1, <1>2, <1>3

LEMMA SolvingEffect ==
  ASSUME TypeOK, NEW t \in Tasks, StartSolving(t)
  PROVE  /\ task[t].pc = "claimed" /\ Moves(t, "solving")
         /\ RowIs("running", "live") /\ UNCHANGED <<plans, up, spent>>
<1>0. job \in JobType /\ task \in [Tasks -> TaskType] /\ Len(plans) \in Nat
  BY RowsTyped
<1>1. [pc |-> "solving", base |-> Len(plans)] \in TaskType
  BY <1>0 DEF TaskType
<1>2. Moves(t, "solving")
  BY <1>0, <1>1 DEF StartSolving, Moves
<1>3. QED
  BY <1>0, <1>2, UpdatedRow DEF StartSolving

LEMMA VerifyEffect ==
  ASSUME TypeOK, NEW t \in Tasks, Verify(t)
  PROVE  /\ task[t].pc = "solving" /\ Moves(t, "verified")
         /\ RowIs("running", "live") /\ UNCHANGED <<plans, up, spent>>
BY RowsTyped, UpdatedRow, GotoMoves DEF Verify, Pcs

LEMMA SaveEffect ==
  ASSUME TypeOK, NEW t \in Tasks, Save(t)
  PROVE  /\ task[t].pc = "verified" /\ UNCHANGED <<job, up, spent>>
         /\ \/ plans' = Append(plans, "job") /\ Moves(t, "saved")
            \/ HasPlan /\ UNCHANGED plans /\ Moves(t, "saved")
            \/ UNCHANGED plans /\ Moves(t, "failing")
<1>0. task \in [Tasks -> TaskType] /\ Len(plans) \in Nat /\ task[t].base \in Nat
  BY RowsTyped DEF TaskType
<1>1. ASSUME Len(plans) > task[t].base, plans[task[t].base + 1] = "job"
      PROVE  HasPlan
  <2>1. task[t].base + 1 \in 1..Len(plans)
    BY <1>0, <1>1
  <2>2. QED
    BY <1>1, <2>1 DEF HasPlan, VersionsOfJob
<1>2. Goto(t, "saved") => Moves(t, "saved")
  BY <1>0, GotoMoves DEF Pcs
<1>3. Goto(t, "failing") => Moves(t, "failing")
  BY <1>0, GotoMoves DEF Pcs
<1>4. QED
  BY <1>1, <1>2, <1>3 DEF Save

LEMMA SucceedEffect ==
  ASSUME TypeOK, NEW t \in Tasks, Succeed(t)
  PROVE  /\ task[t].pc = "saved" /\ Moves(t, "none")
         /\ RowIs("succeeded", "null") /\ UNCHANGED <<plans, up, spent>>
BY RowsTyped, UpdatedRow, EndMoves DEF Succeed

LEMMA RaiseEffect ==
  ASSUME TypeOK, NEW t \in Tasks, Raise(t)
  PROVE  /\ \/ task[t].pc \in {"solving", "verified"}
            \/ faulty /\ task[t].pc \in {"enqueued", "claimed", "saved"}
         /\ Moves(t, "failing") /\ UNCHANGED <<job, plans, up, spent>>
BY RowsTyped, GotoMoves DEF Raise, Pcs

LEMMA RetryEffect ==
  ASSUME TypeOK, NEW t \in Tasks, Retry(t)
  PROVE  /\ task[t].pc = "failing" /\ UNCHANGED <<plans, up, spent>>
         /\ \/ RowIs("failed", "null") /\ Moves(t, "none")
            \/ RowIs("queued", "null") /\ Moves(t, "enqueued")
<1>0. job \in JobType /\ task \in [Tasks -> TaskType]
  BY RowsTyped
<1>1. RowIs(IF Exhausted THEN "failed" ELSE "queued", "null")
  BY <1>0 DEF Retry, RowIs, JobType
<1>2. QED
  BY <1>0, <1>1, EndMoves, EnqueueMoves DEF Retry

LEMMA RetryRaisesEffect ==
  ASSUME TypeOK, NEW t \in Tasks, RetryRaises(t)
  PROVE  /\ faulty /\ task[t].pc = "failing" /\ Moves(t, "none")
         /\ UNCHANGED <<job, plans, up, spent>>
BY RowsTyped, EndMoves DEF RetryRaises
-------------------------------------------------------------------------------
(* What the requests, the process and the lease do.                          *)

LEMMA SubmitEffect ==
  ASSUME TypeOK, NEW t \in Tasks, Submit(t)
  PROVE  /\ up /\ Free(t) /\ job.status = "absent" /\ Moves(t, "enqueued")
         /\ RowIs("queued", job.lease) /\ UNCHANGED <<plans, up, spent>>
<1>0. job \in JobType /\ task \in [Tasks -> TaskType]
  BY RowsTyped
<1>1. RowIs("queued", job.lease)
  BY <1>0 DEF Submit, RowIs, JobType
<1>2. QED
  BY <1>0, <1>1, EnqueueMoves DEF Submit

LEMMA RepostEffect ==
  ASSUME TypeOK, NEW t \in Tasks, Repost(t)
  PROVE  /\ up /\ Free(t) /\ job.status # "absent" /\ Moves(t, "enqueued")
         /\ spent' \in SpentType /\ UNCHANGED <<job, plans, up>>
<1>0. spent \in SpentType /\ task \in [Tasks -> TaskType]
  BY RowsTyped
<1>1. spent' \in SpentType
  BY <1>0, JobsAssumption DEF Repost, SpentType
<1>2. QED
  BY <1>0, <1>1, EnqueueMoves DEF Repost

LEMMA SaveUserPlanEffect ==
  ASSUME TypeOK, SaveUserPlan
  PROVE  /\ plans' = Append(plans, "user") /\ spent' \in SpentType
         /\ UNCHANGED <<job, task, up>>
<1>0. spent \in SpentType
  BY RowsTyped
<1>1. spent' \in SpentType
  BY <1>0, JobsAssumption DEF SaveUserPlan, SpentType
<1>2. QED
  BY <1>1 DEF SaveUserPlan

LEMMA CrashEffect ==
  ASSUME TypeOK, Crash
  PROVE  /\ task' \in [Tasks -> TaskType] /\ \A t \in Tasks : task'[t].pc = "none"
         /\ up' = FALSE /\ spent' \in SpentType /\ UNCHANGED <<job, plans>>
<1>0. spent \in SpentType /\ NoTask \in TaskType /\ NoTask.pc = "none"
  BY RowsTyped DEF NoTask, TaskType
<1>1. spent' \in SpentType
  BY <1>0, JobsAssumption DEF Crash, SpentType
<1>2. QED
  BY <1>0, <1>1 DEF Crash

LEMMA RestartEffect ==
  ASSUME TypeOK, Restart
  PROVE  /\ ~up /\ up' = TRUE /\ UNCHANGED <<job, plans, spent>>
         /\ \/ Claimable /\ \E t \in Tasks : Moves(t, "enqueued")
            \/ ~Claimable /\ UNCHANGED task
<1>0. task \in [Tasks -> TaskType]
  BY RowsTyped
<1>1. QED
  BY <1>0, EnqueueMoves DEF Restart

LEMMA LeaseExpiresEffect ==
  ASSUME TypeOK, LeaseExpires
  PROVE  /\ job.lease = "live" /\ (faulty \/ \A t \in Tasks : ~Working(t))
         /\ RowIs(job.status, "past") /\ UNCHANGED <<plans, task, up, spent>>
<1>0. job \in JobType
  BY RowsTyped
<1>1. QED
  BY <1>0 DEF LeaseExpires, RowIs, JobType
-------------------------------------------------------------------------------
(* The types.                                                                *)

LEMMA TaskStepTypes ==
  ASSUME TypeOK, UNCHANGED faulty, NEW t \in Tasks, TaskStep(t)
  PROVE  TypeOK'
<1>0. job \in JobType /\ plans \in Seq({"job", "user"}) /\ up \in BOOLEAN
      /\ spent \in SpentType /\ faulty \in Environments
  BY RowsTyped
<1>1. Append(plans, "job") \in Seq({"job", "user"})
  BY <1>0
<1>2. /\ job' \in JobType /\ plans' \in Seq({"job", "user"})
      /\ task' \in [Tasks -> TaskType] /\ UNCHANGED <<up, spent>>
  BY <1>0, <1>1, ClaimEffect, SolvingEffect, VerifyEffect, SaveEffect, SucceedEffect,
     RaiseEffect, RetryEffect, RetryRaisesEffect DEF TaskStep, Moves, RowIs
<1>3. QED
  BY <1>0, <1>2 DEF TypeOK, JobType, TaskType, SpentType

LEMMA OutsideTypes ==
  ASSUME TypeOK, UNCHANGED faulty,
         \/ \E t \in Tasks : Submit(t) \/ Repost(t)
         \/ SaveUserPlan \/ Crash \/ Restart \/ LeaseExpires
  PROVE  TypeOK'
<1>0. job \in JobType /\ plans \in Seq({"job", "user"}) /\ up \in BOOLEAN
      /\ spent \in SpentType /\ faulty \in Environments /\ task \in [Tasks -> TaskType]
  BY RowsTyped
<1>1. Append(plans, "user") \in Seq({"job", "user"})
  BY <1>0
<1>2. /\ job' \in JobType /\ plans' \in Seq({"job", "user"}) /\ up' \in BOOLEAN
      /\ task' \in [Tasks -> TaskType] /\ spent' \in SpentType
  BY <1>0, <1>1, SubmitEffect, RepostEffect, SaveUserPlanEffect, CrashEffect,
     RestartEffect, LeaseExpiresEffect DEF Moves, RowIs
<1>3. QED
  BY <1>0, <1>2 DEF TypeOK, JobType, TaskType, SpentType

LEMMA JobsTypes ==
  ASSUME TypeOK, [Next]_vars
  PROVE  TypeOK'
<1>1. CASE UNCHANGED vars
  BY <1>1 DEF TypeOK, vars
<1>2. CASE Next
  BY <1>2, OutsideTypes, TaskStepTypes DEF Next
<1>3. QED
  BY <1>1, <1>2
-------------------------------------------------------------------------------
(* One worker, and it holds the lease.                                       *)

Exclusive == WorkerHoldsLease /\ SingleExecutor

\* A step of a task: a claim finds the row without a worker, because a worker's
\* row is running under a live lease.
LEMMA TaskStepExclusive ==
  ASSUME TypeOK, Exclusive, UNCHANGED faulty, NEW t \in Tasks, TaskStep(t)
  PROVE  Exclusive'
<1>1. SUFFICES ASSUME ~faulty PROVE Exclusive'
  BY DEF Exclusive, WorkerHoldsLease, SingleExecutor
<1>2. \A s \in Tasks : Working(s) => job.status = "running" /\ job.lease = "live"
  BY <1>1 DEF Exclusive, WorkerHoldsLease
<1>3. \A r, s \in Tasks : Working(r) /\ Working(s) => r = s
  BY <1>1 DEF Exclusive, SingleExecutor
<1>4. \A s \in Tasks \ {t} : task'[s] = task[s]
  BY ClaimEffect, SolvingEffect, VerifyEffect, SaveEffect, SucceedEffect,
     RaiseEffect, RetryEffect, RetryRaisesEffect DEF TaskStep, Moves
<1>5. CASE Claim(t)
  <2>1. Claimable => \A s \in Tasks : ~Working(s)
    BY <1>2 DEF Claimable
  <2>2. QED
    BY <1>1, <1>2, <1>3, <1>4, <1>5, <2>1, ClaimEffect
    DEF Exclusive, WorkerHoldsLease, SingleExecutor, Working, Moves
<1>6. CASE ~Claim(t)
  <2>1. Working(t)
    BY <1>1, <1>6, SolvingEffect, VerifyEffect, SaveEffect, SucceedEffect,
       RaiseEffect, RetryEffect, RetryRaisesEffect DEF TaskStep, Working
  <2>2. \A s \in Tasks \ {t} : ~Working(s)'
    BY <2>1, <1>3, <1>4 DEF Working
  <2>3. Working(t)' => job'.status = "running" /\ job'.lease = "live"
    BY <2>1, <1>1, <1>2, <1>6, SolvingEffect, VerifyEffect, SaveEffect, SucceedEffect,
       RaiseEffect, RetryEffect, RetryRaisesEffect DEF TaskStep, Working, Moves, RowIs
  <2>4. QED
    BY <2>2, <2>3 DEF Exclusive, WorkerHoldsLease, SingleExecutor
<1>7. QED
  BY <1>5, <1>6

\* Every other step adds no worker, and takes the lease from none.
LEMMA OutsideExclusive ==
  ASSUME TypeOK, Exclusive, UNCHANGED faulty,
         \/ \E t \in Tasks : Submit(t) \/ Repost(t)
         \/ SaveUserPlan \/ Crash \/ Restart \/ LeaseExpires \/ UNCHANGED vars
  PROVE  Exclusive'
<1>1. SUFFICES ASSUME ~faulty PROVE Exclusive'
  BY DEF Exclusive, WorkerHoldsLease, SingleExecutor
<1>2. \A s \in Tasks : Working(s)' => Working(s)
  BY SubmitEffect, RepostEffect, SaveUserPlanEffect, CrashEffect, RestartEffect,
     LeaseExpiresEffect DEF Working, Moves, vars
<1>3. (\A s \in Tasks : ~Working(s)') \/ (job'.status = job.status /\ job'.lease = job.lease)
  <2>1. ASSUME NEW t \in Tasks, Submit(t) PROVE \A s \in Tasks : ~Working(s)'
    BY <2>1, <1>1, <1>2, SubmitEffect DEF Exclusive, WorkerHoldsLease
  <2>2. LeaseExpires => \A s \in Tasks : ~Working(s)'
    BY <1>1, <1>2, LeaseExpiresEffect
  <2>3. QED
    BY <2>1, <2>2, RepostEffect, SaveUserPlanEffect, CrashEffect, RestartEffect DEF vars
<1>4. QED
  BY <1>1, <1>2, <1>3 DEF Exclusive, WorkerHoldsLease, SingleExecutor

LEMMA ExclusiveStep ==
  ASSUME TypeOK, Exclusive, [Next]_vars
  PROVE  Exclusive'
BY TaskStepExclusive, OutsideExclusive DEF Next, vars
-------------------------------------------------------------------------------
(* A queued job has somebody to claim it.                                    *)

Enqueued(t) == task[t].pc = "enqueued"

\* The task that waits leaves its slot by a claim alone, and a claim of a queued
\* job ends its queueing.
LEMMA TaskStepOwned ==
  ASSUME TypeOK, Exclusive, QueuedIsOwned, UNCHANGED faulty,
         NEW t \in Tasks, TaskStep(t)
  PROVE  QueuedIsOwned'
<1>1. SUFFICES ASSUME ~faulty, up', job'.status = "queued"
               PROVE  \E s \in Tasks : Enqueued(s)'
  BY DEF QueuedIsOwned, Enqueued
<1>2. up
  BY <1>1, ClaimEffect, SolvingEffect, VerifyEffect, SaveEffect, SucceedEffect,
     RaiseEffect, RetryEffect, RetryRaisesEffect DEF TaskStep
<1>3. Working(t) => job.status = "running"
  BY <1>1 DEF Exclusive, WorkerHoldsLease
<1>4. CASE Retry(t)
  BY <1>1, <1>4, RetryEffect DEF Moves, RowIs, Enqueued
<1>5. CASE ~Retry(t)
  BY <1>1, <1>3, <1>5, ClaimEffect, SolvingEffect, VerifyEffect, SaveEffect,
     SucceedEffect, RaiseEffect, RetryRaisesEffect
  DEF TaskStep, Working, Claimable, RowIs
<1>6. QED
  BY <1>4, <1>5

LEMMA OutsideOwned ==
  ASSUME TypeOK, QueuedIsOwned, UNCHANGED faulty,
         \/ \E t \in Tasks : Submit(t) \/ Repost(t)
         \/ SaveUserPlan \/ Crash \/ Restart \/ LeaseExpires \/ UNCHANGED vars
  PROVE  QueuedIsOwned'
<1>1. SUFFICES ASSUME ~faulty, up', job'.status = "queued"
               PROVE  \E s \in Tasks : Enqueued(s)'
  BY DEF QueuedIsOwned, Enqueued
<1>2. ASSUME NEW t \in Tasks, Submit(t) \/ Repost(t) PROVE \E s \in Tasks : Enqueued(s)'
  BY <1>2, SubmitEffect, RepostEffect DEF Moves, Enqueued
<1>3. CASE Restart
  BY <1>1, <1>3, RestartEffect DEF Claimable, Moves, Enqueued
<1>4. CASE SaveUserPlan \/ LeaseExpires \/ UNCHANGED vars
  <2>1. up /\ job.status = "queued" /\ task' = task
    BY <1>1, <1>4, SaveUserPlanEffect, LeaseExpiresEffect DEF RowIs, vars
  <2>2. QED
    BY <1>1, <2>1 DEF QueuedIsOwned, Enqueued
<1>5. QED
  BY <1>1, <1>2, <1>3, <1>4, CrashEffect

LEMMA OwnedStep ==
  ASSUME TypeOK, Exclusive, QueuedIsOwned, [Next]_vars
  PROVE  QueuedIsOwned'
BY TaskStepOwned, OutsideOwned DEF Next, vars
-------------------------------------------------------------------------------
(* Counting versions and attempts.                                           *)

\* A version that the job appends is one more, and a version of the user's none.
LEMMA Versions ==
  ASSUME plans \in Seq({"job", "user"})
  PROVE  /\ IsFiniteSet(VersionsOfJob) /\ PlansOfJob \in Nat
         /\ plans' = Append(plans, "job") => HasPlan' /\ PlansOfJob' = PlansOfJob + 1
         /\ plans' = Append(plans, "user") => VersionsOfJob' = VersionsOfJob
<1>0. Len(plans) \in Nat
  OBVIOUS
<1>1. IsFiniteSet(1..Len(plans)) /\ VersionsOfJob \subseteq 1..Len(plans)
  BY <1>0, FS_Interval DEF VersionsOfJob
<1>2. IsFiniteSet(VersionsOfJob)
  BY <1>1, FS_Subset
<1>3. ASSUME plans' = Append(plans, "job")
      PROVE  /\ VersionsOfJob' = VersionsOfJob \cup {Len(plans) + 1}
             /\ Len(plans) + 1 \notin VersionsOfJob
  <2>1. Len(plans') = Len(plans) + 1 /\ plans'[Len(plans) + 1] = "job"
        /\ \A v \in 1..Len(plans) : plans'[v] = plans[v]
    BY <1>3
  <2>2. \A v : v \in 1..Len(plans) + 1 <=> v \in 1..Len(plans) \/ v = Len(plans) + 1
    BY <1>0
  <2>3. Len(plans) + 1 \notin 1..Len(plans)
    BY <1>0
  <2>4. QED
    BY <2>1, <2>2, <2>3 DEF VersionsOfJob
<1>4. ASSUME plans' = Append(plans, "user") PROVE VersionsOfJob' = VersionsOfJob
  <2>1. Len(plans') = Len(plans) + 1 /\ plans'[Len(plans) + 1] = "user"
        /\ \A v \in 1..Len(plans) : plans'[v] = plans[v]
    BY <1>4
  <2>2. \A v : v \in 1..Len(plans) + 1 <=> v \in 1..Len(plans) \/ v = Len(plans) + 1
    BY <1>0
  <2>3. QED
    BY <2>1, <2>2 DEF VersionsOfJob
<1>5. PlansOfJob \in Nat
  BY <1>2, FS_CardinalityType DEF PlansOfJob
<1>6. ASSUME plans' = Append(plans, "job") PROVE HasPlan' /\ PlansOfJob' = PlansOfJob + 1
  BY <1>2, <1>3, <1>6, FS_AddElement DEF PlansOfJob, HasPlan
<1>7. QED
  BY <1>2, <1>4, <1>5, <1>6

\* The tasks with an unsaved attempt, when only the task in slot t moves.
LEMMA UnsavedMoves ==
  ASSUME IsFiniteSet(Unsaved), NEW t \in Tasks, NEW pc \in Pcs, Moves(t, pc)
  PROVE  LET before == t \in Unsaved
             after  == pc \in {"claimed", "solving", "verified"}
         IN  /\ IsFiniteSet(Unsaved') /\ Cardinality(Unsaved) \in Nat
             /\ Cardinality(Unsaved') \in Nat
             /\ before = after => Cardinality(Unsaved') = Cardinality(Unsaved)
             /\ before /\ ~after => Cardinality(Unsaved') = Cardinality(Unsaved) - 1
             /\ ~before /\ after => Cardinality(Unsaved') = Cardinality(Unsaved) + 1
<1> DEFINE after == pc \in {"claimed", "solving", "verified"}
<1>1. after => Unsaved' = Unsaved \cup {t}
  BY DEF Moves, Unsaved
<1>2. ~after => Unsaved' = Unsaved \ {t}
  BY DEF Moves, Unsaved
<1>3. QED
  BY <1>1, <1>2, FS_AddElement, FS_RemoveElement, FS_CardinalityType

LEMMA TaskStepCounts ==
  ASSUME TypeOK, AttemptsCover, NEW t \in Tasks, TaskStep(t)
  PROVE  AttemptsCover'
<1>0. /\ IsFiniteSet(Unsaved) /\ Cardinality(Unsaved) \in Nat
      /\ PlansOfJob + Cardinality(Unsaved) <= job.attempts
      /\ plans \in Seq({"job", "user"}) /\ PlansOfJob \in Nat /\ job.attempts \in Nat
  BY RowsTyped, Versions, FS_CardinalityType DEF AttemptsCover, JobType
<1>1. t \in Unsaved <=> task[t].pc \in {"claimed", "solving", "verified"}
  BY DEF Unsaved
<1>2. plans' = plans => PlansOfJob' = PlansOfJob
  BY DEF PlansOfJob, VersionsOfJob
<1>3. CASE Claim(t)
  <2>1. \/ UNCHANGED job /\ Moves(t, "none")
        \/ RowIs("failed", "null") /\ Moves(t, "none")
        \/ Moves(t, "claimed") /\ job'.attempts = job.attempts + 1
    BY <1>3, ClaimEffect
  <2>2. \/ Moves(t, "none") /\ job'.attempts = job.attempts
        \/ Moves(t, "claimed") /\ job'.attempts = job.attempts + 1
    BY <2>1 DEF RowIs
  <2>3. plans' = plans /\ t \notin Unsaved
    BY <1>1, <1>3, ClaimEffect
  <2>4. QED
    BY <1>0, <1>2, <2>2, <2>3, UnsavedMoves DEF AttemptsCover, Pcs
<1>4. CASE Save(t)
  <2>1. t \in Unsaved /\ job' = job
    BY <1>1, <1>4, SaveEffect
  <2>2. PlansOfJob' = PlansOfJob \/ PlansOfJob' = PlansOfJob + 1
    BY <1>0, <1>2, <1>4, SaveEffect, Versions
  <2>3. Moves(t, "saved") \/ Moves(t, "failing")
    BY <1>4, SaveEffect
  <2>4. QED
    BY <1>0, <2>1, <2>2, <2>3, UnsavedMoves DEF AttemptsCover, Pcs
<1>5. CASE ~Claim(t) /\ ~Save(t)
  <2>1. plans' = plans /\ job'.attempts = job.attempts
    BY <1>5, SolvingEffect, VerifyEffect, SucceedEffect, RaiseEffect, RetryEffect,
       RetryRaisesEffect DEF TaskStep, RowIs
  <2>2. \E pc \in Pcs : Moves(t, pc)
          /\ (pc \in {"claimed", "solving", "verified"} => t \in Unsaved)
    BY <1>1, <1>5, SolvingEffect, VerifyEffect, SucceedEffect, RaiseEffect, RetryEffect,
       RetryRaisesEffect DEF TaskStep, Pcs
  <2>3. IsFiniteSet(Unsaved') /\ Cardinality(Unsaved') \in Nat
        /\ Cardinality(Unsaved') <= Cardinality(Unsaved)
    BY <1>0, <2>2, UnsavedMoves
  <2>4. QED
    BY <1>0, <1>2, <2>1, <2>3 DEF AttemptsCover
<1>6. QED
  BY <1>3, <1>4, <1>5

LEMMA OutsideCounts ==
  ASSUME TypeOK, AttemptsCover,
         \/ \E t \in Tasks : Submit(t) \/ Repost(t)
         \/ SaveUserPlan \/ Crash \/ Restart \/ LeaseExpires \/ UNCHANGED vars
  PROVE  AttemptsCover'
<1>0. /\ IsFiniteSet(Unsaved) /\ Cardinality(Unsaved) \in Nat
      /\ PlansOfJob + Cardinality(Unsaved) <= job.attempts
      /\ plans \in Seq({"job", "user"}) /\ PlansOfJob \in Nat /\ job.attempts \in Nat
  BY RowsTyped, Versions, FS_CardinalityType DEF AttemptsCover, JobType
<1>1. VersionsOfJob' = VersionsOfJob
  <2>1. plans' = plans \/ plans' = Append(plans, "user")
    BY SubmitEffect, RepostEffect, SaveUserPlanEffect, CrashEffect, RestartEffect,
       LeaseExpiresEffect DEF vars
  <2>2. QED
    BY <1>0, <2>1, Versions DEF VersionsOfJob
<1>2. job'.attempts = job.attempts
  BY SubmitEffect, RepostEffect, SaveUserPlanEffect, CrashEffect, RestartEffect,
     LeaseExpiresEffect DEF vars, RowIs
<1>3. Unsaved' \subseteq Unsaved
  BY SubmitEffect, RepostEffect, SaveUserPlanEffect, CrashEffect, RestartEffect,
     LeaseExpiresEffect DEF vars, Moves, Unsaved
<1>4. IsFiniteSet(Unsaved') /\ Cardinality(Unsaved') <= Cardinality(Unsaved)
      /\ Cardinality(Unsaved') \in Nat
  BY <1>0, <1>3, FS_Subset, FS_CardinalityType
<1>5. PlansOfJob' = PlansOfJob
  BY <1>1 DEF PlansOfJob
<1>6. QED
  BY <1>0, <1>2, <1>4, <1>5 DEF AttemptsCover

LEMMA CountsStep ==
  ASSUME TypeOK, AttemptsCover, [Next]_vars
  PROVE  AttemptsCover'
BY TaskStepCounts, OutsideCounts DEF Next

\* The workspace never loses a version, so a task that has saved one may report it.
LEMMA SavedStep ==
  ASSUME TypeOK, SavedHasPlan, [Next]_vars
  PROVE  SavedHasPlan'
<1>0. plans \in Seq({"job", "user"})
  BY RowsTyped
<1>1. HasPlan => HasPlan'
  <2>1. plans' = plans \/ plans' = Append(plans, "user") \/ plans' = Append(plans, "job")
    BY ClaimEffect, SolvingEffect, VerifyEffect, SaveEffect, SucceedEffect, RaiseEffect,
       RetryEffect, RetryRaisesEffect, SubmitEffect, RepostEffect, SaveUserPlanEffect,
       CrashEffect, RestartEffect, LeaseExpiresEffect DEF Next, TaskStep, vars
  <2>2. QED
    BY <1>0, <2>1, Versions DEF HasPlan, VersionsOfJob
<1>2. ASSUME job'.status = "succeeded" PROVE HasPlan'
  <2>1. job.status = "succeeded" \/ \E t \in Tasks : task[t].pc = "saved"
    BY <1>2, ClaimEffect, SolvingEffect, VerifyEffect, SaveEffect, SucceedEffect,
       RaiseEffect, RetryEffect, RetryRaisesEffect, SubmitEffect, RepostEffect,
       SaveUserPlanEffect, CrashEffect, RestartEffect, LeaseExpiresEffect
    DEF Next, TaskStep, vars, RowIs
  <2>2. QED
    BY <1>1, <2>1 DEF SavedHasPlan
<1>3. ASSUME NEW t \in Tasks, task'[t].pc = "saved" PROVE HasPlan'
  <2>1. CASE \E s \in Tasks : Save(s)
    <3>1. plans' = Append(plans, "job") \/ HasPlan \/ task[t].pc = "saved"
      BY <1>3, <2>1, SaveEffect DEF Moves
    <3>2. QED
      BY <1>0, <1>1, <3>1, Versions DEF SavedHasPlan
  <2>2. CASE ~\E s \in Tasks : Save(s)
    <3>1. task[t].pc = "saved"
      <4> DEFINE Others == {"none", "enqueued", "claimed", "solving", "verified", "failing"}
      <4>1. ASSUME NEW s \in Tasks, NEW pc \in Others, Moves(s, pc)
            PROVE  task[t].pc = "saved"
        BY <1>3, <4>1 DEF Moves
      <4>2. ASSUME NEW s \in Tasks, Submit(s) \/ Repost(s) \/ TaskStep(s)
            PROVE  \E pc \in Others : Moves(s, pc)
        BY <2>2, <4>2, ClaimEffect, SolvingEffect, VerifyEffect, SucceedEffect,
           RaiseEffect, RetryEffect, RetryRaisesEffect, SubmitEffect, RepostEffect
        DEF TaskStep
      <4>3. CASE Restart
        <5>1. task' = task \/ \E s \in Tasks, pc \in Others : Moves(s, pc)
          BY <4>3, RestartEffect
        <5>2. CASE task' = task
          BY <1>3, <5>2
        <5>3. QED
          BY <4>1, <5>1, <5>2
      <4>4. CASE Crash
        BY <1>3, <4>4, CrashEffect
      <4>5. CASE SaveUserPlan \/ LeaseExpires \/ UNCHANGED vars
        <5>1. task' = task
          BY <4>5, SaveUserPlanEffect, LeaseExpiresEffect DEF vars
        <5>2. QED
          BY <1>3, <5>1
      <4> HIDE DEF Others
      <4>6. ASSUME NEW s \in Tasks, Submit(s) \/ Repost(s) \/ TaskStep(s)
            PROVE  task[t].pc = "saved"
        BY <4>1, <4>2, <4>6
      <4>7. QED
        BY <4>3, <4>4, <4>5, <4>6 DEF Next
    <3>2. QED
      BY <1>1, <3>1 DEF SavedHasPlan
  <2>3. QED
    BY <2>1, <2>2
<1>4. QED
  BY <1>2, <1>3 DEF SavedHasPlan
-------------------------------------------------------------------------------
(* The invariant.                                                            *)

LEMMA JobsInit == Init => JobsInv
<1>1. SUFFICES ASSUME Init PROVE JobsInv
  OBVIOUS
<1>2. TypeOK
  <2>1. NoTask \in TaskType
    BY DEF NoTask, TaskType
  <2>2. job \in JobType /\ spent \in SpentType
    BY <1>1, JobsAssumption DEF Init, JobType, SpentType
  <2>3. QED
    BY <1>1, <2>1, <2>2, RowsTyped DEF Init
<1>3. WorkerHoldsLease /\ SingleExecutor /\ QueuedIsOwned /\ SavedHasPlan
  BY <1>1 DEF Init, WorkerHoldsLease, SingleExecutor, QueuedIsOwned, SavedHasPlan,
              Working, NoTask
<1>4. VersionsOfJob = {} /\ Unsaved = {}
  BY <1>1 DEF Init, VersionsOfJob, Unsaved, NoTask
<1>5. AttemptsCover
  BY <1>1, <1>4, FS_EmptySet DEF Init, AttemptsCover, PlansOfJob
<1>6. QED
  BY <1>2, <1>3, <1>5 DEF JobsInv

LEMMA JobsStep == JobsInv /\ [Next]_vars => JobsInv'
BY JobsTypes, ExclusiveStep, OwnedStep, SavedStep, CountsStep DEF JobsInv, Exclusive

LEMMA JobsAlways == Spec => []JobsInv
BY JobsInit, JobsStep, PTL DEF Spec
-------------------------------------------------------------------------------
(* The theorems.                                                             *)

\* The row, the plan versions and the tasks keep their types: the status is one of
\* JobStatus and the attempts never pass max_attempts, which claim tests.
THEOREM JobsTypeCorrect == Spec => []TypeOK
<1>1. JobsInv => TypeOK
  BY DEF JobsInv
<1>2. QED
  BY <1>1, JobsAlways, PTL

\* However many tasks reposts, retries and recovery enqueue, one at a time is past
\* its claim: the row of a working task is running under a live lease, which the
\* filter of claim refuses.
THEOREM OneExecutor == Spec => []SingleExecutor
<1>1. JobsInv => SingleExecutor
  BY DEF JobsInv
<1>2. QED
  BY <1>1, JobsAlways, PTL

\* While the process is up, a queued job has a task that waits to claim it:
\* schedule_retry and recover enqueue what they leave queued.
THEOREM QueuedJobIsOwned == Spec => []QueuedIsOwned
<1>1. JobsInv => QueuedIsOwned
  BY DEF JobsInv
<1>2. QED
  BY <1>1, JobsAlways, PTL

\* A job reported SUCCEEDED has a version of its own in the workspace, with faults
\* or without: save_plan comes before the update, and no version is ever lost.
THEOREM SucceededJobHasPlan == Spec => []SucceededHasPlan
<1>1. JobsInv => SucceededHasPlan
  <2>1. SUFFICES ASSUME JobsInv, job.status = "succeeded" PROVE PlansOfJob >= 1
    BY DEF SucceededHasPlan
  <2>2. VersionsOfJob # {} /\ IsFiniteSet(VersionsOfJob) /\ PlansOfJob \in Nat
    BY <2>1, RowsTyped, Versions DEF JobsInv, SavedHasPlan, HasPlan
  <2>3. PlansOfJob # 0
    BY <2>2, FS_EmptySet DEF PlansOfJob
  <2>4. QED
    BY <2>2, <2>3
<1>2. QED
  BY <1>1, JobsAlways, PTL

\* Whatever crashes, stalls and raises, the job never writes more versions than it
\* has used attempts: every attempt is counted by its claim before it can save.
THEOREM PlansWithinAttempts == Spec => []PlanBudget
<1>1. JobsInv => PlanBudget
  <2>1. SUFFICES ASSUME JobsInv PROVE PlansOfJob <= job.attempts
    BY DEF PlanBudget
  <2>2. PlansOfJob \in Nat /\ Cardinality(Unsaved) \in Nat /\ job.attempts \in Nat
    BY <2>1, RowsTyped, Versions, FS_CardinalityType DEF JobsInv, AttemptsCover, JobType
  <2>3. QED
    BY <2>1, <2>2 DEF JobsInv, AttemptsCover
<1>2. QED
  BY <1>1, JobsAlways, PTL

\* A job that reported success or failure keeps it, as long as no task outlives its
\* lease: update and schedule_retry test neither status nor lease, but a task that
\* could call them would be working, and then the row is running.
THEOREM OutcomeStaysFinal == Spec => OutcomeIsFinal
<1>1. JobsInv /\ [Next]_vars =>
        (~faulty /\ job.status \in {"succeeded", "failed"} => job'.status = job.status)
  <2>1. SUFFICES ASSUME JobsInv, [Next]_vars, ~faulty,
                        job.status \in {"succeeded", "failed"}
                 PROVE  job'.status = job.status
    OBVIOUS
  <2>2. TypeOK /\ ~Claimable /\ \A t \in Tasks : ~Working(t)
    BY <2>1 DEF JobsInv, WorkerHoldsLease, Claimable
  <2>3. ASSUME NEW t \in Tasks, TaskStep(t) PROVE job'.status = job.status
    BY <2>1, <2>2, <2>3, ClaimEffect, SolvingEffect, VerifyEffect, SaveEffect,
       SucceedEffect, RaiseEffect, RetryEffect, RetryRaisesEffect DEF TaskStep, Working
  <2>4. QED
    BY <2>1, <2>2, <2>3, SubmitEffect, RepostEffect, SaveUserPlanEffect, CrashEffect,
       RestartEffect, LeaseExpiresEffect DEF Next, vars, RowIs
<1>2. QED
  BY <1>1, JobsAlways, PTL DEF Spec, OutcomeIsFinal

\* A job loses its last task and is left running only by a restart that comes
\* before the lease of the dead process has run out: every other way out of a slot
\* settles the row first, or finds it settled, or leaves it as abandoned as it was.
THEOREM PromptRestartAlone == Spec => OnlyPromptRestartAbandons
<1>1. JobsInv /\ [Next]_vars =>
        (~faulty /\ ~Abandoned /\ Abandoned' => ~up /\ job.lease = "live")
  <2>1. SUFFICES ASSUME JobsInv, [Next]_vars, ~faulty, ~Abandoned, Abandoned'
                 PROVE  ~up /\ job.lease = "live"
    OBVIOUS
  <2>2. /\ TypeOK /\ up' /\ job'.status = "running" /\ \A t \in Tasks : ~Working(t)'
        /\ Idle' \/ job'.lease = "live"
    BY <2>1 DEF JobsInv, Abandoned
  <2>3. CASE Restart
    <3>1. ~up /\ job' = job
      BY <2>2, <2>3, RestartEffect
    <3>2. Claimable => ~Idle'
      BY <2>2, <2>3, RestartEffect DEF Idle, Free, Moves
    <3>3. QED
      BY <2>2, <3>1, <3>2 DEF Claimable
  <2>4. CASE LeaseExpires
    <3>1. /\ up /\ job.status = "running" /\ job.lease = "live"
          /\ \A t \in Tasks : ~Working(t)
      BY <2>1, <2>2, <2>4, LeaseExpiresEffect DEF RowIs
    <3>2. QED
      BY <2>1, <3>1 DEF Abandoned
  <2>5. CASE UNCHANGED vars \/ SaveUserPlan
    <3>1. UNCHANGED <<job, task, up>>
      BY <2>2, <2>5, SaveUserPlanEffect DEF vars
    <3>2. QED
      BY <2>1, <3>1 DEF Abandoned, Idle, Free, Working
  <2>6. ASSUME NEW t \in Tasks, Repost(t) PROVE FALSE
    <3>1. /\ up /\ job' = job /\ ~Idle' /\ ~Working(t)
          /\ \A s \in Tasks \ {t} : task'[s] = task[s]
      BY <2>2, <2>6, RepostEffect DEF Moves, Idle, Free, Working
    <3>2. QED
      BY <2>1, <2>2, <3>1 DEF Abandoned, Working
  <2>7. ASSUME NEW t \in Tasks, TaskStep(t) PROVE FALSE
    <3>1. ~(StartSolving(t) \/ Verify(t) \/ Save(t) \/ Raise(t))
      BY <2>2, <2>7, SolvingEffect, VerifyEffect, SaveEffect, RaiseEffect
      DEF Moves, Working
    <3>2. ~(Succeed(t) \/ Retry(t) \/ RetryRaises(t))
      BY <2>1, <2>2, <2>7, SucceedEffect, RetryEffect, RetryRaisesEffect DEF RowIs
    <3>3. Claim(t)
      BY <2>7, <3>1, <3>2 DEF TaskStep
    <3>4. /\ ~Claimable /\ UNCHANGED <<job, up>> /\ task[t].pc = "enqueued"
          /\ \A s \in Tasks \ {t} : task'[s] = task[s]
      BY <2>2, <3>3, ClaimEffect DEF Moves, Working, RowIs
    <3>5. /\ job.status = "running" /\ job.lease = "live" /\ up
          /\ \A s \in Tasks : ~Working(s)
      BY <2>2, <3>4 DEF Claimable, Working
    <3>6. QED
      BY <2>1, <3>5 DEF Abandoned
  <2>8. QED
    BY <2>1, <2>2, <2>3, <2>4, <2>5, <2>6, <2>7, CrashEffect, SubmitEffect
    DEF Next, RowIs
<1>2. QED
  BY <1>1, JobsAlways, PTL DEF Spec, OnlyPromptRestartAbandons

===============================================================================
