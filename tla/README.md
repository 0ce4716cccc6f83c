# TripChord: a verification project

TripChord (`src/apps/api`, `src/apps/web`, `src/apps/browser-companion`) plans
trips with an API server, long-running planning jobs and a browser extension.
These modules model the parts of the system whose correctness depends on the
order of things: the durable live-planning jobs with their leases, worker
processes and orphan recovery; the older persistent planning jobs; the browser
tasks that the bridge hands to the extension; the cached live run with the
requests and the monitor that re-plan it; and what protects the components of
that run that the user has booked. Paths below are relative to
`src/apps/api/src/tripchord/`.

## 1. Inventory

| Component | State it keeps | Operations | What makes it hard | What makes it correct |
|---|---|---|---|---|
| Durable live-job store (`persistence/live_planning_jobs.py`) | one row per job: state, revision, cancellation, lease (owner, generation, deadline), cancelled lease, reaping fence and its proof; pair results | create, claim, renew, release, publish, checkpoint, settle, cancel, request cancel, authorize / record / complete reap, quarantine, consume proofs, store pair | callers may be stale: they kept an old generation or an old token | fence and lease exclude each other; proofs are never reused; outcomes are final; revisions grow; a cancellation is not overtaken |
| Live job registry (`agents/live_jobs.py`) | in each API process a record per job with its runner, heartbeat and worker identity; death proofs in memory | start, run, finish, cancel, deadline, heartbeat, suspend, sweep, recover | every await is an interleaving; several processes share the row; crash at any point | a lease is granted to one registry; results after the death of the worker; cancellations acknowledged on evidence |
| Worker process (`agents/live_job_worker.py`) | one marker file per job, later a receipt | boot, exit, die | outlives its parent; overwrites a file others write | evidence of death is true |
| Persistent planning jobs (`jobs.py`) | a row: status, attempts, lease; tasks in the process | submit, claim, update, save plan, retry, recover | crash between two commits, tasks that outlive leases, user plans | one executor; outcomes final; every job ends; attempts bound the plans |
| Workspace repository (`persistence/repository.py`) | plan versions | save plan, replan | two writers of one version | versions are contiguous, nobody's is overwritten |
| Browser task store (`persistence/browser_tasks.py`) | an acquisition row per work (state, lease, attempts, frozen completion, result), a consumer row per request for it, a session per companion | submit, get, cancel, heartbeat, claim, prepare / list / finalize a completion | requests for equal work share a row, two processes insert at once, leases end under an execution | a pending row is held by its requests; one open row per key; a result is final |
| Browser bridge (`providers/browser_bridge.py`, `formal_live_source.py`) | nothing durable of its own; the formal ledger of completions | claim, complete, publish what was frozen (every 5 s), wait | a completion is read, frozen, recorded and published in separate transactions, and the handler may die between them | ledger, row and waiter agree on one outcome |
| Browser companion (`apps/browser-companion/src/background.js`) | the leases it executes | poll, execute, report, renew | the service worker is stopped at any time; a failed report may follow a successful one | every acquisition ends |
| Live run cache and re-plan endpoints (`main.py`) | the published run in memory, a lock per entry, a snapshot file | get, replace, evict, restore; event re-plan, modify | minutes between reading a run and replacing it; writes that fail before or after the rename | an acknowledged re-plan is not lost |
| Live monitors (`agents/live_monitor.py`, `persistence/live_monitors.py`) | a record with one asyncio task, a row, a history | start, the loop, check now, stop, close, recover | stop, check and restart overtake one another; the run, the row and the history are written apart | no counted check is skipped, a stopped monitor stays stopped |
| Hand-off, re-price and booking gate (`platform/`, `persistence/booking_ledger.py`, `persistence/handoff_store.py`, `planning/package_reverification.py`) | a ledger file per run (facts, overrides), hand-offs in memory, ids of used ones on disk | acknowledge, request and resolve an override, re-price, consume, the gate and the re-verifier's check | the ledger is read before minutes of search; a blocked repair is cached; a write that fails leaves its run on disk; re-prices answer late | an accepted plan keeps what is booked; pages open in the order of their hand-offs, each once and for the dates it was priced for |
| Live agent system (`agents/live_system.py`) | none that survives a call | search, event re-plan, modify | what it returns for a re-plan decides what is published | see the previous row |
| Trip run (`planning/trip_run.py`, `persistence/trip_runs.py`) | versions of a complex trip with a revision | modify, apply event | two requests on one revision | the save is refused unless the revision is the one that was read |
| Search supervisor, terminal barrier (`agents/search_supervisor.py`, `platform/terminal.py`) | none: they compute schedules and verdicts | reconcile a proposal, release the barrier | late sources | no required source is dropped, no release before the last one is final |
| Date enumeration (`planning/flexible_dates.py`, `planning/adaptive_dates.py`) | none | enumerate, bisect | boundaries | complete and without duplicates |
| Memory, planners, language-model system, provider adapters, web client | little or none | pure transformation | numeric search, I/O | not modelled, see section 8 |

How they interact: `main.py`'s lifespan builds one registry over the store and
one job runner, runs their recovery once at start-up and the registry's every 30
seconds. The endpoints call the registry, which calls the store in short
transactions, spawns workers with `create_subprocess_exec` in sessions of their
own, and reads what they leave in the `.workers` directory. Workers never touch
the database. Persistent planning jobs share the database with the workspace
endpoints and nothing with the live jobs.

The agent system submits browser tasks and waits on them through the bridge. The
companion polls the bridge over HTTP for leases and posts completions; a loop of
the lifespan publishes, every five seconds, completions whose handler did not get
that far (`main.py:1259`). The re-plan endpoints and the monitor's callback take
the lock of a cache entry, read the booking ledger, await the agent system and
replace the run; every replacement rewrites the snapshot file. The ledger's own
endpoints and those of the hand-offs take no lock of the run.

The hazards the properties are aimed at, each at its line, are in
`PROJECT.json`; a hazard without a property carries a note.

## 2. Modules

| Module | What it is |
|---|---|
| `LiveJobRow` | one job row; for every transaction its guard and the row it writes, as operators |
| `LiveJobStore` | the store's specification: any caller, any generation or token, at any time |
| `LiveJobControl` | registries, worker processes, marker and death-proof files, and the sweep, over the same row operators |
| `PlanningJobs` | one persistent planning job, its tasks and the workspace's plan versions |
| `BrowserTasks` | the browser task store composed with the bridge's handlers and publisher, the companion, the waiters and the formal ledger |
| `LiveRuns` | the cached run, its snapshot, two kinds of requests and the monitor with its row and history |
| `BookedPlan` | the published plan, the booking ledger, the re-plans that read it, re-prices and hand-offs |
| `LiveJobStoreProofs`, `LiveJobControlProofs`, `PlanningJobsProofs`, `BrowserTasksProofs`, `LiveRunsProofs`, `BookedPlanProofs` | theorems of those modules with their proofs |
| `MC*` | instances for TLC |

`LiveRuns` and `BookedPlan` look at the same endpoints from two sides. `LiveRuns`
has the locks, the files and the crashes, and a run is there the set of changes
that went into it; `BookedPlan` takes the run's lock as given, which `LiveRuns`
shows to be enough (`AckedReplansKept`), and has what a change does to the plan.

`LiveJobStore` is both a component and the abstract specification that
`LiveJobControl` implements (`ImplementsStore`). The operators named
`...Unleased`, `...InPlace`, `AnyProof...` and so on, marked "Mutant", are
plausible bugs of the definition they precede; no specification uses them. They
show that the property they are paired with in `PROJECT.json` can fail.

## 3. Correspondence with the code

### LiveJobRow and LiveJobStore

A repository method reads the row `FOR UPDATE`, tests it, and writes it or rolls
back, so it is an atomic step: a guard and a function from row to row. A method
that returns `None` or `False` changes nothing and is left out.

| Code | Model |
|---|---|
| `state`, `revision`, `lease_generation` | `state`, `rev`, `gen` |
| `lease_owner` = `worker:<job>:<generation>` | `owner`, that generation, 0 for NULL |
| `lease_expires_at` against the clock | `live` and the step `LeaseExpires` |
| `cancel_pending`, `cancellation_requested` | `cancelling`: they are set together |
| `cancel_target_*` | `target` |
| `reap_token`, `reap_*`, `reap_proof_*` | `reap`; a token is random in the code and here the revision it was issued at |
| pair result rows | `stored`, in insertion order |

`LiveJobStore` puts no order on its callers. A holder names any generation, a
reaper any token, and a publisher any revision, because the registry computes it
from a copy. What holds of `LiveJobStore` therefore holds whatever the rest of
the program does.

### LiveJobControl

A member of `Registries` is one incarnation of an API process. A restart is
another member that has done nothing so far, so two members cover both two
servers side by side and a server that is restarted.

| Code | Model |
|---|---|
| `_RuntimeJob` and where its coroutine is | `rt[r]`: `pc`, the lease `gen` it goes by, whether its claim was granted that one (`own`) and if not the revision of its copy (`rev`), the heartbeat `hb`, the decided outcome `want` and whether it is a pending terminal outcome, `quar`antined, `ident` (does the record name a worker, was it authenticated) |
| worker process and group | `worker[r]`, by the registry that spawned it, which spawns at most one; with the generation it was spawned for |
| `.workers/<job>.json` | `marker`: spawn intent, live marker, the worker's receipt, the reaper's cleanup receipt |
| `<job>.death-proof.json`, `_confirmed_stopped_job_ids` | `deathProof`, `sweep[r].known` |
| one pass of the recovery loop | `sweep[r]`, one step per database transaction or effect outside |

`start_idempotent` is `Create`, `AdmitNew`, `AdmitIdentity`; `_run` and `_run_worker_command` are
`StartOperation`, `Spawn`, `Collect`; `cancel` is `LocalCancel` or
`RequestCancel`, the timeout in `_run` `Deadline`, `_finish` `Settle`; the
heartbeat `HbRenew`, `HbLost`, `HbCancel`, `HbAck`; `suspend_for_restart`
`Suspend`. `restore_after_restart` is `ScanMarker` / `ScanOwn` to `Load`,
`recover_durable` the end of `Load`, then `List`, `Ack`, `Claim`, `ClaimIdentity`.

`claim_with_identity` is two actions wherever it is called, because it is two
transactions: the claim, and a SELECT of owner and generation that takes no lock.
Between them the row may be cancelled, which makes the second raise a conflict, and
claimed by another registry, whose generation the second then returns. `own` and
`rev` are for what follows from that: the registry goes by a lease it was not granted
and counts the revisions of its publications on from its own claim.

Details that took care and that the properties depend on:

* The marker path belongs to the job, not to a worker: the registry overwrites it
  before a spawn and unlinks it after the worker's end without looking whose it
  is, and so does the worker when it starts and ends.
* The sweep has two candidates: the marker file, and the registry's own record of
  the job as long as it names a worker and is not terminal. Equal nonces make
  them one. The second alone has no marker path, so killing through it leaves no
  receipt and no proof, and the fence stays.
* The own record's worker identity is never cleared when the worker ends, only
  when a sweep finds its group gone without a receipt.
* `HbCancel` leaves the marker where it is, because the operation task that would
  unlink it is cancelled; `HbLost` and `Suspend` kill through the handle, and the
  operation task wakes up and unlinks it.
* `store.cancel` asks for no lease, so the acknowledgement of a heartbeat is not
  tied to its own generation.

Time. `LeaseExpires` and `ReapExpires` let a deadline pass. With `Stalls` they may
pass at any moment. Without it, a lease does not run out while its holder renews
it (the heartbeat renews three times per lease), nor within a sweep during which
it was granted or at whose start it was still renewed, nor between the creation
of a new job and the end of its admission: all of these take seconds and a lease lasts 300. A
fence does not run out under a controller that is at work on it. Whether a lease
of a dead process runs out before, in or after a sweep is left open.

Abstractions: results, progress, checkpoints and traces are left out (their
publications keep state and lease); the local copy's revision is never behind
the row's while a registry holds the lease it was granted, so a publication writes the
next one; a
record resolved locally by a sweep is treated as quarantined, both make
`_finish` return without publishing; records are never evicted by retention.

### PlanningJobs

The runner's `_run` has one commit per `update`, and `save_plan`, in that order;
each is an action, and what happens between them is `Raise` or nothing. `update`
and `schedule_retry` test neither status nor lease, as in the code. A plan
version written by the job is deterministic in the problem and the version before
it, so `save_plan` finds an equal payload when an earlier attempt of the job
wrote the same version, or a different one when the solver's time limit cut it
off: both outcomes are there. `SaveUserPlan` stands for both endpoints that add a
version.

An environment is faulty (`faulty`, which no step changes) or not. In a faulty one
a task may outlive its lease and a transaction may raise.

### BrowserTasks

| Code | Model |
|---|---|
| `BrowserAcquisitionRow` | `row[r]`; `reuse` and `key` for the reusable work and its unique key, `frozen` for the outbox columns, `published` for the result |
| `BrowserTaskConsumerRow`, a waiter in `wait_many` | `consumer[c]`, numbered in the order of `created_at` |
| between reading `now` and the flush that inserts | `inserting`, the submissions there |
| `CompanionSessionRow`, the extension's runtime instance | `session`, `runtime` |
| leases the companion executes or whose answer is on its way | `jobs` |
| a `complete` request, a pass of `publish_pending_completions` | `call[k]`, one step per transaction |
| `browser_complete` events | `ledger` |

A response that a companion never gets is `heard = FALSE` in `Claim`; a session that
expires is such a response too. Completions of a runtime that was replaced can still
arrive. Its heartbeats and claims cannot, in the model: the bridge would accept them
(`upsert_companion_session` takes any runtime and raises the session's generation
again), so a request that was on its way when the service worker died could take the
session, or a lease that nobody executes, from its successor for a moment. All
submissions ask for equal work, because unequal work never meets. A submission reads
`now` before it inserts, and the one that loses the race for the unique key joins the
winner's row with the instant it read: the primary of a row need not be its oldest
consumer. `Cancel` takes the public id or the consumer's own id, and promotes the oldest
that is left besides the primary there may be, as `cancel_consumer` does. `Ended` stands
for everything that makes the companion drop a lease without a completion that the
bridge sees: a result that is lost, an error, a status that says the work was cancelled;
`get_consumer_lease_status` is part of it. A call's `Read` is all it reads before it
freezes; the authorization is read again in `Prepare`, as the code does. Not modelled:
provider scopes, rotation and limits, which delay a claim; capacity and the idempotent
replay of a submission; and a terminal row that is reused within its time to live, which
is a row of its own to a consumer with a handle of its own.

### LiveRuns

| Code | Model |
|---|---|
| the entry of `LiveRunCache` and its lock | `cache` |
| the entry in the snapshot file | `disk`; a write that fails before the rename leaves it, one that fails after has changed it |
| a request to the re-plan or the modify endpoint | `replan[q]`: it looked up the entry, it holds the lock and has read the run, it was answered |
| `LiveMonitorRecord`, its task | `monitor`; who holds its lock, and where, is `check` |
| `start`, `stop` requests | `start`, `stop` |
| the monitor's row, its check rows | `saved`, `history` |

An operation of the cache runs under its lock with no await, so it is a step. The
save of a start ends before the loop's first check, because the interval is at least
a second. `check_now` may get the record's lock before a stop that queued earlier,
which the fair lock of asyncio would not allow: a few behaviours more. Reading
endpoints change nothing and are left out; other runs appear as `Evict` (the cache is
full) and `Rewrite` (the snapshot is written for another run). `Crash` stands for an
orderly end too, `close` leaves the rows active as a kill does.

### BookedPlan

| Code | Model |
|---|---|
| the cached run: its package, decision, search query | `run`: the set of component ids, `accept` or `block` (every other decision), a query; and `dropped`, a history of the bookings that the search of everything it comes from left out |
| its entry in the snapshot file | `disk` |
| a request that holds the run's lock | `replan`, with the protected set it read |
| `BookingLedger` | `facts`, `overrides` in their order |
| a reprice request that awaits its source | `reprice[p]` |
| `HandoffStore` | `hand`, `used`, and `filed`, what `handoffs.json` has of `used`; `issued` numbers the hand-offs, `opened` is the history of the pages opened |

An endpoint of the ledger loads, changes and saves it with no await, so it is a step.
`Begin` is the part of a re-plan up to its first await; each end of it is an action of
its own, named for the disposition: `EventBlocks`, `EventRepairs`, `EventReplans`,
`ModifyLodging`, `ModifyDates`, or `EndWithout`, which is an exception, a timeout, a run
that expired (410), an event that changes nothing, or a write of the snapshot that fails
before its rename. One that fails after it has changed `disk` while the cache takes its
run back (`End`); the next write for any run puts the cache's back (`Rewrite`), and
`Restart` starts from what is on disk. `Consume` marks a hand-off as used before it
writes the file; when that write fails the request fails, no page opens, and the mark
stays until the process ends. What the search finds is any set of components; a
component that is quoted again has a new id, as in the code. Lodging modifications may
replace any component here, which is more than the code does. `EventRepairs` puts the
repaired plan into the cache even when it blocks, as `_advance_cached_live_run` does,
and `EventReplans` puts the global run there as it came. `exempt` is a history variable:
bookings that no re-plan had to keep. It holds a booking of something outside the plan,
one made while a re-plan is under way, and one made while the run on disk, left by a
write that failed, lacks the component. What a global search or a change of dates left
out is in the `dropped` of the run it led to, and so is forgotten with that run when its
write is rolled back. The quote source of a re-price is not in production
(`main.py:1458` sets its factory to `None`); the model has one that answers. Receipts
are not modelled since nothing reads a stored one.

## 4. Runs

| Run | Module | Asks | Shows | States |
|---|---|---|---|---|
| `store` | `MCLiveJobStore` | what can arbitrary stale callers do to the row | the eight properties of `LiveJobStore` | 6 thousand |
| `control` | `MCLiveJobControl` | two registries, crashes and restarts, no stalls | a lease is granted to one registry and two go by it only after a cancellation between a claim and its identity read, a sweep cancels only on a proof, and every write is a transaction of the store (`ImplementsStore`) | 728 thousand * |
| `control_faults` | same | the same with stalls and unconfirmed kills | evidence of death is true, a reaped lease stays revoked, results follow deaths | 1.28 million * |
| `no_overlap`, `cancelled_means_stopped`, `fence_release`, `sweep_spares_own` | same | statements of comments and docstrings | each is violated, see section 5 | until found |
| `jobs` | `MCPlanningJobs` | persistent jobs through crashes, retries, reposts, in both environments | one executor, final outcomes, no forgotten job but one kind, every job ends; with faults too, a success has its plan and attempts bound the plans | 41 thousand |
| `browser` | `MCBrowserTasks` | coalesced requests in any order of creation and insertion, cancellations, lost leases, competing completions, handlers that die | pending work is held, one story per task, final results, every acquisition ends | 239 thousand |
| `live_runs` | `MCLiveRuns` | two requests and a monitor over one run, failing writes, a crash and a recovery | nothing acknowledged or counted is lost, a stop is final, the monitor ends | 292 thousand |
| `booked` | `MCBookedPlan` | bookings, overrides, re-plans, failing writes, late re-prices, restarts | accepted plans keep what is booked, pages open in order, each once and for its dates | 292 thousand * |
| `booked_gate` | same | the docstring of the booking gate | violated, see section 5 | until found |

Distinct states; with * one per symmetry class.

Bounds of the live jobs. `MaxGen` and `MaxRev` bound the lease generation and the
revision: an action that would pass them is disabled. Generation 3 is a lease, its
fence or cancellation, and a successor's lease, which is what stale proofs, tokens
and holders need. In `LiveJobControl` `MaxRev` bounds a job that has not ended: the
outcome may always be written, one revision above it, so that no worker is stuck
for want of a number. Five revisions in `control` are a creation, a claim, a
publication, a fence and a second claim, and the sixth their outcome; the run with
faults has four, enough for a creation, a claim, a fence and a second claim before
the outcome, because its state space is larger. Both have the constraint
`OneSweepAfterEnd`: once the job has ended they follow states with two sweeps at work
no further. While the job is live the sweeps of both registries interleave freely.
The three properties of `control_faults` are not repeated in `control`, whose
behaviours it has, with one revision less. Two registries are the fewest that can
disagree; more differ only by name (they are symmetric).

Bounds of the others. `PlanningJobs` has two task slots, three attempts, two reposts,
one user plan and two crashes. `BrowserTasks` has up to three submissions and five
instances in one run (`MCSetups`; `setup` is a variable that no step changes): two
attempts with a companion that restarts, two attempts with a handler that dies, two rows
for one request, two completions of one claim at once, and three submissions for one
row, the fewest for a promotion beside a primary. Each is the smallest in which its
case happens; all at once is out of reach. `LiveRuns` has two requests, a monitor of
two checks, one crash, and one failing write of each kind: enough for every pair of
participants to overlap and for a check before and after a recovery. `BookedPlan` has
three kinds of instances: three components and one query with two bookings and an
override request each (a repair that drops a booking, then a second one that starts from
the result), the same with one booking and two override requests, and one component and
two queries with two hand-offs that two re-prices issue, at once or one after the other.
Its writes may fail, and the process may restart, any number of times.
`CHECK_DEADLOCK FALSE` is in a configuration because a model whose bounds are used up,
or whose job has ended, may stop; `BookedPlan` never stops and is checked for it.

Fairness. `LiveJobControl`, `LiveJobStore` and `BookedPlan` have none, their properties
are safety. Otherwise it is weak fairness of

* in `PlanningJobs`, each task's next step (the event loop runs every ready task),
  `Restart` (a process that died is started again) and `LeaseExpires` (time passes);
* in `BrowserTasks`, claims of a row (the companion polls), the end of a lease (a
  renewal never passes the attempt's deadline) and the publisher, which the lifespan
  runs every five seconds. Neither completions, nor cancellations, nor the handlers are
  fair, and a claim may go unheard each time: `AcquisitionEnds` rests on attempts that
  are used up;
* in `LiveRuns`, taking a free lock, an answer to each request (re-plans have a
  timeout), the loop and its check, and the start of a process that ended.

Crashes, faults, user plans and reposts are not fair. `JobEnds` and the other
properties of `PlanningJobs` that except faults are claimed for tasks that keep their
lease: the lease is five minutes, every update renews it, and the solver between two
updates is cut off after two minutes. In a faulty environment a superseded task
overwrites the outcome of its successor, which is a hazard in the list and not a
property. `MonitorEnds` and `ActiveHasTask` except a monitor one of whose saves
failed: the code promises nothing for it (see the last part of section 5).

## 5. Disagreements found

1. `NoOverlap`. `main.py:1246` says that claiming after expiry stops the old
   worker first. A pass of the recovery loop looks at the marker while the dead
   registry's lease still runs, so it may not fence and does not kill; the lease
   runs out; the same pass lists the row and claims it, and the new worker runs
   beside the old one.
2. `CancelledMeansStopped`. `agents/live_jobs.py:3721` keeps a cancelled record
   isolated until its executor's death is proven or its owner acknowledged. `claim`
   does not test the cancellation, so a registry that listed the row before the
   request becomes its owner, and acknowledges for a worker of the previous lease.
3. `FenceReleaseNeedsDeath`. `persistence/live_planning_jobs.py:768` releases a fence
   only after confirmed death. A sweep that sees a spawn intent and no process
   releases the fence as `spawn_absent`, while the owner of the intent may still spawn.
4. `SweepSparesOwnJob`. `agents/live_jobs.py:3605` says a repeated
   `restore_after_restart` only re-scans. Its last loop quarantines every record
   of the registry that names a worker, the ones that run under a renewed lease
   included, and `_finish` then drops their result.
5. `EventKeepsBooked`. `agents/live_system.py:5291` says that no globally re-planned
   package may remove a booked component without an applied override.
   `_enforce_event_booking_gate` changes the decision of the answer, but
   `_advance_cached_live_run` (`main.py:2409`) caches `global_run`, another object,
   which it did not touch: the run is cached as accepted without the component, and
   the final plan of the response is projected from it.

Each run's counterexample is the scenario, step by step.

Met while modelling, and not the subject of a run because nothing in the repository
says otherwise, no property of these models is about them, or the words are too loose to
state:

* `claim_with_identity` (`persistence/live_planning_jobs.py:353`) commits its claim and
  then reads owner and generation. When the row is cancelled and claimed by another
  registry in between, both go by one lease; `LeaseHolderUnique` names this exception.
  The one that misread it has a copy of the snapshot that is behind the row, so its first
  publication is refused and it starts no worker while the job lasts. A cancellation
  alone makes it raise a conflict although its claim was granted.
* A row may have two primary consumers, and a primary that is not its oldest:
  `cancel_consumer` (`persistence/browser_tasks.py:1589`) promotes the oldest one left
  without looking for a primary. A claim only asks whether there is one, so no property
  says that there is but one.
* When the snapshot is renamed and the write fails then (`main.py:732`), the disk has a
  run that the cache took back. A component that is booked then, and is in the cache's
  plan but not in that one, is missing from an accepted run after a restart; see `exempt`.
* A hand-off whose use cannot be filed opens nothing and stays used until the process
  ends.

* `HandoffStore.put` keeps the hand-off on record when a re-price reports a change or
  nothing, and `consume` looks neither at the receipt nor at the plan, while
  `platform/handoff.py:15` calls a hand-off invalidated the moment the offer changes.
* `BookingLedgerStore.load` answers `None` for a corrupt file, as for a missing one: the
  next acknowledgement overwrites it and re-plans go ungated, where its module
  (`persistence/booking_ledger.py:7`) says it fails closed.
* Every override request of a component has the id `override-<component>`, and only the
  first with an id is looked at: after a rejection no later request can be resolved.
  An applied override stays for good, while
  `planning/package_reverification.py:321` speaks of "this round".
* A modification of dates does not look at the ledger.
* `persistence/models.py:107` says which states hold the unique key of an acquisition;
  a row that is completing holds it too.
* The companion drops a lease of a task that it still executes under an earlier lease;
  the attempt is lost.
* A submission of several requests that fails in the middle leaves the consumers it
  made; a frozen completion whose ledger event conflicts is tried again by every pass.
* `recover` (`agents/live_monitor.py:234`) rebuilds loops of active rows at start-up
  only; a save that raises in the loop ends it and leaves the row active until then. The
  save of `last_error` may be the one that raises, its column is shorter than its text.

## 6. What is proved

Every invariant and every action property that a passing run checks, and the
refinement of `LiveJobStore` by `LiveJobControl`, is proved for every value of the
constants; the theorem is listed beside the property in `PROJECT.json`. The three
liveness properties are not. Each inductive invariant was a run's invariant before
it was proved.

`LiveJobStoreProofs` proves the eight properties of the `store` run for every
value of the constants, from `StoreAssumption` (the bounds are naturals, and
`Nobody` is not a controller) alone. The bounds play no part in the arguments.

The safety argument rests on one inductive invariant, `StoreInv`. Besides the
types it says that

* an owner is the current generation (`OwnerIsCurrent`), so any step that raises
  the generation also takes the lease away from whoever held it;
* a row without a fence has no trace of an earlier one (`NoFenceNoTrace`), which
  is why a fresh fence has no proof;
* a row nobody claimed is bare (`UnclaimedIsBare`), which makes the shortcut of
  `request_cancel` safe;
* a fence excludes an owner and is about an earlier generation
  (`FenceExcludesLease`). This one is not inductive alone: a takeover keeps the
  generation, and needs to know that the fence it replaces was about an earlier
  one.

One lemma per transaction gives the type of the row it writes; `TypeStep` and
`InvStep` have one step per action; `PromiseKept` proves all the action
properties of the row from `StoreInv` in one pass over the actions, and each
theorem takes its part. `PairResultsAscend` is inductive with the type
invariant and needs that a pair is stored only under the row's own generation.

`LiveJobControlProofs` proves the seven properties of `control` and `control_faults`
from `ControlAssumption`, for any set of registries, with and without `Stalls` and
`KillMayHang`. It has two layers.

* Every step of a registry, a worker or a sweep is one transaction of the store, or
  leaves the row alone (`StepIsTransaction`, with one lemma per transaction, such as
  `ClaimTx`). That is the refinement, `RegistriesImplementStore`. So what
  `LiveJobStoreProofs` shows of a store's step is used here and not shown again: the
  row keeps `StoreInv`, its generation never falls, and a lease is always under the
  row's own generation (`RowAfterStep`). `RegistriesKeepFence` is an example of a
  property of the store that the registries inherit.
* `ControlInv` ties the row to what the processes remember. `ReapedLeaseStaysRevoked`
  follows from the first layer and the steps of a sweep. The rest needs to know whose a
  lease is, although the identity read can misname it. A generation is granted to one
  registry and has one worker while the job lasts (`GrantsUnique`). Another registry that
  goes by it starts no worker before the job's end (`ForeignWaits`), because its copy of
  the snapshot is behind the row: by the claim it did not see and, once the worker was
  started, by the publication of that (`CopiesAreBehind`). Without stalls and without a
  cancellation nothing comes between a claim and its read (`NoMisread`). `OneLeaseHolder`
  follows from these: two registries that go by one lease are never both its grantee, and
  without a stall or a cancellation there are no two. `DeathProofIsTrue` rests on them
  too, since a proof may be used long after it was found and must be about a worker that
  ended for good: `MarkerNamesWorker`, `SweepNamesLease` and `SweepHasEvidence` carry the
  worker's end from its receipt or its absence through the steps of a sweep to the proof,
  `DeathsHappened` keeps it wherever a proof is, and `SettlingIsStopped` carries it from
  the collection of the worker to the outcome.

`ProofNamesWorker`, that a row's proof of a death is about a lease and not about
generation 0, is there because the rest is not inductive without it: nothing else in
the row's invariant ties what a fence has as its proof to what it is about. What only
changes the processes is described once per kind of state (`EachRecordMoves`, `WorkersMove`,
`FilesStep`, `SweepsMove`, `ReapStep`), and the invariant's parts are shown from these.

`PlanningJobsProofs` proves the safety properties of `jobs`, for any number of slots,
attempts and crashes. As long as no task outlives its lease, a task past its claim
means a running row under a live lease (`WorkerHoldsLease`). This makes claims
exclusive, and it is what keeps a final status although `update` and `schedule_retry`
test nothing. Two parts hold in the faulty environment too: `SavedHasPlan`, for
`SucceededHasPlan`, and `AttemptsCover`. The latter says that the versions written and
the tasks that have not yet written theirs are together no more than the attempts;
`PlanBudget` alone is not inductive, because it does not know that a claimed task has
a version to write. The proof counts the job's versions as the cardinality of a set of
indices, as the model does: the length of a filtered sequence is defined by recursion
and could be computed only by induction over data.

`BrowserTasksProofs` proves the safety properties of `browser`, for any number of
rows, submissions and handlers and any setup, from the module's assumptions.
`NoneAssumption`, that the mark for no completion is no completion, is one of them. In
`TasksInv`

* `NotFrozenEarly`, `FrozenIsOwn` and `CallsCarryFrozen` say that a completion is frozen
  once, with its own row, and that a call past `Prepare` and the publisher carry it.
  A handler reads, freezes, records and finalizes in four transactions and may die or
  be overtaken between any two; `OneStory` follows because all of them carry the same
  completion;
* `HandlesLead` says that a consumer's handle leads to the row it was made for, however
  often the public id moved to another consumer, and `InsertersAreNew` that a submission
  that reads `now` and inserts later has no consumer yet. `PendingRowIsHeld` needs both:
  for the count when the loser of the key race joins, and for the cancellation of one of
  several requests, where the reference given back is of that row and `LeastExists` gives
  the oldest request that is left, which becomes primary. That there is at least one
  primary needs no order of creation; that there is at most one is not so.

`LiveRunsProofs` proves the safety properties of the `live_runs` run from
`LiveRunsAssumption` (the bounds are naturals, a monitor has at least one check, and
the two special lock holders are no requests), for any number of requests. Its
inductive invariant is `RunsInv`: the types, the three properties that are inductive
with it (`AckedReplansKept`, `ActiveHasTask` and, inside `HistoryInv`,
`HistoryIsBacked`), and

* `LockInv`: whoever is past the entry's lock holds it and started from the run that is
  still there. This is why a replacement loses nothing;
* `CountsInv`: neither the record nor the row counts more checks than the run and the
  snapshot hold, also across the two, since either may be the one a restart finds;
* `ProtocolInv`: who may be at work on the record, and what the row says meanwhile; for
  instance, that a row that has ended says what the record says;
* `HistoryInv`: the order row, then history, of each check.

There is a lemma for each part (`LockStep`, `KeptStep`, `CountsStep`, `ProtocolStep`,
`HistoryStep`, `TaskStep`), and `RunsStep` joins them.

`BookedPlanProofs` proves the three properties of the `booked` run from
`BookedAssumption`, for any components and bounds. `PlanInv` says of the run in the cache
and of the one on disk alike that it holds what is booked if it is accepted
(`Keeps(run)`, `Keeps(disk)`): a restart turns one into the other. It adds two facts:
what a re-plan read covers every booking that still counts (`GuardedCovers`), and a
component's override requests are resolved together (`OverridesAgree`), so that a
protection that was lifted stays lifted. The verifier's condition `c \in after`, and not
the difference between two plans, is what the step of a repair uses: the plan it starts
from may be one that was blocked. For `OpensForward`, `HandInv` says that the hand-off on
record is the last one issued for its component (`HandIsLatest`) and that what has opened
a page was filed before (`OpenedIsFiled`), so that a restart does not forget it.

Model-checked only: liveness under fairness (`JobEnds`, `AcquisitionEnds`,
`MonitorEnds`), which needs `ENABLED` and is out of the provers' reach. The properties
of section 5 are false, so there is nothing to prove of them. Nothing here needs a
recursive operator.

## 7. Plan

Done: the modules of section 2. Then, in order:

1. Liveness of the registries: a specification without revision bounds (revisions
   taken modulo what the guards compare) under fairness of sweeps and heartbeats,
   for the hazard about fences that nobody can complete.
2. `TripRun`: two requests on one revision of a complex trip.
3. Date enumeration as recursive functions against a reference definition.
4. Deferred start and activation in `LiveJobControl`.

## 8. Not modelled

* In the live registry: deferred start and `activate`, `close`, capacity,
  retention and idempotency entries, in-process callables, the hard-stop watchdog,
  and the file-backed mode without a durable store.
* In the bridge: the in-memory mode, provider scopes, rotation, limits and cool-downs,
  capacity, reload control, and the validation of completions. In the companion: tabs,
  parsing of pages, the workflows of the providers.
* Isolation levels: `FOR UPDATE` does nothing on SQLite; the model has atomic
  transactions. Row locks taken in different orders (a completion locks acquisition and
  session, a claim session and acquisition) are below the model too.
* Several jobs: no transaction touches two rows, files are per job. Several runs: see
  `Evict` and `Rewrite`.
* Loss of power, lost or corrupt files: files are written atomically by rename
  and read back as written. A marker that cannot be parsed only quarantines the
  row, which `Denied` does for an unreadable process table.
* Trip runs, the search supervisor, the terminal barrier and date enumeration: state
  that one coroutine computes and one guarded save stores, or no state.
* The search of the agent system, planners, language-model agents, provider adapters,
  memory and the web client: transformation of data without protocol state, or numeric
  search that a model checker does not reach. They are by far most of the
  implementation's lines, and what the map covers is small beside them.
