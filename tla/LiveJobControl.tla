---------------------------- MODULE LiveJobControl ----------------------------
(***************************************************************************)
(* One durable live-planning job, the registries (one per API process) that *)
(* share its database row and its worker directory, the worker processes   *)
(* they spawn, and the orphan sweep each registry runs at start-up and then *)
(* every 30 seconds.                                                       *)
(* Source: agents/live_jobs.py, agents/live_job_worker.py and the lifespan *)
(* of main.py, calling the transactions of LiveJobRow.                     *)
(*                                                                         *)
(* A registry is one process incarnation: a restart is another member of   *)
(* Registries, one that has done nothing yet.  Each database transaction   *)
(* is a step, together with the local work of its coroutine up to the next *)
(* await that matters; a process can die between any two steps.  A registry *)
(* spawns at most one worker for the job, which therefore goes by the      *)
(* registry's name and carries the lease generation it was spawned for;    *)
(* there is one marker file and one death-proof file per job, whoever      *)
(* writes it.                                                              *)
(***************************************************************************)
EXTENDS LiveJobRow

CONSTANTS
  Registries,     \* process incarnations of the API server
  Stalls,         \* may a live process miss its lease deadlines?
  KillMayHang,    \* may SIGKILL go unconfirmed within the budget?
  MaxGen,         \* bound on the lease generation
  MaxRev          \* bound on the row revision of a job that has not ended

ASSUME ControlAssumption ==
  /\ Stalls \in BOOLEAN
  /\ KillMayHang \in BOOLEAN
  /\ MaxGen \in Nat
  /\ MaxRev \in Nat
  /\ Nobody \notin Registries

VARIABLES
  row,         \* the durable row
  up,          \* registry -> is its process alive
  rt,          \* registry -> its _RuntimeJob for the job, if it has one
  worker,      \* registry -> the worker process it spawned, and for which lease
  marker,      \* the job's file in the .workers directory
  deathProof,  \* generation the job's .death-proof.json is about, 0 if none
  sweep        \* registry -> where its recovery sweep is

vars == <<row, up, rt, worker, marker, deathProof, sweep>>

\* rt[r].gen is the lease the registry goes by; rt[r].own, which no code keeps,
\* whether that is the one its claim was granted.  If it is not, or not yet known,
\* rt[r].rev is the revision of the registry's copy of the snapshot.
NoRuntime == [pc |-> "none", gen |-> 0, own |-> FALSE, rev |-> 0, hb |-> "off",
              want |-> "none", pending |-> FALSE, quar |-> FALSE,
              ident |-> "none"]
NoWorker  == [st |-> "none", gen |-> 0]
NoMarker  == [kind |-> "none", gen |-> 0, by |-> Nobody]
NoSweep   == [pc |-> "idle", gen |-> 0, by |-> Nobody, kind |-> "none",
              token |-> 0, receipt |-> FALSE, known |-> 0, own |-> "no",
              fresh |-> FALSE]

RuntimePcs == {"none", "created", "claimed", "admitted", "intent", "waiting",
               "stopping", "settling", "stuck", "done"}
SweepPcs   == {"idle", "authorize", "kill", "record", "complete", "finish",
               "denied", "load", "list", "ack", "claim", "identify"}

TypeOK ==
  /\ row \in RowType(Registries)
  /\ up \in [Registries -> BOOLEAN]
  /\ rt \in [Registries ->
               [pc : RuntimePcs, gen : 0..MaxGen, own : BOOLEAN, rev : Nat,
                hb : {"off", "on", "acking"}, want : Terminal \cup {"none"},
                pending : BOOLEAN, quar : BOOLEAN,
                ident : {"none", "spawned", "authenticated"}]]
  /\ worker \in [Registries ->
                   [st : {"none", "booting", "alive", "exited", "killed"},
                    gen : 0..MaxGen]]
  /\ marker \in [kind : {"none", "intent", "live", "receipt", "cleanup"},
                 gen : 0..MaxGen, by : Registries \cup {Nobody}]
  /\ deathProof \in 0..MaxGen
  /\ sweep \in [Registries ->
                  [pc : SweepPcs, gen : 0..MaxGen,
                   by : Registries \cup {Nobody}, kind : ProofKinds,
                   token : 0..MaxRev, receipt : BOOLEAN, known : 0..MaxGen,
                   own : {"no", "merged", "later", "next", "now"},
                   fresh : BOOLEAN]]

Init ==
  /\ row = NewRow
  /\ up = [r \in Registries |-> TRUE]
  /\ rt = [r \in Registries |-> NoRuntime]
  /\ worker = [r \in Registries |-> NoWorker]
  /\ marker = NoMarker
  /\ deathProof = 0
  /\ sweep = [r \in Registries |-> NoSweep]
-------------------------------------------------------------------------------
RevRoom == row.rev < MaxRev
GenRoom == row.gen < MaxGen

Running(r) == worker[r].st \in {"booting", "alive"}

Gone(r)    == worker[r].st \in {"exited", "killed"}

Killed(r)  == worker' = [worker EXCEPT ![r].st = "killed"]

SetRt(r, new)    == rt' = [rt EXCEPT ![r] = new]
GoTo(r, pc)      == rt' = [rt EXCEPT ![r].pc = pc]
SweepTo(r, pc)   == sweep' = [sweep EXCEPT ![r].pc = pc]
SweepDone(r)     == sweep' = [sweep EXCEPT ![r] = NoSweep]

\* A lease that is renewed, or that is granted during a sweep, outlives the sweep
\* unless processes stall; sweep[r].fresh remembers that.
Beats(r)  == up[r] /\ rt[r].hb = "on"
Renews(r) == Beats(r) /\ rt[r].gen = row.gen

Fresh == ~Stalls /\ \E r \in Registries : Renews(r)

Granted ==
  [r \in Registries |-> [sweep[r] EXCEPT !.fresh = ~Stalls /\ sweep[r].pc # "idle"]]

\* A runner that has ended leaves its record behind.
Ended(r, pc) == [rt[r] EXCEPT !.pc = pc, !.hb = "off", !.want = "none"]

\* A terminal record is never looked at again.
Done(r) == [NoRuntime EXCEPT !.pc = "done", !.gen = rt[r].gen, !.own = rt[r].own]
-------------------------------------------------------------------------------
\* The process dies; its workers live on in sessions of their own.
Crash(r) ==
  /\ up[r]
  /\ up' = [up EXCEPT ![r] = FALSE]
  /\ SetRt(r, NoRuntime)
  /\ SweepDone(r)
  /\ UNCHANGED <<row, worker, marker, deathProof>>

\* SIGKILL of the worker's group from the process that owns its handle.  Once it
\* is confirmed dead, the operation task wakes up and unlinks the marker path; a
\* spawn that is cancelled unlinks it too.
KillOwnWorker(r) ==
  CASE rt[r].pc \in {"waiting", "stopping"} /\ Running(r) ->
         \/ Killed(r) /\ marker' = NoMarker
         \/ KillMayHang /\ UNCHANGED <<worker, marker>>
    [] rt[r].pc \in {"intent", "waiting", "stopping"} /\ ~Running(r) ->
         marker' = NoMarker /\ UNCHANGED worker
    [] OTHER -> UNCHANGED <<worker, marker>>

\* Mutant: the outcome of the kill is not looked at.
StoppedOnSignal(r) == TRUE

Stopped(r) == worker'[r].st \notin {"booting", "alive"}

\* suspend_for_restart: the recovery task is cancelled, the heartbeat too, the
\* executors are stopped, then the lease is given back.  A worker that does not
\* stop raises, and the lease is left to expire.
Suspend(r) ==
  /\ up[r]
  /\ rt[r].pc \notin {"none", "created", "claimed"}
  /\ KillOwnWorker(r)
  /\ row' = IF Stopped(r) /\ Holds(row, rt[r].gen) THEN Released(row) ELSE row
  /\ up' = [up EXCEPT ![r] = FALSE]
  /\ SetRt(r, NoRuntime)
  /\ SweepDone(r)
  /\ UNCHANGED deathProof
-------------------------------------------------------------------------------
\* start_idempotent: the row first, then the lease, then the runner.
Create(r) ==
  /\ up[r]
  /\ row.state = "absent"
  /\ RevRoom
  /\ row' = Created(row)
  /\ GoTo(r, "created")
  /\ UNCHANGED <<up, worker, marker, deathProof, sweep>>

\* claim_with_identity, first transaction: the claim.
AdmitNew(r) ==
  /\ up[r]
  /\ rt[r].pc = "created"
  /\ IF Claimable(row)
       THEN /\ RevRoom /\ GenRoom
            /\ row' = Claimed(row)
            /\ SetRt(r, [NoRuntime EXCEPT !.pc = "claimed", !.gen = row.gen + 1,
                                          !.own = TRUE, !.rev = row.rev + 1])
            /\ sweep' = Granted
       ELSE /\ SetRt(r, NoRuntime)
            /\ UNCHANGED <<row, sweep>>
  /\ UNCHANGED <<up, worker, marker, deathProof>>

\* ... second transaction: a SELECT of owner and generation, which need no longer
\* be those of the lease g that the claim was granted, nor of its snapshot rev.
Admitted(g, rev) ==
  [NoRuntime EXCEPT !.pc = "admitted", !.gen = row.gen, !.own = (row.gen = g),
                    !.rev = IF row.gen = g THEN 0 ELSE rev, !.hb = "on"]

\* A row without an owner raises a conflict, and the record is removed again.
AdmitIdentity(r) ==
  /\ up[r]
  /\ rt[r].pc = "claimed"
  /\ SetRt(r, IF row.owner = 0 THEN NoRuntime ELSE Admitted(rt[r].gen, rt[r].rev))
  /\ UNCHANGED <<row, up, worker, marker, deathProof, sweep>>

\* _publish_durable.  The copy of the snapshot that a runner has is never behind
\* the row while it holds the lease it was granted, so the revision it writes is
\* the next one; under another's lease it counts on from its own claim.
NextRev(r)    == IF rt[r].own THEN row.rev + 1 ELSE rt[r].rev + 1
CanPublish(r) == Publishable(row, rt[r].gen, NextRev(r))

\* _update_running, then _run_worker_command writes the spawn intent.  A terminal
\* row is returned without an error, and the worker is spawned all the same.  A
\* copy that is refused keeps the revision it was given.
StartOperation(r) ==
  /\ up[r]
  /\ rt[r].pc = "admitted"
  /\ LET publishes == ~IsTerminal(row) /\ CanPublish(r) IN
       IF IsTerminal(row) \/ publishes
         THEN /\ publishes => RevRoom
              /\ row' = IF publishes THEN Published(row, "running", NextRev(r))
                                     ELSE row
              /\ marker' = [kind |-> "intent", gen |-> rt[r].gen, by |-> r]
              /\ GoTo(r, "intent")
         ELSE /\ SetRt(r, [rt[r] EXCEPT !.pc = "settling", !.want = "failed",
                                       !.rev = IF rt[r].own THEN 0 ELSE @ + 1])
              /\ UNCHANGED <<row, marker>>
  /\ UNCHANGED <<up, worker, deathProof, sweep>>

Spawn(r) ==
  /\ up[r]
  /\ rt[r].pc = "intent"
  /\ worker' = [worker EXCEPT ![r] = [st |-> "booting", gen |-> rt[r].gen]]
  /\ SetRt(r, [rt[r] EXCEPT !.pc = "waiting", !.ident = "spawned"])
  /\ UNCHANGED <<row, up, marker, deathProof, sweep>>

\* The group is confirmed gone and whatever is at the marker path is unlinked.
\* A job that was being stopped keeps the outcome that was decided then.
Collect(r) ==
  /\ up[r]
  /\ rt[r].pc \in {"waiting", "stopping"}
  /\ Gone(r)
  /\ marker' = NoMarker
  /\ \E want \in IF rt[r].pc = "stopping"
                   THEN {rt[r].want}
                   ELSE {"failed"} \cup (IF worker[r].st = "exited"
                                           THEN {"succeeded"} ELSE {}) :
       SetRt(r, [rt[r] EXCEPT !.pc = "settling", !.want = want])
  /\ UNCHANGED <<row, up, worker, deathProof, sweep>>

\* cancel of a job this registry runs, and the deadline in _run: stop the worker
\* first, decide the outcome only when it is gone.
StopFor(r, want) ==
  /\ up[r]
  /\ KillOwnWorker(r)
  /\ SetRt(r, [rt[r] EXCEPT !.want = want, !.pending = TRUE,
                            !.pc = IF Stopped(r) THEN "settling" ELSE "stopping"])
  /\ UNCHANGED <<row, up, deathProof, sweep>>

LocalCancel(r) ==
  /\ rt[r].pc \in {"admitted", "intent", "waiting", "stuck"}
  /\ ~rt[r].quar
  /\ StopFor(r, "cancelled")

Deadline(r) ==
  /\ rt[r].pc \in {"admitted", "intent", "waiting"}
  /\ StopFor(r, "failed")

\* _finish: the heartbeat ends, then the terminal snapshot is published unless
\* the record was quarantined; a conflict leaves the record as it was.
Settle(r) ==
  /\ up[r]
  /\ rt[r].pc = "settling"
  /\ LET publishes == ~rt[r].quar /\ ~IsTerminal(row) /\ CanPublish(r)
         settled   == ~rt[r].quar /\ (IsTerminal(row) \/ publishes)
     IN  /\ row' = IF publishes THEN Published(row, rt[r].want, NextRev(r))
                                ELSE row
         /\ SetRt(r, IF settled THEN Done(r) ELSE Ended(r, "stuck"))
  /\ UNCHANGED <<up, worker, marker, deathProof, sweep>>
-------------------------------------------------------------------------------
\* _start_lease_heartbeat.
HbRenew(r) ==
  /\ Beats(r)
  /\ Renewable(row, rt[r].gen)
  /\ row' = Renewed(row)
  /\ UNCHANGED <<up, rt, worker, marker, deathProof, sweep>>

\* The renewal is refused, or the database stays contended: the runner is
\* cancelled, stops the worker, and publishes nothing.
HbLost(r) ==
  /\ Beats(r)
  /\ Stalls \/ ~Renewable(row, rt[r].gen)
  /\ KillOwnWorker(r)
  /\ SetRt(r, Ended(r, "stuck"))
  /\ UNCHANGED <<row, up, deathProof, sweep>>

\* The poll sees the cancellation: both tasks are cancelled, and the acknowledge
\* follows once the tasks are done, which does not need the worker to be.  The
\* operation task dies with the cancellation, so the marker stays.
HbCancel(r) ==
  /\ Beats(r)
  /\ row.cancelling
  /\ \/ ~Running(r) /\ UNCHANGED worker
     \/ Running(r) /\ Killed(r)
     \/ Running(r) /\ KillMayHang /\ UNCHANGED worker
  /\ marker' = IF rt[r].pc = "intent" THEN NoMarker ELSE marker
  /\ \E hb \in {"acking"} \cup IF Stopped(r) THEN {} ELSE {"off"} :
       SetRt(r, [Ended(r, "stuck") EXCEPT !.hb = hb])
  /\ UNCHANGED <<row, up, deathProof, sweep>>

HbAck(r) ==
  /\ up[r]
  /\ rt[r].hb = "acking"
  /\ row' = Cancelled(row)
  /\ SetRt(r, [rt[r] EXCEPT !.hb = "off"])
  /\ UNCHANGED <<up, worker, marker, deathProof, sweep>>

\* cancel through a registry that does not run the job.
RequestCancel(r) ==
  /\ up[r]
  /\ rt[r].pc = "none"
  /\ row.state # "absent"
  /\ ~IsTerminal(row)
  /\ RevRoom /\ GenRoom
  /\ row' = CancelRequested(row)
  /\ UNCHANGED <<up, rt, worker, marker, deathProof, sweep>>
-------------------------------------------------------------------------------
\* The worker process: it overwrites the marker path when it starts and, unless
\* it is killed, again when it ends.
WorkerBoots(r) ==
  /\ worker[r].st = "booting"
  /\ worker' = [worker EXCEPT ![r].st = "alive"]
  /\ marker' = [kind |-> "live", gen |-> worker[r].gen, by |-> r]
  /\ UNCHANGED <<row, up, rt, deathProof, sweep>>

WorkerExits(r) ==
  /\ worker[r].st = "alive"
  /\ worker' = [worker EXCEPT ![r].st = "exited"]
  /\ marker' = [kind |-> "receipt", gen |-> worker[r].gen, by |-> r]
  /\ UNCHANGED <<row, up, rt, deathProof, sweep>>

\* Killed by the operating system: no receipt.
WorkerDies(r) ==
  /\ Running(r)
  /\ Killed(r)
  /\ UNCHANGED <<row, up, rt, marker, deathProof, sweep>>
-------------------------------------------------------------------------------
\* restore_after_restart, _discover_and_stop_orphan_workers.  The candidates are
\* the marker file and then the record this registry itself has of the job, as
\* long as it names a worker and is not terminal: nothing tells a worker of its
\* own from an orphan.  When both name the same process they are one candidate.
HasIdentity(r) == rt[r].ident # "none" /\ rt[r].pc \notin {"none", "done"}

OwnCandidate(r) ==
  [sweep[r] EXCEPT !.pc = "authorize", !.gen = rt[r].gen, !.by = r, !.token = 0,
                   !.kind = "worker_death", !.receipt = FALSE, !.own = "now"]

NextCandidate(r) ==
  sweep' = [sweep EXCEPT ![r] =
    IF sweep[r].own = "next" \/ (sweep[r].own = "later" /\ HasIdentity(r))
      THEN OwnCandidate(r)
      ELSE [sweep[r] EXCEPT !.pc = "load"]]

\* Read the marker and look for its process.
ScanMarker(r) ==
  /\ up[r]
  /\ sweep[r].pc = "idle"
  /\ marker.kind # "none"
  /\ LET absent == marker.kind = "intent" /\ ~Running(marker.by)
         found  == [pc |-> "authorize", gen |-> marker.gen, by |-> marker.by,
                    token |-> 0, known |-> deathProof, fresh |-> Fresh,
                    kind |-> IF absent THEN "spawn_absent" ELSE "worker_death",
                    receipt |-> marker.kind \in {"receipt", "cleanup"},
                    own |-> CASE absent -> "later"
                              [] ~absent /\ ~HasIdentity(r) -> "no"
                              [] OTHER -> IF marker.by = r THEN "merged" ELSE "next"]
     IN  \/ sweep' = [sweep EXCEPT ![r] = found]
         \/ /\ marker.kind = "intent"     \* the process table cannot be read
            /\ sweep' = [sweep EXCEPT ![r] =
                           [found EXCEPT !.pc = "denied", !.own = "later"]]
  /\ UNCHANGED <<row, up, rt, worker, marker, deathProof>>

ScanOwn(r) ==
  /\ up[r]
  /\ sweep[r].pc = "idle"
  /\ marker.kind = "none"
  /\ sweep' = [sweep EXCEPT ![r] =
                 [IF HasIdentity(r) THEN OwnCandidate(r)
                                    ELSE [NoSweep EXCEPT !.pc = "load"]
                  EXCEPT !.known = deathProof, !.fresh = Fresh]]
  /\ UNCHANGED <<row, up, rt, worker, marker, deathProof>>

Authorize(r) ==
  /\ sweep[r].pc = "authorize"
  /\ LET g    == sweep[r].gen
         next == IF sweep[r].kind = "spawn_absent" THEN "record" ELSE "kill"
     IN  CASE ReapJoins(row, g, r) ->
                /\ sweep' = [sweep EXCEPT ![r].pc = next,
                                          ![r].token = row.reap.token]
                /\ UNCHANGED row
           [] ReapTakesOver(row, g) \/ ReapStarts(row, g) ->
                /\ RevRoom /\ GenRoom
                /\ row' = ReapAuthorized(row, g, r)
                /\ sweep' = [sweep EXCEPT ![r].pc = next,
                                          ![r].token = row.rev + 1]
           [] OTHER -> SweepTo(r, "denied") /\ UNCHANGED row
  /\ UNCHANGED <<up, rt, worker, marker, deathProof>>

\* A process that carries the nonce gets its marker replaced by a cleanup receipt
\* and is killed; the registry's own record has no marker path, so its kill leaves
\* no receipt and the fence no proof.
KillFound(r) ==
  LET w   == sweep[r].by
      own == sweep[r].own = "now"
  IN  /\ Running(w)
      /\ marker' = IF own THEN marker
                   ELSE [kind |-> "cleanup", gen |-> sweep[r].gen, by |-> w]
      /\ \/ /\ Killed(w)
            /\ IF own THEN NextCandidate(r) ELSE SweepTo(r, "record")
            /\ rt' = IF own THEN [rt EXCEPT ![r].ident = "authenticated"] ELSE rt
         \/ /\ KillMayHang
            /\ NextCandidate(r)
            /\ rt' = IF sweep[r].own \in {"now", "merged"}
                       THEN [rt EXCEPT ![r].ident = "authenticated"] ELSE rt
            /\ UNCHANGED worker

\* A process that is gone is proven dead only by the receipt the scan read.
\* Without one, a record of this registry forgets the worker, is resolved on the
\* spot, and the marker is unlinked; the fence stays.
KillAbsent(r) ==
  LET forgets == /\ sweep[r].own \in {"now", "merged"}
                 /\ ~sweep[r].receipt
                 /\ HasIdentity(r)
                 /\ rt[r].ident = "spawned"
  IN  /\ ~Running(sweep[r].by)
      /\ IF sweep[r].receipt THEN SweepTo(r, "record") ELSE NextCandidate(r)
      /\ rt' = IF forgets THEN [rt EXCEPT ![r].ident = "none", ![r].quar = TRUE]
                          ELSE rt
      /\ marker' = IF forgets /\ sweep[r].own = "merged" THEN NoMarker ELSE marker
      /\ UNCHANGED worker

Kill(r) ==
  /\ sweep[r].pc = "kill"
  /\ KillFound(r) \/ KillAbsent(r)
  /\ UNCHANGED <<row, up, deathProof>>

Refused(r) == IF sweep[r].kind = "spawn_absent" THEN SweepTo(r, "denied")
                                                ELSE NextCandidate(r)

Record(r) ==
  /\ sweep[r].pc = "record"
  /\ IF ProofRecordable(row, sweep[r].gen, sweep[r].token)
       THEN row' = ProofRecorded(row, sweep[r].kind) /\ SweepTo(r, "complete")
       ELSE UNCHANGED row /\ Refused(r)
  /\ UNCHANGED <<up, rt, worker, marker, deathProof>>

Complete(r) ==
  /\ sweep[r].pc = "complete"
  /\ IF ReapCompletable(row, sweep[r].gen, sweep[r].token)
       THEN row' = Unfenced(row) /\ SweepTo(r, "finish")
       ELSE UNCHANGED row /\ Refused(r)
  /\ UNCHANGED <<up, rt, worker, marker, deathProof>>

\* Mutant: a worker that was never spawned leaves a death proof too.
ProofOfAnyReap(r) == sweep[r].gen

\* Only a death leaves a death proof; the marker path is unlinked either way.
ProofAfter(r) == IF sweep[r].kind = "worker_death" THEN sweep[r].gen ELSE deathProof

Finish(r) ==
  /\ sweep[r].pc = "finish"
  /\ deathProof' = ProofAfter(r)
  /\ marker' = NoMarker
  /\ rt' = IF sweep[r].own = "merged" /\ ~sweep[r].receipt
             THEN [rt EXCEPT ![r].ident = "authenticated"] ELSE rt
  /\ NextCandidate(r)
  /\ UNCHANGED <<row, up, worker>>

Denied(r) ==
  /\ sweep[r].pc = "denied"
  /\ IF Quarantinable(row)
       THEN RevRoom /\ GenRoom /\ row' = ReapQuarantined(row, r)
       ELSE UNCHANGED row
  /\ NextCandidate(r)
  /\ UNCHANGED <<up, rt, worker, marker, deathProof>>

\* The end of restore_after_restart: the death proofs are read again, and a local
\* record that names a worker is quarantined or resolved, unless its outcome is
\* already decided.  Then recover_durable starts with the expired fence that
\* already carries a proof.
Load(r) ==
  /\ sweep[r].pc = "load"
  /\ sweep' = [sweep EXCEPT ![r] =
       [NoSweep EXCEPT !.pc = "list", !.fresh = sweep[r].fresh,
                       !.known = IF deathProof # 0 THEN deathProof
                                                   ELSE sweep[r].known]]
  /\ rt' = [rt EXCEPT ![r].quar =
       @ \/ (HasIdentity(r) /\ ~rt[r].pending)]
  /\ row' = IF ExpiredProofConsumable(row) THEN Unfenced(row) ELSE row
  /\ UNCHANGED <<up, worker, marker, deathProof>>
-------------------------------------------------------------------------------
\* recover_durable goes on with the recoverable row: a cancelled one waits for its
\* death proof, for any other an old proof is thrown away and the row is claimed.
List(r) ==
  /\ sweep[r].pc = "list"
  /\ CASE ~Recoverable(row) -> SweepDone(r) /\ UNCHANGED deathProof
       [] Recoverable(row) /\ row.cancelling ->
            /\ IF sweep[r].known = 0 THEN SweepDone(r) ELSE SweepTo(r, "ack")
            /\ UNCHANGED deathProof
       [] OTHER ->
            /\ deathProof' = IF sweep[r].known = 0 THEN deathProof ELSE 0
            /\ IF rt[r].pc = "none" THEN SweepTo(r, "claim") ELSE SweepDone(r)
  /\ UNCHANGED <<row, up, rt, worker, marker>>

Ack(r) ==
  /\ sweep[r].pc = "ack"
  /\ IF ProofSettlesCancel(row, sweep[r].known)
       THEN row' = Cancelled(row) /\ deathProof' = 0
       ELSE UNCHANGED <<row, deathProof>>
  /\ SweepDone(r)
  /\ UNCHANGED <<up, rt, worker, marker>>

\* Mutant: claim trusts the list and does not test the row again.
ClaimAsListed(r) ==
  /\ sweep[r].pc = "claim"
  /\ RevRoom /\ GenRoom
  /\ row' = Claimed(row)
  /\ sweep' = [Granted EXCEPT ![r].pc = "identify", ![r].gen = row.gen + 1,
                              ![r].token = row.rev + 1]
  /\ UNCHANGED <<up, rt, worker, marker, deathProof>>

\* claim_with_identity again: the claim, which leaves the lease it was granted and
\* the revision it wrote in gen and token ...
Claim(r) ==
  /\ sweep[r].pc = "claim"
  /\ IF Claimable(row)
       THEN /\ RevRoom /\ GenRoom
            /\ row' = Claimed(row)
            /\ sweep' = [Granted EXCEPT ![r].pc = "identify",
                                        ![r].gen = row.gen + 1,
                                        ![r].token = row.rev + 1]
       ELSE SweepDone(r) /\ UNCHANGED row
  /\ UNCHANGED <<up, rt, worker, marker, deathProof>>

\* ... and the identity read.  A conflict leaves the sweep, with no record made.
ClaimIdentity(r) ==
  /\ sweep[r].pc = "identify"
  /\ SetRt(r, IF row.owner = 0 THEN rt[r] ELSE Admitted(sweep[r].gen, sweep[r].token))
  /\ SweepDone(r)
  /\ UNCHANGED <<row, up, worker, marker, deathProof>>
-------------------------------------------------------------------------------
\* Time.  A process that does not stall renews its lease, and ends a sweep or an
\* admission sooner than a lease granted meanwhile runs out.
Outpaces(r) == up[r] /\ (sweep[r].fresh \/ rt[r].pc \in {"created", "claimed"})
Reaping(r) == /\ r # Nobody
              /\ up[r]
              /\ sweep[r].pc \in {"kill", "record", "complete"}

LeaseExpires ==
  /\ row.live
  /\ Stalls \/ \A r \in Registries : ~Renews(r) /\ ~Outpaces(r)
  /\ row' = [row EXCEPT !.live = FALSE]
  /\ UNCHANGED <<up, rt, worker, marker, deathProof, sweep>>

ReapExpires ==
  /\ row.reap.live
  /\ Stalls \/ ~Reaping(row.reap.controller)
  /\ row' = [row EXCEPT !.reap.live = FALSE]
  /\ UNCHANGED <<up, rt, worker, marker, deathProof, sweep>>
-------------------------------------------------------------------------------
ProcessStep(r) == Crash(r) \/ Suspend(r)

RunnerStep(r) ==
  \/ Create(r) \/ AdmitNew(r) \/ AdmitIdentity(r) \/ StartOperation(r) \/ Spawn(r)
  \/ Collect(r) \/ LocalCancel(r) \/ Deadline(r) \/ Settle(r)
  \/ HbRenew(r) \/ HbLost(r) \/ HbCancel(r) \/ HbAck(r)
  \/ RequestCancel(r)

SweepStep(r) ==
  \/ ScanMarker(r) \/ ScanOwn(r) \/ Authorize(r) \/ Kill(r) \/ Record(r)
  \/ Complete(r) \/ Finish(r) \/ Denied(r) \/ Load(r) \/ List(r) \/ Ack(r)
  \/ Claim(r) \/ ClaimIdentity(r)

WorkerStep(r) == WorkerBoots(r) \/ WorkerExits(r) \/ WorkerDies(r)

Next ==
  \/ \E r \in Registries :
       ProcessStep(r) \/ RunnerStep(r) \/ SweepStep(r) \/ WorkerStep(r)
  \/ LeaseExpires
  \/ ReapExpires

Spec == Init /\ [][Next]_vars
-------------------------------------------------------------------------------
\* The worker of lease g is known to be gone: one that was spawned for it has
\* ended, and as long as the job goes on there is no other.
Dead(g) ==
  /\ \E r \in Registries : worker[r].gen = g /\ Gone(r)
  /\ \A r \in Registries : worker[r].gen = g /\ Running(r) => IsTerminal(row)

\* Death evidence is never ahead of the death: a death proof on disk, in a sweep's
\* memory or on the row names a lease whose worker is gone (_write_death_proof and
\* record_orphan_reap_proof come after the kill was confirmed or a receipt read).
DeathProofIsTrue ==
  /\ deathProof # 0 => Dead(deathProof)
  /\ \A r \in Registries : sweep[r].known # 0 => Dead(sweep[r].known)
  /\ row.reap.proof = "worker_death" => Dead(row.reap.gen)

\* A sweep that may kill or release acts on a lease that is revoked for good: its
\* worker's registry can no longer renew, publish or settle under it, however
\* long the sweep takes.
ReapedLeaseStaysRevoked ==
  \A r \in Registries :
    sweep[r].pc \in {"kill", "record", "complete", "finish"} =>
      /\ row.gen > sweep[r].gen
      /\ row.owner # sweep[r].gen

\* claim commits before claim_with_identity reads the generation back, so a
\* registry can come to go by a lease that another was granted.  It takes a stall,
\* or a cancellation that falls between the two: without either, no two registries
\* go by one lease, and in no case was the same lease granted to both.
LeaseHolderUnique ==
  \A r, s \in Registries :
    /\ rt[r].gen <= row.gen
    /\ r # s /\ rt[r].gen # 0 /\ rt[r].gen = rt[s].gen
         => /\ Stalls \/ row.cancelling
            /\ ~(rt[r].own /\ rt[s].own)

\* A result is stored only after the worker that produced it, or failed to, has
\* been confirmed dead (_confirm_worker_group_exit before _finish), even by a
\* registry that goes by another's lease and does not run its worker.
ResultsFollowDeath ==
  [][row.state \notin Terminal /\ row'.state \in {"succeeded", "failed"}
       => \A r \in Registries : worker[r].gen = row.owner => ~Running(r)]_vars

\* A recovery sweep settles a cancellation only when the worker whose lease the
\* cancellation revoked is gone.
ProofBackedCancel ==
  [][\A r \in Registries :
       sweep[r].pc = "ack" /\ sweep'[r].pc # "ack" /\ row'.state # row.state
         => Dead(row.target.gen)]_vars

\* The registries use the store only as LiveJobStore allows, whatever they, their
\* workers and their sweeps do to the files and to each other.  This is Store!Spec:
\* a step that leaves the row alone stutters, and is said to so that TLC does not
\* try every transaction on it.
Store == INSTANCE LiveJobStore
           WITH MaxRev <- MaxRev + 1, Controllers <- Registries, Pairs <- {},
                Digests <- {}, stored <- <<>>
ImplementsStore == Store!Init /\ [][row' # row => Store!Next]_row
-------------------------------------------------------------------------------
\* The statements below are what comments and docstrings say of the program.

\* main.py:1246: claiming after expiry must first stop the old worker, rather than
\* allowing a second executor to overlap it.
NoOverlap ==
  \A r, s \in Registries : Running(r) /\ Running(s) => r = s

\* live_jobs.py:3721: a cancelled record stays isolated until the death of its
\* executor is proven, or its owner has drained it and acknowledged.
CancelledMeansStopped ==
  row.state = "cancelled" => \A r \in Registries : ~Running(r)

\* live_planning_jobs.py:768: a reaping fence is released only after confirmed
\* orphan death.
FenceReleaseNeedsDeath ==
  [][Fenced(row) /\ ~Fenced(row)'
       => \A r \in Registries : worker[r].gen = row.reap.gen => ~Running(r)]_vars

\* live_jobs.py:3605: a second call only re-scans for workers that appeared after
\* the first boot, so it leaves a job alone whose lease this registry holds.
SweepSparesOwnJob ==
  [][\A r \in Registries :
       ~rt[r].quar /\ rt'[r].quar =>
         ~(Beats(r) /\ Holds(row, rt[r].gen) /\ row.live)]_vars
===============================================================================
