------------------------------ MODULE LiveJobRow ------------------------------
(***************************************************************************)
(* One row of the durable live-job table and what each transaction of      *)
(* DurableLivePlanningJobRepository / DurableLivePlanningJobStore          *)
(* (apps/api/src/tripchord/persistence/live_planning_jobs.py) makes of it. *)
(* Every transaction reads the row FOR UPDATE, tests it, and either writes *)
(* it or rolls back, so each is a guard and a function from row to row.    *)
(* These operators are shared by LiveJobStore (any caller, any token) and  *)
(* LiveJobControl (the registries and workers that really call them).      *)
(*                                                                         *)
(* Abstractions.  The lease owner is the string "worker:<job>:<generation>"*)
(* built by claim, so it is represented by that generation, 0 for NULL.    *)
(* A deadline column is represented by whether it lies in the future.      *)
(* cancel_pending and cancellation_requested are set together on a         *)
(* non-terminal row and are one flag, "cancelling".  A reap token is a     *)
(* fresh random string and is represented by the revision it was issued    *)
(* at, which is fresh for the same reason a revision is.                   *)
(***************************************************************************)
EXTENDS Naturals

CONSTANT Nobody     \* reap_controller IS NULL

Terminal == {"succeeded", "failed", "cancelled"}
States   == {"absent", "queued", "running"} \cup Terminal

ProofKinds == {"none", "worker_death", "spawn_absent"}

NoTarget == [owner |-> 0, gen |-> 0]

NoReap == [token |-> 0, owner |-> 0, gen |-> 0, controller |-> Nobody,
           live |-> FALSE, proof |-> "none"]

NewRow == [state |-> "absent", rev |-> 0, cancelling |-> FALSE, gen |-> 0,
           owner |-> 0, live |-> FALSE, target |-> NoTarget, reap |-> NoReap]

RowType(Controllers) ==
  [state : States, rev : Nat, cancelling : BOOLEAN, gen : Nat, owner : Nat,
   live : BOOLEAN, target : [owner : Nat, gen : Nat],
   reap : [token : Nat, owner : Nat, gen : Nat,
           controller : Controllers \cup {Nobody}, live : BOOLEAN,
           proof : ProofKinds]]

IsTerminal(r) == r.state \in Terminal
Fenced(r)     == r.reap.token # 0
-------------------------------------------------------------------------------
\* create_or_get: the first caller inserts; a second finds the row.
Created(r) == [r EXCEPT !.state = "queued", !.rev = 1]

\* Mutant: the fence is not looked at.
RecoverableThroughFence(r) ==
  r.state = "queued" \/ (r.state = "running" /\ ~r.live)

\* list_recoverable: unfenced, and queued or running without a live lease.
Recoverable(r) ==
  /\ ~Fenced(r)
  /\ r.state = "queued" \/ (r.state = "running" /\ ~r.live)

\* claim.  The cancellation flags are not tested.
Claimable(r) == Recoverable(r)
\* Mutant: a lease that ran out is given out again under its old generation.
ClaimedInPlace(r) ==
  LET g == IF r.gen = 0 THEN 1 ELSE r.gen
  IN  [r EXCEPT !.state = "running", !.rev = @ + 1, !.gen = g, !.owner = g,
                !.live = TRUE]

Claimed(r) ==
  [r EXCEPT !.state = "running", !.rev = @ + 1, !.gen = @ + 1,
            !.owner = r.gen + 1, !.live = TRUE]

Holds(r, g) == r.owner = g /\ r.gen = g

\* Mutant: the writer need not hold the lease.
MayWriteUnleased(r, g) == r.state = "running" /\ ~r.cancelling

\* lease_matches, and the test of store_pair_result, append_checkpoint, settle.
MayWrite(r, g) == r.state = "running" /\ ~r.cancelling /\ Holds(r, g)

\* renew_lease does not test the cancellation flags nor the old deadline.
Renewable(r, g) == Holds(r, g) /\ r.state = "running"
Renewed(r)      == [r EXCEPT !.live = TRUE]

\* Mutant: the owner column gets another column's NULL.
ReleasedToNobody(r) == [r EXCEPT !.live = FALSE, !.owner = Nobody]

\* release_lease does not test the state.
Released(r) == [r EXCEPT !.live = FALSE, !.owner = 0]

\* Mutants: an outcome may be replaced; a cancellation may be overtaken.
PublishableAgain(r, g, rev) == Holds(r, g) /\ ~r.cancelling /\ rev > r.rev
PublishableOverIntent(r, g, rev) == ~IsTerminal(r) /\ Holds(r, g) /\ rev > r.rev

\* replace_snapshot of a non-terminal row.
Publishable(r, g, rev) ==
  /\ ~IsTerminal(r)
  /\ Holds(r, g)
  /\ ~r.cancelling
  /\ rev > r.rev
Published(r, state, rev) == [r EXCEPT !.state = state, !.rev = rev]

Checkpointed(r)   == [r EXCEPT !.rev = @ + 1]
Settled(r, state) == [r EXCEPT !.state = state, !.rev = @ + 1]
-------------------------------------------------------------------------------
\* cancel: no lease is asked for; a terminal row is returned as it is.
Cancelled(r) ==
  IF IsTerminal(r) THEN r
                   ELSE [r EXCEPT !.state = "cancelled", !.rev = @ + 1]

\* A job nobody ever claimed can be cancelled on the spot.
NeverLeased(r) ==
  /\ r.state = "queued"
  /\ r.owner = 0
  /\ r.gen = 0
  /\ r.target = NoTarget

\* Mutant: the intent does not count as a change of the row.
RevokedSilently(r) ==
  [r EXCEPT !.cancelling = TRUE, !.gen = @ + 1, !.owner = 0, !.live = FALSE,
            !.target = [owner |-> r.owner, gen |-> r.gen]]

\* request_cancel: the intent revokes the lease and remembers whose it was.
Revoked(r) ==
  [r EXCEPT !.cancelling = TRUE, !.rev = @ + 1, !.gen = @ + 1, !.owner = 0,
            !.live = FALSE, !.target = [owner |-> r.owner, gen |-> r.gen]]

CancelRequested(r) ==
  CASE IsTerminal(r)  -> r
    [] NeverLeased(r) -> Cancelled(r)
    [] OTHER          -> Revoked(r)

\* Mutant: any death proof of the job will do.
AnyProofSettlesCancel(r, g) == r.cancelling /\ r.owner = 0

\* consume_orphan_death_proof: the proof must name the lease the cancellation
\* revoked, and nothing may have moved the row since.
ProofSettlesCancel(r, g) ==
  /\ r.cancelling
  /\ r.owner = 0
  /\ r.gen = g + 1
  /\ r.target = [owner |-> g, gen |-> g]
-------------------------------------------------------------------------------
Targets(r, g) == r.reap.owner = g /\ r.reap.gen = g

\* authorize_orphan_reap, first branch: the fence is there, still live, and the
\* same controller asks again for the same target.
ReapJoins(r, g, c) ==
  /\ Fenced(r)
  /\ r.reap.live
  /\ Targets(r, g)
  /\ r.reap.controller = c

\* Mutant: an expired fence is taken over for any earlier lease.
ReapRetargets(r, g) == Fenced(r) /\ ~r.reap.live /\ r.gen > g

\* ... second branch: an expired fence is taken over for the same target.
ReapTakesOver(r, g) ==
  /\ Fenced(r)
  /\ ~r.reap.live
  /\ Targets(r, g)
  /\ r.gen = g + 1

\* The lease may not be live, unless a cancellation already revoked it.  After
\* a takeover the row has no owner, so the test cannot fail there.
LeaseAllowsReap(r, g) == ~(r.owner = g /\ r.live /\ ~r.cancelling)

\* ... third branch: a new fence over an exact or a cancelled generation.
CancelledGeneration(r, g) == r.cancelling /\ r.gen = g + 1

ReapStarts(r, g) ==
  /\ ~Fenced(r)
  /\ r.gen = g \/ CancelledGeneration(r, g)
  /\ r.owner \in {g, 0}
  /\ LeaseAllowsReap(r, g)

\* Mutant: the fence leaves the generation, and so the owner's tests, as they are.
ReapAuthorizedInPlace(r, g, c) ==
  [r EXCEPT !.rev = @ + 1, !.live = FALSE,
            !.reap = [token |-> r.rev + 1, owner |-> g, gen |-> g,
                      controller |-> c, live |-> TRUE, proof |-> r.reap.proof]]

\* reap_proof_* of an earlier reaper survive a takeover: same target.
ReapAuthorized(r, g, c) ==
  [r EXCEPT !.rev = @ + 1,
            !.gen = IF Fenced(r) \/ CancelledGeneration(r, g) THEN @ ELSE @ + 1,
            !.owner = 0,
            !.live = FALSE,
            !.reap = [token |-> r.rev + 1, owner |-> g, gen |-> g,
                      controller |-> c, live |-> TRUE, proof |-> r.reap.proof]]

\* quarantine_orphan_identity: fences whatever lease the row carries.
Quarantinable(r) ==
  /\ ~Fenced(r)
  /\ r.state # "absent"
  /\ ~IsTerminal(r)
  /\ ~r.live
  /\ r.owner # 0
  /\ r.gen >= 1

ReapQuarantined(r, c) ==
  [r EXCEPT !.rev = @ + 1, !.gen = @ + 1, !.owner = 0, !.live = FALSE,
            !.reap = [token |-> r.rev + 1, owner |-> r.owner, gen |-> r.gen,
                      controller |-> c, live |-> TRUE, proof |-> r.reap.proof]]

\* record_orphan_reap_proof does not ask that the fence be unexpired.
ProofRecordable(r, g, token) == Fenced(r) /\ r.reap.token = token /\ Targets(r, g)
ProofRecorded(r, kind)       == [r EXCEPT !.reap.proof = kind]

\* complete_orphan_reap: only with a recorded proof.
ReapCompletable(r, g, token) ==
  ProofRecordable(r, g, token) /\ r.reap.proof # "none"

\* consume_expired_orphan_reap_proof: the same, for a reaper that died in between.
ExpiredProofConsumable(r) ==
  /\ Fenced(r)
  /\ ~r.reap.live
  /\ r.reap.proof # "none"
  /\ r.reap.owner # 0
  /\ r.reap.gen # 0

\* Mutant: the proof columns are not cleared with the fence.
UnfencedKeepingProof(r) ==
  [r EXCEPT !.reap = [NoReap EXCEPT !.proof = r.reap.proof]]

Unfenced(r) == [r EXCEPT !.reap = NoReap]
===============================================================================
