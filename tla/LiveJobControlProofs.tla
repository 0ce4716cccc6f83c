------------------------- MODULE LiveJobControlProofs -------------------------
(***************************************************************************)
(* What LiveJobControl promises, proved for every set of registries and    *)
(* every bound, whether or not processes stall and kills hang.             *)
(*                                                                         *)
(* The argument has two layers.  First, every step is a transaction of     *)
(* LiveJobStore or leaves the row alone (StepIsTransaction), so whatever   *)
(* LiveJobStoreProofs proves of the store's steps holds of the registries' *)
(* too: the row keeps StoreP!StoreInv, its generation and its revision     *)
(* never fall, a lease is always under the row's own generation.  Second,  *)
(* ControlInv ties the row to what the processes remember.  A generation   *)
(* is granted to one registry only.  Another may go by it, because it      *)
(* reads the generation after its own claim; but its copy of the snapshot  *)
(* is then behind the row, so it starts no worker before the job has       *)
(* ended.  Until then a generation has one worker at most, and evidence of *)
(* its death stays true however late it is used.                           *)
(***************************************************************************)
EXTENDS LiveJobControl, TLAPS

StoreP == INSTANCE LiveJobStoreProofs
            WITH MaxRev <- MaxRev + 1, Controllers <- Registries, Pairs <- {},
                 Digests <- {}, stored <- <<>>

Gens == 1..MaxGen

\* A transaction that raises the bounded columns asks for room first; only the
\* outcome of a job may take the revision one further.
RowInBounds ==
  /\ row.gen <= MaxGen
  /\ row.reap.token <= MaxRev
  /\ ~IsTerminal(row) => row.rev <= MaxRev

\* A process that died keeps nothing.
DeadIsBlank ==
  \A r \in Registries : ~up[r] => rt[r] = NoRuntime /\ sweep[r] = NoSweep

\* A registry that has not started the job knows no lease of it.
Unleased(r) == rt[r].pc \in {"none", "created"}

\* A record says so: it is blank before its lease, and names one from then on.  A
\* sweep claims for a registry without a record only.
RecordsNameLeases ==
  \A r \in Registries :
    /\ Unleased(r) => rt[r] = [NoRuntime EXCEPT !.pc = rt[r].pc]
    /\ ~Unleased(r) => rt[r].gen # 0
    /\ rt[r].gen <= row.gen
    /\ rt[r].pc = "claimed" => rt[r].own /\ rt[r].hb = "off"
    /\ rt[r].pc \in {"stopping", "settling"} => rt[r].want \in Terminal
    /\ sweep[r].pc \in {"claim", "identify"} =>
         rt[r].pc = "none" /\ row.state # "absent"
    /\ sweep[r].pc = "identify" => sweep[r].gen \in Gens /\ sweep[r].gen <= row.gen

\* The states of a record that has no worker yet.
Unspawned == {"none", "created", "claimed", "admitted", "intent"}

\* A registry's worker goes by the lease that the registry's record names, and is
\* there before the record says so.
WorkersNameLeases ==
  \A r \in Registries :
    /\ worker[r].st = "none" <=> worker[r].gen = 0
    /\ worker[r].gen <= row.gen
    /\ up[r] => worker[r].gen \in {0, rt[r].gen}
    /\ up[r] /\ rt[r].pc \in Unspawned => worker[r].gen = 0
    /\ rt[r].ident # "none" => worker[r].gen # 0

\* A registry that has claimed and not yet read the generation back; the lease its
\* claim was granted, 0 if none or if it went by another; its copy of the snapshot.
Reading(r) == rt[r].pc = "claimed" \/ sweep[r].pc = "identify"
Grant(r)   == IF rt[r].own THEN rt[r].gen
              ELSE IF sweep[r].pc = "identify" THEN sweep[r].gen ELSE 0
Copy(r)    == IF sweep[r].pc = "identify" THEN sweep[r].token ELSE rt[r].rev

\* A generation is granted to one registry, and as long as the job goes on only
\* that one spawns a worker for it.
GrantsUnique ==
  \A r, s \in Registries : r # s =>
    /\ Grant(r) # 0 => Grant(r) # Grant(s)
    /\ worker[r].gen # 0 /\ ~IsTerminal(row) =>
         worker[r].gen # worker[s].gen /\ worker[r].gen # Grant(s)

\* A registry that goes by another's lease waits for the end of the job.
Foreign(r) == rt[r].gen # 0 /\ ~rt[r].own

ForeignWaits ==
  \A r \in Registries : Foreign(r) /\ ~IsTerminal(row) =>
    rt[r].pc \in {"admitted", "settling", "stuck"} /\ worker[r].gen = 0

\* The lease of the row has a worker, or its holder is about to spawn it.
Started ==
  \E s \in Registries :
    \/ worker[s].gen = row.gen /\ row.gen # 0
    \/ rt[s].own /\ rt[s].gen = row.gen /\ rt[s].pc = "intent"
Lead == IF Started THEN 1 ELSE 0

\* It waits because its copy is behind the row: by the claim that it did not see
\* and, once the worker was started, by the revision that was published then.
CopiesAreBehind ==
  ~IsTerminal(row) =>
    \A r \in Registries :
      /\ Reading(r) /\ Grant(r) = row.gen => row.rev >= Copy(r)
      /\ Reading(r) /\ Grant(r) < row.gen => row.rev >= Copy(r) + 1 + Lead
      /\ Foreign(r) /\ rt[r].gen = row.gen => row.rev >= rt[r].rev + Lead
      /\ Foreign(r) /\ rt[r].gen = row.gen /\ rt[r].pc = "admitted"
           => row.rev >= rt[r].rev + 1 + Lead

\* Without stalls a claim that is about to be read back is still what the row says,
\* unless a cancellation came between.
NoMisread ==
  ~Stalls /\ ~row.cancelling =>
    \A r \in Registries :
      /\ rt[r].gen # 0 => rt[r].own
      /\ Reading(r) => /\ row.gen = Grant(r)
                       /\ row.owner = Grant(r)
                       /\ row.live
      /\ sweep[r].pc = "identify" => sweep[r].fresh

\* _finish runs after the end of the worker has been confirmed.
SettlingIsStopped ==
  \A r \in Registries : rt[r].pc = "settling" => ~Running(r)

\* A marker names a lease and the registry whose worker, there or to come, goes by it.
MarkerNamesWorker ==
  marker.kind # "none" =>
    /\ marker.gen # 0
    /\ marker.by \in Registries
    /\ worker[marker.by].gen \in {0, marker.gen}
    /\ worker[marker.by].gen = 0 =>
         /\ marker.kind = "intent"
         /\ up[marker.by] =>
              /\ rt[marker.by].gen = marker.gen
              /\ rt[marker.by].pc \notin {"none", "created", "claimed", "admitted"}

Fencing == {"authorize", "kill", "record", "complete", "finish"}
Proving == {"record", "complete", "finish"}
OnOwnRecord == {"next", "now", "merged"}

\* A worker of the lease was spawned and has ended.
HasDied(g) == \E r \in Registries : worker[r].gen = g /\ Gone(r)

\* A sweep that fences names a lease and, unless nothing was spawned, its worker; an
\* own record is one whose worker was spawned.
SweepNamesLease ==
  \A r \in Registries :
    /\ sweep[r].pc \in Fencing => sweep[r].gen # 0 /\ sweep[r].kind # "none"
    /\ sweep[r].pc \in Fencing /\ sweep[r].kind = "worker_death" =>
         sweep[r].by \in Registries /\ worker[sweep[r].by].gen = sweep[r].gen
    /\ sweep[r].pc = "kill" => sweep[r].kind = "worker_death"
    /\ sweep[r].pc = "ack" => sweep[r].known # 0
    /\ sweep[r].own \in OnOwnRecord => worker[r].gen = rt[r].gen /\ rt[r].gen # 0

\* From the kill to the end of the fence, the worker a sweep proves dead is gone.
SweepHasEvidence ==
  \A r \in Registries :
    sweep[r].pc \in Proving /\ sweep[r].kind = "worker_death"
      => HasDied(sweep[r].gen)

\* Whatever names a death, on disk, in memory or on the row, names one that happened.
DeathsHappened ==
  /\ deathProof # 0 => HasDied(deathProof)
  /\ \A r \in Registries : sweep[r].known # 0 => HasDied(sweep[r].known)
  /\ row.reap.proof = "worker_death" => row.reap.gen # 0 /\ HasDied(row.reap.gen)

\* The inductive invariant.
ControlInv ==
  /\ TypeOK
  /\ StoreP!StoreInv
  /\ RowInBounds
  /\ DeadIsBlank
  /\ RecordsNameLeases
  /\ WorkersNameLeases
  /\ GrantsUnique
  /\ ForeignWaits
  /\ CopiesAreBehind
  /\ NoMisread
  /\ SettlingIsStopped
  /\ MarkerNamesWorker
  /\ SweepNamesLease
  /\ SweepHasEvidence
  /\ DeathsHappened
  /\ ReapedLeaseStaysRevoked
-------------------------------------------------------------------------------
(* The row.  RowSound says in LiveJobRow's words what StoreP!StoreInv says  *)
(* in the instance's.                                                      *)

RowSound ==
  /\ row \in RowType(Registries)
  /\ row.owner \in {0, row.gen}
  /\ ~Fenced(row) => row.reap = NoReap
  /\ row.state \in {"absent", "queued"} =>
       row.gen = 0 /\ row.owner = 0 /\ ~row.cancelling
  /\ row.state = "absent" => row.rev = 0
  /\ Fenced(row) => row.owner = 0 /\ ~row.live /\ row.reap.gen < row.gen

\* The assumption of the store holds of the store the registries use.
LEMMA StoreAssumptionHolds == StoreP!StoreAssumption
BY ControlAssumption DEF StoreP!StoreAssumption

\* The store's invariant gives the facts about the row that are used below.
LEMMA RowIsSound == StoreP!StoreInv => RowSound
BY DEF RowSound, RowType, States, Terminal, ProofKinds, Fenced, NoReap,
       StoreP!StoreInv, StoreP!TypeOK, StoreP!RowType, StoreP!States,
       StoreP!Terminal, StoreP!ProofKinds, StoreP!OwnerIsCurrent,
       StoreP!NoFenceNoTrace, StoreP!Fenced, StoreP!NoReap,
       StoreP!UnclaimedIsBare, StoreP!NoTarget, StoreP!FenceExcludesLease

\* The columns of a sound row.
LEMMA RowColumns ==
  ASSUME RowSound
  PROVE  /\ row.state \in States
         /\ row.rev \in Nat
         /\ row.gen \in Nat
         /\ row.owner \in Nat
         /\ row.live \in BOOLEAN
         /\ row.cancelling \in BOOLEAN
         /\ row.reap.token \in Nat
         /\ row.reap.gen \in Nat
         /\ row.reap.proof \in ProofKinds
BY DEF RowSound, RowType

\* create_or_get as the registries call it.
LEMMA CreateTx ==
  ASSUME RowSound, RowInBounds, row.state = "absent", RevRoom,
         row' = Created(row)
  PROVE  Store!Next /\ RowInBounds'
<1>1. Store!Create
  BY RowColumns, ControlAssumption
     DEF Store!Create, Store!Exists, Store!RevRoom, RevRoom, Store!Write,
         Store!Created, Created
<1>2. RowInBounds'
  BY RowColumns, ControlAssumption
     DEF RowInBounds, RowSound, RowType, RevRoom, Created, IsTerminal
<1>3. QED
  BY <1>1, <1>2 DEF Store!Next

\* claim, from the admission of a new job or from the recovery sweep.
LEMMA ClaimTx ==
  ASSUME RowSound, RowInBounds, Claimable(row), RevRoom, GenRoom,
         row' = Claimed(row)
  PROVE  Store!Next /\ RowInBounds'
<1>1. Store!Claim
  BY RowColumns, ControlAssumption
     DEF Store!Claim, Store!Claimable, Claimable, Store!Recoverable, Recoverable,
         Store!RevRoom, RevRoom, Store!GenRoom, GenRoom, Store!Write,
         Store!Claimed, Claimed, Store!Fenced, Fenced
<1>2. RowInBounds'
  BY RowColumns, ControlAssumption
     DEF RowInBounds, RowSound, RowType, RevRoom, GenRoom, Claimed, IsTerminal
<1>3. QED
  BY <1>1, <1>2 DEF Store!Next

\* renew_lease by the heartbeat of the lease's generation.
LEMMA RenewTx ==
  ASSUME RowSound, RowInBounds, NEW g \in Gens, Renewable(row, g),
         row' = Renewed(row)
  PROVE  Store!Next /\ RowInBounds'
<1>1. Store!Renew(g)
  BY DEF Store!Renew, Store!Renewable, Renewable, Store!Holds, Holds, Store!Write,
         Store!Renewed, Renewed
<1>2. RowInBounds'
  BY DEF RowInBounds, RowSound, RowType, Renewed, IsTerminal
<1>3. QED
  BY <1>1, <1>2 DEF Store!Next, Store!HolderStep, Store!Gens, Gens

\* release_lease by a process that suspends.
LEMMA ReleaseTx ==
  ASSUME RowSound, RowInBounds, NEW g \in Gens, Holds(row, g),
         row' = Released(row)
  PROVE  Store!Next /\ RowInBounds'
<1>1. Store!Release(g)
  BY DEF Store!Release, Store!Holds, Holds, Store!Write, Store!Released, Released
<1>2. RowInBounds'
  BY DEF RowInBounds, RowSound, RowType, Released, IsTerminal
<1>3. QED
  BY <1>1, <1>2 DEF Store!Next, Store!HolderStep, Store!Gens, Gens

\* replace_snapshot with the revision of the caller's copy.
LEMMA PublishTx ==
  ASSUME RowSound, RowInBounds, NEW g \in Gens,
         NEW s \in Terminal \cup {"running"}, NEW n \in 1..(MaxRev + 1),
         Publishable(row, g, n), s = "running" => n <= MaxRev,
         row' = Published(row, s, n)
  PROVE  Store!Next /\ RowInBounds'
<1>1. row.state # "absent" /\ ~IsTerminal(row)
  BY DEF RowSound, RowType, Publishable, Holds, Gens
<1>3. Store!Publish(g, s, n)
  BY <1>1
     DEF Store!Publish, Store!Exists, Store!Publishable, Publishable,
         Store!IsTerminal, IsTerminal, Store!Terminal, Terminal, Store!Holds,
         Holds, Store!Write, Store!Published, Published
<1>4. RowInBounds'
  BY <1>1, ControlAssumption
     DEF RowInBounds, RowSound, RowType, Published, IsTerminal, Terminal
<1>5. s \in Store!Terminal \cup {"running"}
  BY DEF Store!Terminal, Terminal
<1>6. Store!HolderStep(g)
  BY <1>3, <1>5 DEF Store!HolderStep
<1>7. QED
  BY <1>4, <1>6 DEF Store!Next, Store!Gens, Gens

\* cancel of a row that has not ended, by the acknowledgement of a heartbeat; a row
\* that has ended is returned as it is.
LEMMA CancelTx ==
  ASSUME RowSound, RowInBounds, row.state # "absent", row' = Cancelled(row)
  PROVE  (row' = row \/ Store!Next) /\ RowInBounds'
<1>1. CASE IsTerminal(row)
  <2>1. row' = row
    BY <1>1 DEF Cancelled
  <2>2. QED
    BY <2>1 DEF RowInBounds, IsTerminal
<1>2. CASE ~IsTerminal(row)
  <2>1. row.rev \in Nat /\ row.rev <= MaxRev
    BY <1>2, RowColumns DEF RowInBounds
  <2>2. Store!Cancel
    BY <1>2, <2>1, ControlAssumption
       DEF Store!Cancel, Store!Exists, Store!IsTerminal, IsTerminal,
           Store!Terminal, Terminal, Store!RevRoom, Store!Write,
           Store!Cancelled, Cancelled
  <2>3. row' = [row EXCEPT !.state = "cancelled", !.rev = @ + 1]
    BY <1>2 DEF Cancelled
  <2>4. RowInBounds'
    BY <2>3 DEF RowInBounds, RowSound, RowType, IsTerminal, Terminal
  <2>5. QED
    BY <2>2, <2>4 DEF Store!Next
<1>3. QED
  BY <1>1, <1>2

\* request_cancel through a registry that does not run the job.
LEMMA RequestCancelTx ==
  ASSUME RowSound, RowInBounds, row.state # "absent", ~IsTerminal(row),
         RevRoom, GenRoom, row' = CancelRequested(row)
  PROVE  Store!Next /\ RowInBounds'
<1>1. row.rev \in Nat /\ row.gen \in Nat
  BY RowColumns
<1>2. Store!RevRoom /\ Store!GenRoom
  BY <1>1, ControlAssumption DEF Store!RevRoom, Store!GenRoom, RevRoom, GenRoom
<1>3. Store!RequestCancel
  BY <1>2
     DEF Store!RequestCancel, Store!Exists, Store!IsTerminal, IsTerminal,
         Store!Terminal, Terminal, Store!Write, Store!CancelRequested,
         CancelRequested, Store!NeverLeased, NeverLeased, Store!NoTarget,
         NoTarget, Store!Cancelled, Cancelled, Store!Revoked, Revoked
<1>4. RowInBounds'
  <2>1. CASE row' = Cancelled(row)
    BY <2>1, CancelTx
  <2>2. CASE row' = Revoked(row)
    BY <1>1, <2>2, ControlAssumption
       DEF RowInBounds, RowSound, RowType, Revoked, IsTerminal, RevRoom, GenRoom
  <2>3. QED
    BY <2>1, <2>2 DEF CancelRequested
<1>5. QED
  BY <1>3, <1>4 DEF Store!Next

\* consume_orphan_death_proof by a recovery sweep.
LEMMA ConsumeDeathProofTx ==
  ASSUME RowSound, RowInBounds, NEW g \in Gens, ProofSettlesCancel(row, g),
         row' = Cancelled(row)
  PROVE  (row' = row \/ Store!Next) /\ RowInBounds'
<1>1. row.state # "absent"
  BY DEF RowSound, ProofSettlesCancel
<1>2. QED
  BY <1>1, CancelTx

\* authorize_orphan_reap, when it takes a fence.
LEMMA AuthorizeTx ==
  ASSUME RowSound, RowInBounds, NEW g \in Gens, NEW r \in Registries,
         ReapTakesOver(row, g) \/ ReapStarts(row, g), RevRoom, GenRoom,
         row' = ReapAuthorized(row, g, r)
  PROVE  Store!Next /\ RowInBounds'
<1>1. row.rev \in Nat /\ row.gen \in Nat
  BY RowColumns
<1>2. Store!RevRoom /\ Store!GenRoom
  BY <1>1, ControlAssumption DEF Store!RevRoom, Store!GenRoom, RevRoom, GenRoom
<1>3. Store!ReapTakesOver(row, g) \/ Store!ReapStarts(row, g)
  BY DEF Store!ReapTakesOver, ReapTakesOver, Store!ReapStarts, ReapStarts,
         Store!Fenced, Fenced, Store!Targets, Targets, Store!LeaseAllowsReap,
         LeaseAllowsReap, Store!CancelledGeneration, CancelledGeneration
<1>4. row' = Store!ReapAuthorized(row, g, r)
  BY DEF Store!ReapAuthorized, ReapAuthorized, Store!Fenced, Fenced,
         Store!CancelledGeneration, CancelledGeneration
<1>5. Store!Authorize(g, r)
  BY <1>2, <1>3, <1>4 DEF Store!Authorize, Store!Write
<1>6. /\ row'.state = row.state
      /\ row'.rev = row.rev + 1
      /\ row'.gen \in {row.gen, row.gen + 1}
      /\ row'.reap.token = row.rev + 1
  BY DEF RowSound, RowType, ReapAuthorized
<1>7. RowInBounds'
  BY <1>1, <1>6, ControlAssumption DEF RowInBounds, RevRoom, GenRoom, IsTerminal
<1>8. QED
  BY <1>5, <1>7 DEF Store!Next, Store!ReaperStep, Store!Gens, Gens

\* quarantine_orphan_identity.
LEMMA QuarantineTx ==
  ASSUME RowSound, RowInBounds, NEW r \in Registries, Quarantinable(row),
         RevRoom, GenRoom, row' = ReapQuarantined(row, r)
  PROVE  Store!Next /\ RowInBounds'
<1>1. row.rev \in Nat /\ row.gen \in Nat
  BY RowColumns
<1>2. Store!RevRoom /\ Store!GenRoom
  BY <1>1, ControlAssumption DEF Store!RevRoom, Store!GenRoom, RevRoom, GenRoom
<1>3. Store!Quarantine(r)
  BY <1>2
     DEF Store!Quarantine, Store!Quarantinable, Quarantinable, Store!Fenced,
         Fenced, Store!IsTerminal, IsTerminal, Store!Terminal, Terminal,
         Store!Write, Store!ReapQuarantined, ReapQuarantined
<1>4. /\ row'.state = row.state
      /\ row'.rev = row.rev + 1
      /\ row'.gen = row.gen + 1
      /\ row'.reap.token = row.rev + 1
  BY DEF RowSound, RowType, ReapQuarantined
<1>5. RowInBounds'
  BY <1>1, <1>4, ControlAssumption DEF RowInBounds, RevRoom, GenRoom, IsTerminal
<1>6. QED
  BY <1>3, <1>5 DEF Store!Next

\* record_orphan_reap_proof.
LEMMA RecordProofTx ==
  ASSUME RowSound, RowInBounds, NEW g \in Gens, NEW t \in Nat,
         NEW k \in ProofKinds \ {"none"}, ProofRecordable(row, g, t),
         row' = ProofRecorded(row, k)
  PROVE  Store!Next /\ RowInBounds'
<1>1. t \in 1..(MaxRev + 1)
  BY ControlAssumption DEF RowInBounds, ProofRecordable, Fenced
<1>2. Store!RecordProof(g, t, k)
  BY DEF Store!RecordProof, Store!ProofRecordable, ProofRecordable, Store!Fenced,
         Fenced, Store!Targets, Targets, Store!Write, Store!ProofRecorded,
         ProofRecorded
<1>3. Store!ReaperStep(g)
  BY <1>1, <1>2 DEF Store!ReaperStep, Store!ProofKinds, ProofKinds
<1>4. RowInBounds'
  BY DEF RowInBounds, RowSound, RowType, ProofRecorded, IsTerminal
<1>5. QED
  BY <1>3, <1>4 DEF Store!Next, Store!Gens, Gens

\* Dropping the fence keeps the bounds.
LEMMA UnfencedInBounds ==
  ASSUME RowSound, RowInBounds, row' = Unfenced(row)
  PROVE  RowInBounds'
BY ControlAssumption
   DEF RowInBounds, RowSound, RowType, Unfenced, NoReap, IsTerminal

\* complete_orphan_reap.
LEMMA CompleteReapTx ==
  ASSUME RowSound, RowInBounds, NEW g \in Gens, NEW t \in Nat,
         ReapCompletable(row, g, t), row' = Unfenced(row)
  PROVE  Store!Next /\ RowInBounds'
<1>1. t \in 1..(MaxRev + 1)
  BY ControlAssumption DEF RowInBounds, ReapCompletable, ProofRecordable, Fenced
<1>2. Store!CompleteReap(g, t)
  BY DEF Store!CompleteReap, Store!ReapCompletable, ReapCompletable,
         Store!ProofRecordable, ProofRecordable, Store!Fenced, Fenced,
         Store!Targets, Targets, Store!Write, Store!Unfenced, Unfenced,
         Store!NoReap, NoReap
<1>3. Store!ReaperStep(g)
  BY <1>1, <1>2 DEF Store!ReaperStep
<1>4. QED
  BY <1>3, UnfencedInBounds DEF Store!Next, Store!Gens, Gens

\* consume_expired_orphan_reap_proof.
LEMMA ConsumeExpiredTx ==
  ASSUME RowSound, RowInBounds, ExpiredProofConsumable(row),
         row' = Unfenced(row)
  PROVE  Store!Next /\ RowInBounds'
<1>1. Store!ConsumeExpiredProof
  BY DEF Store!ConsumeExpiredProof, Store!ExpiredProofConsumable,
         ExpiredProofConsumable, Store!Fenced, Fenced, Store!Write,
         Store!Unfenced, Unfenced, Store!NoReap, NoReap
<1>2. QED
  BY <1>1, UnfencedInBounds DEF Store!Next

\* The deadline of the lease or of the fence passes.
LEMMA ExpiryTx ==
  ASSUME RowSound, RowInBounds, LeaseExpires \/ ReapExpires
  PROVE  Store!Next /\ RowInBounds'
<1>1. CASE LeaseExpires
  <2>1. Store!LeaseExpires
    BY <1>1 DEF LeaseExpires, Store!LeaseExpires, Store!Write
  <2>2. RowInBounds'
    BY <1>1 DEF LeaseExpires, RowInBounds, RowSound, RowType, IsTerminal
  <2>3. QED
    BY <2>1, <2>2 DEF Store!Next
<1>2. CASE ReapExpires
  <2>1. Store!ReapExpires
    BY <1>2 DEF ReapExpires, Store!ReapExpires, Store!Write
  <2>2. RowInBounds'
    BY <1>2 DEF ReapExpires, RowInBounds, RowSound, RowType, IsTerminal
  <2>3. QED
    BY <2>1, <2>2 DEF Store!Next
<1>3. QED
  BY <1>1, <1>2
-------------------------------------------------------------------------------
(* The steps of the registries on the row. *)

RuntimeRecord ==
  [pc : RuntimePcs, gen : 0..MaxGen, own : BOOLEAN, rev : Nat,
   hb : {"off", "on", "acking"}, want : Terminal \cup {"none"},
   pending : BOOLEAN, quar : BOOLEAN,
   ident : {"none", "spawned", "authenticated"}]

SweepRecord ==
  [pc : SweepPcs, gen : 0..MaxGen, by : Registries \cup {Nobody},
   kind : ProofKinds, token : 0..MaxRev, receipt : BOOLEAN, known : 0..MaxGen,
   own : {"no", "merged", "later", "next", "now"}, fresh : BOOLEAN]

WorkerRecord ==
  [st : {"none", "booting", "alive", "exited", "killed"}, gen : 0..MaxGen]

\* The variables that are functions of the registries.
LEMMA Records ==
  ASSUME ControlInv
  PROVE  /\ rt \in [Registries -> RuntimeRecord]
         /\ sweep \in [Registries -> SweepRecord]
         /\ worker \in [Registries -> WorkerRecord]
         /\ up \in [Registries -> BOOLEAN]
BY DEF ControlInv, TypeOK, RuntimeRecord, SweepRecord, WorkerRecord

\* The fields of a registry's record of the job.
LEMMA RecordFields ==
  ASSUME ControlInv, NEW r \in Registries
  PROVE  /\ rt[r] \in RuntimeRecord
         /\ rt[r].pc \in RuntimePcs
         /\ rt[r].gen \in 0..MaxGen
         /\ rt[r].gen \in Nat
         /\ rt[r].own \in BOOLEAN
         /\ rt[r].rev \in Nat
         /\ rt[r].hb \in {"off", "on", "acking"}
         /\ rt[r].want \in Terminal \cup {"none"}
         /\ rt[r].pending \in BOOLEAN
         /\ rt[r].quar \in BOOLEAN
         /\ rt[r].ident \in {"none", "spawned", "authenticated"}
<1>1. rt[r] \in RuntimeRecord
  BY Records
<1>2. QED
  BY <1>1, ControlAssumption DEF RuntimeRecord

\* The fields of a registry's sweep.
LEMMA SweepFields ==
  ASSUME ControlInv, NEW r \in Registries
  PROVE  /\ sweep[r] \in SweepRecord
         /\ sweep[r].pc \in SweepPcs
         /\ sweep[r].gen \in 0..MaxGen
         /\ sweep[r].gen \in Nat
         /\ sweep[r].by \in Registries \cup {Nobody}
         /\ sweep[r].kind \in ProofKinds
         /\ sweep[r].token \in 0..MaxRev
         /\ sweep[r].token \in Nat
         /\ sweep[r].receipt \in BOOLEAN
         /\ sweep[r].known \in 0..MaxGen
         /\ sweep[r].own \in {"no", "merged", "later", "next", "now"}
         /\ sweep[r].fresh \in BOOLEAN
<1>1. sweep[r] \in SweepRecord
  BY Records
<1>2. QED
  BY <1>1, ControlAssumption DEF SweepRecord

\* The fields of a registry's worker.
LEMMA WorkerFields ==
  ASSUME ControlInv, NEW r \in Registries
  PROVE  /\ worker[r] \in WorkerRecord
         /\ worker[r].st \in {"none", "booting", "alive", "exited", "killed"}
         /\ worker[r].gen \in 0..MaxGen
         /\ worker[r].gen \in Nat
<1>1. worker[r] \in WorkerRecord
  BY Records
<1>2. QED
  BY <1>1, ControlAssumption DEF WorkerRecord

\* The columns of the row, in every state the invariant describes.
LEMMA RowFields ==
  ASSUME ControlInv
  PROVE  /\ RowSound
         /\ RowInBounds
         /\ row \in RowType(Registries)
         /\ row.state \in States
         /\ row.rev \in Nat
         /\ row.gen \in Nat
         /\ row.gen <= MaxGen
         /\ row.owner \in {0, row.gen}
         /\ row.live \in BOOLEAN
         /\ row.cancelling \in BOOLEAN
         /\ row.reap.token \in 0..MaxRev
         /\ row.reap.gen \in Nat
         /\ row.reap.proof \in ProofKinds
<1>1. RowSound /\ RowInBounds
  BY RowIsSound DEF ControlInv
<1>2. QED
  BY <1>1, RowColumns, ControlAssumption DEF RowInBounds, RowSound

\* A registry that is past its admission has a record under a lease generation that
\* the row has seen.
LEMMA LeasedGen ==
  ASSUME ControlInv, NEW r \in Registries, rt[r].pc \notin {"none", "created"}
  PROVE  /\ rt[r].gen \in Gens
         /\ rt[r].gen <= row.gen
         /\ row.state # "absent"
<1>1. rt[r].gen \in 0..MaxGen /\ rt[r].gen # 0 /\ rt[r].gen <= row.gen
  BY RecordFields DEF ControlInv, RecordsNameLeases, Unleased
<1>2. rt[r].gen \in Gens /\ row.gen # 0
  BY <1>1, ControlAssumption, RowFields DEF Gens
<1>3. QED
  BY <1>1, <1>2, RowFields DEF RowSound

\* A heartbeat that has not ended, or a worker that is named, belongs to such a
\* record; and so does a generation.
LEMMA RecordIsLeased ==
  ASSUME ControlInv, NEW r \in Registries,
         rt[r].hb # "off" \/ rt[r].ident # "none" \/ rt[r].gen # 0
  PROVE  ~Unleased(r)
BY DEF ControlInv, RecordsNameLeases, Unleased, NoRuntime

\* A sweep that is on a candidate names one generation.
LEMMA FencingGen ==
  ASSUME ControlInv, NEW r \in Registries, sweep[r].pc \in Fencing
  PROVE  /\ sweep[r].gen \in Gens
         /\ sweep[r].kind \in ProofKinds \ {"none"}
         /\ sweep[r].token \in Nat
BY SweepFields, ControlAssumption DEF ControlInv, SweepNamesLease, Gens

\* The lease a registry was granted is one the row has seen.
LEMMA GrantGen ==
  ASSUME ControlInv, NEW r \in Registries
  PROVE  /\ Grant(r) \in Nat
         /\ Grant(r) <= row.gen
         /\ Reading(r) => Grant(r) # 0 /\ Copy(r) \in Nat
<1>1. rt[r].gen <= row.gen /\ (sweep[r].pc = "identify" =>
        sweep[r].gen <= row.gen /\ sweep[r].gen \in Gens /\ rt[r].pc = "none")
  BY DEF ControlInv, RecordsNameLeases
<1>2. Grant(r) \in Nat /\ Grant(r) <= row.gen
  BY <1>1, RecordFields, SweepFields, RowFields DEF Grant
<1>3. CASE rt[r].pc = "claimed"
  BY <1>2, <1>3, RecordFields, SweepFields
     DEF Grant, Copy, ControlInv, RecordsNameLeases, Unleased
<1>4. CASE sweep[r].pc = "identify"
  <2>1. rt[r] = NoRuntime
    BY <1>1, <1>4 DEF ControlInv, RecordsNameLeases, Unleased, NoRuntime
  <2>2. QED
    BY <1>1, <1>2, <1>4, <2>1, SweepFields, ControlAssumption
       DEF Grant, Copy, Gens, NoRuntime
<1>5. QED
  BY <1>2, <1>3, <1>4 DEF Reading

\* While the job goes on, a registry that goes by another's lease cannot publish that
\* it is running; and a revision that a record publishes is in bounds.
LEMMA ForeignCannotStart ==
  ASSUME ControlInv, NEW r \in Registries, CanPublish(r),
         rt[r].pc = "admitted"
  PROVE  rt[r].own
<1> SUFFICES ASSUME ~rt[r].own
             PROVE  FALSE
  BY RecordFields
<1>1. /\ ~IsTerminal(row)
      /\ row.gen = rt[r].gen
      /\ rt[r].rev + 1 > row.rev
  BY DEF CanPublish, Publishable, Holds, NextRev
<1>2. rt[r].gen # 0
  BY LeasedGen, ControlAssumption DEF Gens
<1>3. row.rev >= rt[r].rev + 1 + Lead /\ Lead \in {0, 1}
  BY <1>1, <1>2 DEF ControlInv, CopiesAreBehind, Foreign, Lead
<1>4. QED
  BY <1>1, <1>3, RecordFields, RowFields

LEMMA NextRevInBounds ==
  ASSUME ControlInv, NEW r \in Registries, CanPublish(r), ~Unleased(r)
  PROVE  NextRev(r) \in 1..(MaxRev + 1)
<1>1. /\ ~IsTerminal(row)
      /\ row.gen = rt[r].gen
      /\ NextRev(r) > row.rev
  BY DEF CanPublish, Publishable, Holds
<1>2. row.rev <= MaxRev
  BY <1>1, RowFields DEF RowInBounds
<1>3. CASE rt[r].own
  BY <1>2, <1>3, RowFields, ControlAssumption DEF NextRev
<1>4. CASE ~rt[r].own
  <2>1. rt[r].gen # 0
    BY DEF ControlInv, RecordsNameLeases
  <2>2. row.rev >= rt[r].rev + Lead /\ Lead \in {0, 1}
    BY <1>1, <1>4, <2>1 DEF ControlInv, CopiesAreBehind, Foreign, Lead
  <2>3. QED
    BY <1>2, <1>4, <2>2, RecordFields, RowFields, ControlAssumption DEF NextRev
<1>5. QED
  BY <1>3, <1>4, RecordFields

RowKept == (row' = row \/ Store!Next) /\ RowInBounds'

\* A step of the process or of its runner is at most one transaction.
LEMMA RunnerIsTransaction ==
  ASSUME ControlInv, NEW r \in Registries, ProcessStep(r) \/ RunnerStep(r)
  PROVE  RowKept
<1>0. RowSound /\ RowInBounds
  BY RowFields
<1>1. CASE UNCHANGED row
  BY <1>0, <1>1 DEF RowKept, RowInBounds, IsTerminal
<1>2. CASE Suspend(r)
  <2>1. rt[r].gen \in Gens
    BY <1>2, LeasedGen DEF Suspend
  <2>2. CASE Holds(row, rt[r].gen) /\ row' = Released(row)
    BY <1>0, <2>1, <2>2, ReleaseTx DEF RowKept
  <2>3. QED
    BY <1>1, <1>2, <2>2 DEF Suspend
<1>3. CASE Create(r)
  BY <1>0, <1>3, CreateTx DEF Create, RowKept
<1>4. CASE AdmitNew(r)
  BY <1>0, <1>1, <1>4, ClaimTx DEF AdmitNew, RowKept
<1>5. CASE StartOperation(r)
  <2>1. rt[r].gen \in Gens
    BY <1>5, LeasedGen DEF StartOperation
  <2>2. CASE /\ CanPublish(r) /\ RevRoom
             /\ row' = Published(row, "running", NextRev(r))
    <3>1. rt[r].own
      BY <1>5, <2>2, ForeignCannotStart DEF StartOperation
    <3>2. NextRev(r) \in 1..(MaxRev + 1) /\ NextRev(r) <= MaxRev
      BY <2>2, <3>1, RowFields, ControlAssumption DEF NextRev, RevRoom
    <3>3. QED
      BY <1>0, <2>1, <2>2, <3>2, PublishTx DEF RowKept, CanPublish
  <2>3. QED
    BY <1>1, <1>5, <2>2 DEF StartOperation
<1>6. CASE Settle(r)
  <2>1. rt[r].gen \in Gens
    BY <1>6, LeasedGen DEF Settle
  <2>2. rt[r].want \in Terminal /\ rt[r].want # "running"
    BY <1>6 DEF Settle, ControlInv, RecordsNameLeases, Terminal
  <2>3. CASE /\ CanPublish(r)
             /\ row' = Published(row, rt[r].want, NextRev(r))
    <3>1. NextRev(r) \in 1..(MaxRev + 1)
      BY <1>6, <2>3, NextRevInBounds DEF Settle, Unleased
    <3>2. QED
      BY <1>0, <2>1, <2>2, <2>3, <3>1, PublishTx DEF RowKept, CanPublish
  <2>4. QED
    BY <1>1, <1>6, <2>3 DEF Settle
<1>7. CASE HbRenew(r)
  <2>1. rt[r].gen \in Gens
    BY <1>7, RecordIsLeased, LeasedGen DEF HbRenew, Beats, Unleased
  <2>2. QED
    BY <1>0, <1>7, <2>1, RenewTx DEF HbRenew, RowKept
<1>8. CASE HbAck(r)
  <2>1. row.state # "absent"
    BY <1>8, RecordIsLeased, LeasedGen DEF HbAck, Unleased
  <2>2. QED
    BY <1>0, <1>8, <2>1, CancelTx DEF HbAck, RowKept
<1>9. CASE RequestCancel(r)
  BY <1>0, <1>9, RequestCancelTx DEF RequestCancel, RowKept
<1>10. CASE Crash(r) \/ AdmitIdentity(r) \/ Spawn(r) \/ Collect(r) \/ LocalCancel(r) \/ Deadline(r)
              \/ HbLost(r) \/ HbCancel(r)
  BY <1>1, <1>10
     DEF Crash, AdmitIdentity, Spawn, Collect, LocalCancel, Deadline, StopFor,
         HbLost, HbCancel
<1>11. QED
  BY <1>2, <1>3, <1>4, <1>5, <1>6, <1>7, <1>8, <1>9, <1>10
     DEF ProcessStep, RunnerStep

\* A step of a recovery sweep is at most one transaction.
LEMMA SweepIsTransaction ==
  ASSUME ControlInv, NEW r \in Registries, SweepStep(r)
  PROVE  RowKept
<1>0. RowSound /\ RowInBounds
  BY RowFields
<1>1. CASE UNCHANGED row
  BY <1>0, <1>1 DEF RowKept, RowInBounds, IsTerminal
<1>2. CASE Authorize(r)
  <2>1. sweep[r].gen \in Gens
    BY <1>2, FencingGen DEF Authorize, Fencing
  <2>2. CASE /\ ReapTakesOver(row, sweep[r].gen) \/ ReapStarts(row, sweep[r].gen)
             /\ RevRoom /\ GenRoom
             /\ row' = ReapAuthorized(row, sweep[r].gen, r)
    BY <1>0, <2>1, <2>2, AuthorizeTx DEF RowKept
  <2>3. QED
    BY <1>1, <1>2, <2>2 DEF Authorize
<1>3. CASE Record(r)
  <2>1. /\ sweep[r].gen \in Gens
        /\ sweep[r].kind \in ProofKinds \ {"none"}
        /\ sweep[r].token \in Nat
    BY <1>3, FencingGen DEF Record, Fencing
  <2>2. CASE /\ ProofRecordable(row, sweep[r].gen, sweep[r].token)
             /\ row' = ProofRecorded(row, sweep[r].kind)
    BY <1>0, <2>1, <2>2, RecordProofTx DEF RowKept
  <2>3. QED
    BY <1>1, <1>3, <2>2 DEF Record
<1>4. CASE Complete(r)
  <2>1. sweep[r].gen \in Gens /\ sweep[r].token \in Nat
    BY <1>4, FencingGen DEF Complete, Fencing
  <2>2. CASE /\ ReapCompletable(row, sweep[r].gen, sweep[r].token)
             /\ row' = Unfenced(row)
    BY <1>0, <2>1, <2>2, CompleteReapTx DEF RowKept
  <2>3. QED
    BY <1>1, <1>4, <2>2 DEF Complete
<1>5. CASE Denied(r)
  BY <1>0, <1>1, <1>5, QuarantineTx DEF Denied, RowKept
<1>6. CASE Load(r)
  BY <1>0, <1>1, <1>6, ConsumeExpiredTx DEF Load, RowKept
<1>7. CASE Ack(r)
  <2>1. sweep[r].known \in Gens
    BY <1>7, SweepFields, ControlAssumption
       DEF Ack, ControlInv, SweepNamesLease, Gens
  <2>2. CASE ProofSettlesCancel(row, sweep[r].known) /\ row' = Cancelled(row)
    BY <1>0, <2>1, <2>2, ConsumeDeathProofTx DEF RowKept
  <2>3. QED
    BY <1>1, <1>7, <2>2 DEF Ack
<1>8. CASE Claim(r)
  BY <1>0, <1>1, <1>8, ClaimTx DEF Claim, RowKept
<1>9. CASE ScanMarker(r) \/ ScanOwn(r) \/ Kill(r) \/ Finish(r) \/ List(r)
             \/ ClaimIdentity(r)
  BY <1>1, <1>9 DEF ScanMarker, ScanOwn, Kill, Finish, List, ClaimIdentity
<1>10. QED
  BY <1>2, <1>3, <1>4, <1>5, <1>6, <1>7, <1>8, <1>9 DEF SweepStep

\* Whatever the registries, their workers and their sweeps do, a step is at most one
\* transaction of the store, and stays within the bounds.
LEMMA StepIsTransaction ==
  ASSUME ControlInv, [Next]_vars
  PROVE  RowKept
<1>0. RowSound /\ RowInBounds
  BY RowFields
<1>1. CASE UNCHANGED row
  BY <1>0, <1>1 DEF RowKept, RowInBounds, IsTerminal
<1>2. CASE LeaseExpires \/ ReapExpires
  BY <1>0, <1>2, ExpiryTx DEF RowKept
<1>3. ASSUME NEW r \in Registries, WorkerStep(r)
      PROVE  RowKept
  BY <1>1, <1>3 DEF WorkerStep, WorkerBoots, WorkerExits, WorkerDies
<1>4. QED
  BY <1>1, <1>2, <1>3, RunnerIsTransaction, SweepIsTransaction DEF Next, vars

\* The instance of the store that LiveJobControl refers to and the one the store's
\* theorems are about take the same steps.
LEMMA SameStore == Store!Next => StoreP!Next
BY DEF Store!Terminal, Store!ProofKinds, Store!NoTarget, Store!NoReap,
       Store!IsTerminal, Store!Fenced, Store!Created, Store!Recoverable,
       Store!Claimable, Store!Claimed, Store!Holds, Store!MayWrite,
       Store!Renewable, Store!Renewed, Store!Released, Store!Publishable,
       Store!Published, Store!Checkpointed, Store!Settled, Store!Cancelled,
       Store!NeverLeased, Store!Revoked, Store!CancelRequested,
       Store!ProofSettlesCancel, Store!Targets, Store!ReapTakesOver,
       Store!LeaseAllowsReap, Store!CancelledGeneration, Store!ReapStarts,
       Store!ReapAuthorized, Store!Quarantinable, Store!ReapQuarantined,
       Store!ProofRecordable, Store!ProofRecorded, Store!ReapCompletable,
       Store!ExpiredProofConsumable, Store!Unfenced, Store!RevRoom,
       Store!GenRoom, Store!Gens, Store!Write, Store!Create, Store!Claim,
       Store!Renew, Store!Release, Store!Publish, Store!AppendCheckpoint,
       Store!Settle, Store!StorePair, Store!Cancel, Store!RequestCancel,
       Store!ConsumeDeathProof, Store!Authorize, Store!Quarantine,
       Store!RecordProof, Store!CompleteReap, Store!ConsumeExpiredProof,
       Store!LeaseExpires, Store!ReapExpires, Store!HolderStep,
       Store!ReaperStep, Store!Next, Store!Exists,
       StoreP!Terminal, StoreP!ProofKinds, StoreP!NoTarget, StoreP!NoReap,
       StoreP!IsTerminal, StoreP!Fenced, StoreP!Created, StoreP!Recoverable,
       StoreP!Claimable, StoreP!Claimed, StoreP!Holds, StoreP!MayWrite,
       StoreP!Renewable, StoreP!Renewed, StoreP!Released, StoreP!Publishable,
       StoreP!Published, StoreP!Checkpointed, StoreP!Settled, StoreP!Cancelled,
       StoreP!NeverLeased, StoreP!Revoked, StoreP!CancelRequested,
       StoreP!ProofSettlesCancel, StoreP!Targets, StoreP!ReapTakesOver,
       StoreP!LeaseAllowsReap, StoreP!CancelledGeneration, StoreP!ReapStarts,
       StoreP!ReapAuthorized, StoreP!Quarantinable, StoreP!ReapQuarantined,
       StoreP!ProofRecordable, StoreP!ProofRecorded, StoreP!ReapCompletable,
       StoreP!ExpiredProofConsumable, StoreP!Unfenced, StoreP!RevRoom,
       StoreP!GenRoom, StoreP!Gens, StoreP!Write, StoreP!Create, StoreP!Claim,
       StoreP!Renew, StoreP!Release, StoreP!Publish, StoreP!AppendCheckpoint,
       StoreP!Settle, StoreP!StorePair, StoreP!Cancel, StoreP!RequestCancel,
       StoreP!ConsumeDeathProof, StoreP!Authorize, StoreP!Quarantine,
       StoreP!RecordProof, StoreP!CompleteReap, StoreP!ConsumeExpiredProof,
       StoreP!LeaseExpires, StoreP!ReapExpires, StoreP!HolderStep,
       StoreP!ReaperStep, StoreP!Next, StoreP!Exists

\* So the row keeps the store's invariant; its generation and revision never fall,
\* no new generation keeps the revision, and an outcome stays.
LEMMA RowAfterStep ==
  ASSUME ControlInv, [Next]_vars
  PROVE  /\ StoreP!StoreInv'
         /\ RowSound'
         /\ RowInBounds'
         /\ row'.gen \in Nat
         /\ row'.rev \in Nat
         /\ row'.gen >= row.gen
         /\ row'.gen <= MaxGen
         /\ row'.owner \in {0, row'.gen}
         /\ row'.rev >= row.rev
         /\ row'.gen # row.gen => row'.rev >= row.rev + 1
         /\ IsTerminal(row) => IsTerminal(row')
<1>1. RowKept
  BY StepIsTransaction
<1>2. [StoreP!Next]_(StoreP!vars)
  BY <1>1, SameStore DEF RowKept, StoreP!vars
<1>3. StoreP!StoreInv
  BY DEF ControlInv
<1>4. StoreP!StoreInv'
  BY <1>2, <1>3, StoreAssumptionHolds, StoreP!InvStep
<1>5. StoreP!RowPromise
  BY <1>2, <1>3, StoreAssumptionHolds, StoreP!PromiseKept
<1>6. RowSound'
  BY <1>4, RowIsSound, PTL
<1>7. row'.gen \in Nat /\ row'.rev \in Nat /\ row'.owner \in {0, row'.gen}
  BY <1>6 DEF RowSound, RowType
<1>8. /\ row'.gen >= row.gen
      /\ row'.rev >= row.rev
      /\ row'.rev = row.rev => row'.gen = row.gen
  BY <1>5 DEF StoreP!RowPromise, StoreP!ChangeIsRevised
<1>9. row'.gen # row.gen => row'.rev >= row.rev + 1
  BY <1>7, <1>8, RowFields
<1>10. IsTerminal(row) => IsTerminal(row')
  BY <1>5 DEF StoreP!RowPromise, StoreP!OutcomeStays, StoreP!IsTerminal,
              StoreP!Terminal, IsTerminal, Terminal
<1>11. row'.gen <= MaxGen
  BY <1>1 DEF RowKept, RowInBounds
<1>12. QED
  BY <1>1, <1>4, <1>6, <1>7, <1>8, <1>9, <1>10, <1>11 DEF RowKept
-------------------------------------------------------------------------------
(* What a step makes of the records. *)

CreatedRecord == [NoRuntime EXCEPT !.pc = "created"]
ClaimedRecord == [NoRuntime EXCEPT !.pc = "claimed", !.gen = row.gen + 1,
                                   !.own = TRUE, !.rev = row.rev + 1]

\* A lease is granted.
Granting == GenRoom /\ row' = Claimed(row)

\* The record stays, is forgotten with the process or with a refused admission, is
\* opened, is granted a lease, reads a lease back, or goes on under the one it has.
RecordGoesOn(r) ==
  /\ ~Unleased(r) /\ rt[r].pc # "claimed"
  /\ rt'[r].gen = rt[r].gen /\ rt'[r].own = rt[r].own
  /\ rt'[r].pc \notin {"none", "created", "claimed"}
  /\ rt'[r].pc \in {"stopping", "settling"} => rt'[r].want \in Terminal
  /\ rt'[r].pc = "admitted" => rt[r].pc = "admitted" /\ rt'[r].rev = rt[r].rev
  /\ rt'[r].pc = "intent" =>
       \/ rt[r].pc = "intent"
       \/ rt[r].pc = "admitted" /\ IsTerminal(row)
       \/ rt[r].pc = "admitted" /\ rt[r].own /\ row'.rev = row.rev + 1
  /\ rt'[r].pc = "waiting" => rt[r].pc \in {"intent", "waiting"}
  /\ rt'[r].pc = "stopping" => rt[r].pc = "stopping" \/ worker[r].gen # 0
  /\ rt'[r].pc = "settling" => rt[r].pc = "settling" \/ ~Running(r)'
  /\ rt'[r].pc = "done" => rt[r].pc = "done" \/ IsTerminal(row')
  /\ \/ rt'[r].rev = rt[r].rev
     \/ /\ rt[r].pc = "admitted" /\ rt'[r].pc = "settling"
        /\ rt'[r].rev \in {0, rt[r].rev + 1}
     \/ IsTerminal(row')
  /\ rt'[r].ident # "none" => rt[r].ident # "none" \/ worker'[r].gen # 0

RecordMoves(r) ==
  \/ rt'[r] = rt[r]
  \/ rt'[r] = NoRuntime /\ ~up'[r] /\ sweep'[r] = NoSweep
  \/ rt'[r] = NoRuntime /\ rt[r].pc \in {"created", "claimed"}
  \/ rt'[r] = CreatedRecord /\ up[r] /\ Unleased(r) /\ row.state = "absent"
  \/ rt'[r] = ClaimedRecord /\ rt[r].pc = "created" /\ Granting
  \/ /\ rt'[r] = Admitted(Grant(r), Copy(r))
     /\ Reading(r) /\ sweep'[r].pc # "identify"
     /\ row.owner # 0 /\ UNCHANGED row
  \/ RecordGoesOn(r)

RecordStep(r) ==
  /\ rt' \in [Registries -> RuntimeRecord]
  /\ \A s \in Registries \ {r} : rt'[s] = rt[s]
  /\ RecordMoves(r)

\* Only the record of the registry that moves is replaced.
LEMMA OneRecord ==
  ASSUME ControlInv, NEW r \in Registries, NEW n \in RuntimeRecord, SetRt(r, n)
  PROVE  /\ rt' \in [Registries -> RuntimeRecord]
         /\ \A s \in Registries \ {r} : rt'[s] = rt[s]
         /\ rt'[r] = n
BY Records DEF SetRt

\* Records that are written here have their type.
LEMMA NewRecords ==
  ASSUME ControlInv, NEW r \in Registries
  PROVE  /\ NoRuntime \in RuntimeRecord
         /\ CreatedRecord \in RuntimeRecord
         /\ GenRoom => ClaimedRecord \in RuntimeRecord
         /\ Admitted(Grant(r), Copy(r)) \in RuntimeRecord
         /\ Done(r) \in RuntimeRecord
         /\ Ended(r, "stuck") \in RuntimeRecord
         /\ rt[r] \in RuntimeRecord
<1>1. rt[r] \in RuntimeRecord
  BY RecordFields
<1>2. NoRuntime \in RuntimeRecord
  BY ControlAssumption DEF NoRuntime, RuntimeRecord, RuntimePcs
<1>3. CreatedRecord \in RuntimeRecord
  BY <1>2 DEF CreatedRecord, RuntimeRecord, RuntimePcs
<1>4. GenRoom => ClaimedRecord \in RuntimeRecord
  <2>1. GenRoom => row.gen + 1 \in 0..MaxGen
    BY RowFields, ControlAssumption DEF GenRoom
  <2>2. row.rev + 1 \in Nat /\ "claimed" \in RuntimePcs
    BY RowFields DEF RuntimePcs
  <2>3. QED
    BY <1>2, <2>1, <2>2 DEF ClaimedRecord, RuntimeRecord
<1>5. Admitted(Grant(r), Copy(r)) \in RuntimeRecord
  <2>1. row.gen \in 0..MaxGen /\ Copy(r) \in Nat
    BY RowFields, RecordFields, SweepFields, ControlAssumption DEF Copy
  <2>2. "admitted" \in RuntimePcs
    BY DEF RuntimePcs
  <2>3. \A o \in BOOLEAN, v \in Nat :
          [NoRuntime EXCEPT !.pc = "admitted", !.gen = row.gen, !.own = o,
                            !.rev = v, !.hb = "on"] \in RuntimeRecord
    BY <1>2, <2>1, <2>2 DEF RuntimeRecord
  <2>4. (row.gen = Grant(r)) \in BOOLEAN
        /\ (IF row.gen = Grant(r) THEN 0 ELSE Copy(r)) \in Nat
    BY <2>1
  <2>5. QED
    BY <2>3, <2>4 DEF Admitted
<1>6. Done(r) \in RuntimeRecord
  BY <1>1 DEF Done, NoRuntime, RuntimeRecord, RuntimePcs
<1>7. Ended(r, "stuck") \in RuntimeRecord
  BY <1>1 DEF Ended, RuntimeRecord, RuntimePcs
<1>8. QED
  BY <1>1, <1>2, <1>3, <1>4, <1>5, <1>6, <1>7

\* The fields of such records.
LEMMA BlankFields ==
  /\ NoRuntime.pc = "none" /\ NoRuntime.gen = 0 /\ ~NoRuntime.own
  /\ NoRuntime.ident = "none" /\ NoRuntime.hb = "off"
  /\ NoRuntime = [NoRuntime EXCEPT !.pc = "none"]
  /\ CreatedRecord = [NoRuntime EXCEPT !.pc = "created"]
  /\ CreatedRecord.pc = "created" /\ CreatedRecord.gen = 0
  /\ ~CreatedRecord.own /\ CreatedRecord.ident = "none"
BY DEF NoRuntime, CreatedRecord

LEMMA BlankRecord ==
  ASSUME ControlInv, NEW r \in Registries, Unleased(r)
  PROVE  ~rt[r].own /\ rt[r].gen = 0
<1>1. rt[r] = [NoRuntime EXCEPT !.pc = rt[r].pc]
  BY DEF ControlInv, RecordsNameLeases
<1>2. QED
  BY <1>1 DEF NoRuntime

LEMMA ClaimedFields ==
  /\ ClaimedRecord.pc = "claimed" /\ ClaimedRecord.gen = row.gen + 1
  /\ ClaimedRecord.own /\ ClaimedRecord.rev = row.rev + 1
  /\ ClaimedRecord.ident = "none" /\ ClaimedRecord.hb = "off"
BY DEF NoRuntime, ClaimedRecord

LEMMA AdmittedFields ==
  ASSUME NEW g, NEW v
  PROVE  /\ Admitted(g, v).pc = "admitted"
         /\ Admitted(g, v).gen = row.gen
         /\ Admitted(g, v).own <=> row.gen = g
         /\ row.gen # g => Admitted(g, v).rev = v
         /\ Admitted(g, v).ident = "none"
BY DEF NoRuntime, Admitted

\* A record that ends keeps its lease and its copy, or forgets all but its lease.
LEMMA EndedRecord ==
  ASSUME ControlInv, NEW r \in Registries, NEW pc
  PROVE  /\ Ended(r, pc).pc = pc
         /\ Ended(r, pc).gen = rt[r].gen
         /\ Ended(r, pc).own = rt[r].own
         /\ Ended(r, pc).rev = rt[r].rev
         /\ Ended(r, pc).ident = rt[r].ident
         /\ Done(r).pc = "done"
         /\ Done(r).gen = rt[r].gen
         /\ Done(r).own = rt[r].own
         /\ Done(r).ident = "none"
BY RecordFields DEF Ended, Done, NoRuntime, RuntimeRecord

\* A record that is left alone.
LEMMA RecordStays ==
  ASSUME ControlInv, NEW r \in Registries, UNCHANGED rt
  PROVE  RecordStep(r)
BY Records DEF RecordStep, RecordMoves

\* Dying and suspending, creating and admitting, claiming and reading back.
LEMMA AdmissionRecords ==
  ASSUME ControlInv, NEW r \in Registries,
         \/ ProcessStep(r) \/ Create(r) \/ AdmitNew(r) \/ AdmitIdentity(r)
         \/ Claim(r) \/ ClaimIdentity(r)
  PROVE  RecordStep(r)
<1>1. CASE ProcessStep(r)
  <2>1. SetRt(r, NoRuntime) /\ SweepDone(r) /\ up' = [up EXCEPT ![r] = FALSE]
    BY <1>1 DEF ProcessStep, Crash, Suspend
  <2>2. sweep'[r] = NoSweep /\ ~up'[r]
    BY <2>1, Records DEF SweepDone
  <2>3. QED
    BY <2>1, <2>2, NewRecords, OneRecord DEF RecordStep, RecordMoves
<1>2. CASE Create(r)
  <2>1. Unleased(r)
    BY <1>2, LeasedGen DEF Create, Unleased
  <2>2. rt[r] = [NoRuntime EXCEPT !.pc = rt[r].pc]
    BY <2>1 DEF ControlInv, RecordsNameLeases
  <2>3. rt' = [rt EXCEPT ![r] = [rt[r] EXCEPT !.pc = "created"]]
    BY <1>2, Records DEF Create, GoTo
  <2>4. [rt[r] EXCEPT !.pc = "created"] = CreatedRecord
    BY <2>2 DEF NoRuntime, CreatedRecord
  <2>5. SetRt(r, CreatedRecord)
    BY <2>3, <2>4 DEF SetRt
  <2>6. QED
    BY <1>2, <2>1, <2>5, NewRecords, OneRecord DEF Create, RecordStep, RecordMoves
<1>3. CASE AdmitNew(r)
  <2>1. CASE SetRt(r, NoRuntime)
    BY <1>3, <2>1, NewRecords, OneRecord DEF AdmitNew, RecordStep, RecordMoves
  <2>2. CASE GenRoom /\ row' = Claimed(row) /\ SetRt(r, ClaimedRecord)
    BY <1>3, <2>2, NewRecords, OneRecord
       DEF AdmitNew, RecordStep, RecordMoves, Granting
  <2>3. QED
    BY <1>3, <2>1, <2>2 DEF AdmitNew, ClaimedRecord
<1>4. CASE AdmitIdentity(r)
  <2>1. rt[r].pc = "claimed" /\ UNCHANGED <<row, sweep>>
    BY <1>4 DEF AdmitIdentity
  <2>2. CASE SetRt(r, NoRuntime)
    BY <2>1, <2>2, NewRecords, OneRecord DEF RecordStep, RecordMoves
  <2>3. CASE row.owner # 0 /\ SetRt(r, Admitted(rt[r].gen, rt[r].rev))
    <3>1. rt[r].own /\ sweep[r].pc # "identify"
      BY <2>1 DEF ControlInv, RecordsNameLeases
    <3>2. Grant(r) = rt[r].gen /\ Copy(r) = rt[r].rev
      BY <3>1 DEF Grant, Copy
    <3>3. QED
      BY <2>1, <2>3, <3>1, <3>2, NewRecords, OneRecord
         DEF RecordStep, RecordMoves, Reading
  <2>4. QED
    BY <1>4, <2>2, <2>3 DEF AdmitIdentity
<1>5. CASE Claim(r)
  BY <1>5, RecordStays DEF Claim
<1>6. CASE ClaimIdentity(r)
  <2>1. sweep[r].pc = "identify" /\ UNCHANGED row /\ sweep'[r].pc # "identify"
    BY <1>6, Records DEF ClaimIdentity, SweepDone, NoSweep
  <2>2. CASE SetRt(r, rt[r])
    BY <2>2, NewRecords, OneRecord DEF RecordStep, RecordMoves
  <2>3. CASE row.owner # 0 /\ SetRt(r, Admitted(sweep[r].gen, sweep[r].token))
    <3>1. rt[r].pc = "none"
      BY <2>1 DEF ControlInv, RecordsNameLeases
    <3>2. ~rt[r].own
      BY <3>1, BlankFields DEF ControlInv, RecordsNameLeases, Unleased, NoRuntime
    <3>3. Grant(r) = sweep[r].gen /\ Copy(r) = sweep[r].token
      BY <2>1, <3>2 DEF Grant, Copy
    <3>4. QED
      BY <2>1, <2>3, <3>3, NewRecords, OneRecord
         DEF RecordStep, RecordMoves, Reading
  <2>4. QED
    BY <1>6, <2>2, <2>3 DEF ClaimIdentity
<1>7. QED
  BY <1>1, <1>2, <1>3, <1>4, <1>5, <1>6

\* A record that goes on: replaced by one under the same lease.
LEMMA GoingOn ==
  ASSUME ControlInv, NEW r \in Registries, NEW n \in RuntimeRecord, SetRt(r, n),
         rt'[r] = n => RecordGoesOn(r)
  PROVE  RecordStep(r)
<1>1. /\ rt' \in [Registries -> RuntimeRecord]
      /\ \A s \in Registries \ {r} : rt'[s] = rt[s]
      /\ rt'[r] = n
  BY OneRecord
<1>2. QED
  BY <1>1 DEF RecordStep, RecordMoves

\* The same record but for what the sweep, or the end of the heartbeat, writes.
LEMMA MarkedRecord ==
  ASSUME ControlInv, NEW r \in Registries, NEW n \in RuntimeRecord, SetRt(r, n),
         ~Unleased(r), rt[r].pc # "claimed",
         n.pc = rt[r].pc, n.gen = rt[r].gen, n.own = rt[r].own, n.rev = rt[r].rev,
         n.want = rt[r].want,
         n.ident # "none" => rt[r].ident # "none" \/ worker'[r].gen # 0
  PROVE  RecordStep(r)
<1>1. rt[r].pc \in {"stopping", "settling"} => rt[r].want \in Terminal
  BY DEF ControlInv, RecordsNameLeases
<1>2. rt'[r] = n => RecordGoesOn(r)
  BY <1>1 DEF RecordGoesOn, Unleased
<1>3. QED
  BY <1>2, GoingOn

\* A stop decides the outcome and goes on to settle only if the worker is gone.
LEMMA StopRecords ==
  ASSUME ControlInv, NEW r \in Registries, NEW want \in Terminal,
         StopFor(r, want), ~Unleased(r), rt[r].pc # "claimed"
  PROVE  RecordStep(r)
<1> DEFINE pc == IF Stopped(r) THEN "settling" ELSE "stopping"
           n  == [rt[r] EXCEPT !.want = want, !.pending = TRUE, !.pc = pc]
<1>1. rt[r] \in RuntimeRecord
  BY RecordFields
<1>2. /\ pc \in RuntimePcs /\ pc \in {"stopping", "settling"}
      /\ pc = "settling" => ~Running(r)'
      /\ pc = "stopping" => worker'[r].st \in {"booting", "alive"}
  BY DEF RuntimePcs, Stopped, Running
<1>3. SetRt(r, n)
  BY DEF StopFor
<1>4. worker'[r].st \in {"booting", "alive"} => worker[r].gen # 0
  <2>1. UNCHANGED worker \/ worker' = [worker EXCEPT ![r].st = "killed"]
    BY DEF StopFor, KillOwnWorker, Killed
  <2>2. worker'[r].st \in {"booting", "alive"} => worker[r].st # "none"
    BY <2>1, Records DEF WorkerRecord
  <2>3. QED
    BY <2>2 DEF ControlInv, WorkersNameLeases
<1> HIDE DEF pc
<1>5. /\ n \in RuntimeRecord /\ n.gen = rt[r].gen /\ n.own = rt[r].own
      /\ n.rev = rt[r].rev /\ n.pc = pc /\ n.want = want /\ n.ident = rt[r].ident
  BY <1>1, <1>2 DEF RuntimeRecord
<1> HIDE DEF n
<1>6. rt'[r] = n => RecordGoesOn(r)
  BY <1>2, <1>4, <1>5 DEF RecordGoesOn
<1>7. QED
  BY <1>3, <1>5, <1>6, GoingOn

\* The other steps of the runner and of the heartbeat.
LEMMA RunnerRecords ==
  ASSUME ControlInv, NEW r \in Registries, RunnerStep(r)
  PROVE  RecordStep(r)
<1>0. rt[r] \in RuntimeRecord
  BY RecordFields
<1>1. CASE Create(r) \/ AdmitNew(r) \/ AdmitIdentity(r)
  BY <1>1, AdmissionRecords
<1>2. CASE StartOperation(r)
  <2>1. ~Unleased(r) /\ rt[r].pc = "admitted"
    BY <1>2 DEF StartOperation, Unleased
  <2>2. CASE GoTo(r, "intent") /\ (IsTerminal(row) \/ CanPublish(r))
    <3> DEFINE n == [rt[r] EXCEPT !.pc = "intent"]
    <3>1. SetRt(r, n)
      BY <2>2, Records DEF GoTo, SetRt
    <3>2. /\ n \in RuntimeRecord /\ n.gen = rt[r].gen /\ n.own = rt[r].own
          /\ n.rev = rt[r].rev /\ n.pc = "intent" /\ n.ident = rt[r].ident
      BY <1>0 DEF RuntimeRecord, RuntimePcs
    <3> HIDE DEF n
    <3>3. IsTerminal(row) \/ (rt[r].own /\ row'.rev = row.rev + 1)
      <4>1. CASE ~IsTerminal(row) /\ CanPublish(r)
        <5>1. rt[r].own
          BY <2>1, <4>1, ForeignCannotStart
        <5>2. row' = Published(row, "running", row.rev + 1)
          BY <1>2, <4>1, <5>1 DEF StartOperation, NextRev
        <5>3. row'.rev = row.rev + 1
          BY <5>2, RowFields DEF Published, RowType
        <5>4. QED
          BY <5>1, <5>3
      <4>2. QED
        BY <2>2, <4>1
    <3>4. rt'[r] = n => RecordGoesOn(r)
      BY <2>1, <3>2, <3>3 DEF RecordGoesOn
    <3>5. QED
      BY <3>1, <3>2, <3>4, GoingOn
  <2>3. CASE SetRt(r, [rt[r] EXCEPT !.pc = "settling", !.want = "failed",
                                   !.rev = IF rt[r].own THEN 0 ELSE @ + 1])
    <3> DEFINE v == IF rt[r].own THEN 0 ELSE rt[r].rev + 1
               n == [rt[r] EXCEPT !.pc = "settling", !.want = "failed", !.rev = v]
    <3>1. v \in Nat /\ v \in {0, rt[r].rev + 1}
      BY RecordFields
    <3>2. SetRt(r, n)
      BY <2>3
    <3> HIDE DEF v
    <3>3. /\ n \in RuntimeRecord /\ n.gen = rt[r].gen /\ n.own = rt[r].own
          /\ n.rev = v /\ n.pc = "settling" /\ n.want = "failed"
          /\ n.ident = rt[r].ident
      BY <1>0, <3>1 DEF RuntimeRecord, RuntimePcs, Terminal
    <3> HIDE DEF n
    <3>4. ~Running(r)' /\ "failed" \in Terminal
      <4>1. up[r] /\ UNCHANGED worker
        BY <1>2 DEF StartOperation
      <4>2. worker[r].gen = 0
        BY <2>1, <4>1 DEF ControlInv, WorkersNameLeases, Unspawned
      <4>3. worker[r].st = "none"
        BY <4>2 DEF ControlInv, WorkersNameLeases
      <4>4. QED
        BY <4>1, <4>3 DEF Running, Terminal
    <3>5. rt'[r] = n => RecordGoesOn(r)
      BY <2>1, <3>1, <3>3, <3>4 DEF RecordGoesOn
    <3>6. QED
      BY <3>2, <3>3, <3>5, GoingOn
  <2>4. QED
    BY <1>2, <2>2, <2>3 DEF StartOperation
<1>3. CASE Spawn(r)
  <2> DEFINE n == [rt[r] EXCEPT !.pc = "waiting", !.ident = "spawned"]
  <2>1. SetRt(r, n) /\ ~Unleased(r) /\ rt[r].pc = "intent"
    BY <1>3 DEF Spawn, Unleased
  <2>2. /\ n \in RuntimeRecord /\ n.gen = rt[r].gen /\ n.own = rt[r].own
        /\ n.rev = rt[r].rev /\ n.pc = "waiting"
    BY <1>0 DEF RuntimeRecord, RuntimePcs
  <2>3. worker'[r].gen # 0
    <3>1. worker'[r] = [st |-> "booting", gen |-> rt[r].gen]
      BY <1>3, Records DEF Spawn
    <3>2. rt[r].gen # 0
      BY <2>1 DEF ControlInv, RecordsNameLeases
    <3>3. worker'[r].gen = rt[r].gen
      BY <3>1
    <3>4. QED
      BY <3>2, <3>3
  <2> HIDE DEF n
  <2>4. rt'[r] = n => RecordGoesOn(r)
    BY <2>1, <2>2, <2>3 DEF RecordGoesOn
  <2>5. QED
    BY <2>1, <2>2, <2>4, GoingOn
<1>4. CASE Collect(r)
  <2>1. PICK want \in IF rt[r].pc = "stopping"
                        THEN {rt[r].want}
                        ELSE {"failed"} \cup (IF worker[r].st = "exited"
                                                THEN {"succeeded"} ELSE {}) :
          SetRt(r, [rt[r] EXCEPT !.pc = "settling", !.want = want])
    BY <1>4 DEF Collect
  <2>2. want \in Terminal
    BY <2>1 DEF ControlInv, RecordsNameLeases, Terminal
  <2> DEFINE n == [rt[r] EXCEPT !.pc = "settling", !.want = want]
  <2>3. /\ n \in RuntimeRecord /\ n.gen = rt[r].gen /\ n.own = rt[r].own
        /\ n.rev = rt[r].rev /\ n.pc = "settling" /\ n.want = want
        /\ n.ident = rt[r].ident
    BY <1>0, <2>2 DEF RuntimeRecord, RuntimePcs
  <2>4. SetRt(r, n)
    BY <2>1
  <2> HIDE DEF n
  <2>5. ~Running(r)'
    BY <1>4 DEF Collect, Gone, Running
  <2>6. ~Unleased(r) /\ rt[r].pc # "claimed"
    BY <1>4 DEF Collect, Unleased
  <2>7. rt'[r] = n => RecordGoesOn(r)
    BY <2>2, <2>3, <2>5, <2>6 DEF RecordGoesOn
  <2>8. QED
    BY <2>3, <2>4, <2>7, GoingOn
<1>5. CASE LocalCancel(r) \/ Deadline(r)
  <2>1. ~Unleased(r) /\ rt[r].pc # "claimed" /\ {"cancelled", "failed"} \subseteq Terminal
    BY <1>5 DEF LocalCancel, Deadline, Unleased, Terminal
  <2>2. QED
    BY <1>5, <2>1, StopRecords DEF LocalCancel, Deadline
<1>6. ASSUME SetRt(r, Done(r)), ~Unleased(r), rt[r].pc # "claimed",
             IsTerminal(row')
      PROVE  RecordStep(r)
  <2>1. Done(r) \in RuntimeRecord
    BY NewRecords
  <2>2. rt'[r] = Done(r) => RecordGoesOn(r)
    BY <1>6, <2>1, EndedRecord DEF RecordGoesOn
  <2>3. QED
    BY <1>6, <2>1, <2>2, GoingOn
<1>7. ASSUME NEW hb \in {"off", "acking"},
             SetRt(r, [Ended(r, "stuck") EXCEPT !.hb = hb]), ~Unleased(r),
             rt[r].pc # "claimed"
      PROVE  RecordStep(r)
  <2> DEFINE n == [Ended(r, "stuck") EXCEPT !.hb = hb]
  <2>1. Ended(r, "stuck") \in RuntimeRecord
    BY NewRecords
  <2>2. /\ n \in RuntimeRecord /\ n.pc = "stuck" /\ n.gen = rt[r].gen
        /\ n.own = rt[r].own /\ n.rev = rt[r].rev /\ n.ident = rt[r].ident
    BY <2>1, EndedRecord DEF RuntimeRecord
  <2> HIDE DEF n
  <2>3. rt'[r] = n => RecordGoesOn(r)
    BY <1>7, <2>2 DEF RecordGoesOn
  <2>4. SetRt(r, n)
    BY <1>7 DEF n
  <2>5. QED
    BY <2>2, <2>3, <2>4, GoingOn
<1>8. Ended(r, "stuck") = [Ended(r, "stuck") EXCEPT !.hb = "off"]
  <2>1. Ended(r, "stuck") \in RuntimeRecord /\ Ended(r, "stuck").hb = "off"
    BY <1>0, NewRecords DEF Ended, RuntimeRecord
  <2>2. QED
    BY <2>1 DEF RuntimeRecord
<1>9. CASE Settle(r)
  <2>1. ~Unleased(r) /\ rt[r].pc = "settling" /\ rt[r].pc # "claimed"
    BY <1>9 DEF Settle, Unleased
  <2>2. CASE SetRt(r, Ended(r, "stuck"))
    BY <1>7, <1>8, <2>1, <2>2
  <2>3. CASE SetRt(r, Done(r)) /\ IsTerminal(row) /\ row' = row
    BY <1>6, <2>1, <2>3 DEF IsTerminal
  <2>4. CASE SetRt(r, Done(r)) /\ row' = Published(row, rt[r].want, NextRev(r))
    <3>1. row'.state = rt[r].want
      BY <2>4, RowFields DEF Published, RowType
    <3>2. IsTerminal(row')
      BY <2>1, <3>1 DEF ControlInv, RecordsNameLeases, IsTerminal
    <3>3. QED
      BY <1>6, <2>1, <2>4, <3>2
  <2>5. QED
    BY <1>9, <2>2, <2>3, <2>4 DEF Settle
<1>10. CASE HbLost(r) \/ HbCancel(r)
  <2>1. ~Unleased(r)
    BY <1>10, RecordIsLeased DEF HbLost, HbCancel, Beats
  <2>2. rt[r].pc # "claimed"
    BY <1>10 DEF HbLost, HbCancel, Beats, ControlInv, RecordsNameLeases
  <2>3. QED
    BY <1>7, <1>8, <1>10, <2>1, <2>2 DEF HbLost, HbCancel
<1>11. CASE HbAck(r)
  <2>1. ~Unleased(r)
    BY <1>11, RecordIsLeased DEF HbAck
  <2>2. rt[r].pc # "claimed"
    BY <1>11 DEF HbAck, ControlInv, RecordsNameLeases
  <2> DEFINE n == [rt[r] EXCEPT !.hb = "off"]
  <2>3. /\ n \in RuntimeRecord /\ n.pc = rt[r].pc /\ n.gen = rt[r].gen
        /\ n.own = rt[r].own /\ n.rev = rt[r].rev /\ n.want = rt[r].want
        /\ n.ident = rt[r].ident
    BY <1>0 DEF RuntimeRecord
  <2>4. SetRt(r, n)
    BY <1>11 DEF HbAck
  <2> HIDE DEF n
  <2>5. QED
    BY <2>1, <2>2, <2>3, <2>4, MarkedRecord
<1>12. CASE HbRenew(r) \/ RequestCancel(r)
  BY <1>12, RecordStays DEF HbRenew, RequestCancel
<1>13. QED
  BY <1>1, <1>2, <1>3, <1>4, <1>5, <1>9, <1>10, <1>11, <1>12 DEF RunnerStep

\* A sweep that is at work belongs to a process that lives, and one that is at work on
\* this registry's own record to a record whose worker was spawned.
LEMMA SweepIsUp ==
  ASSUME ControlInv, NEW r \in Registries, sweep[r] # NoSweep
  PROVE  up[r]
BY Records DEF ControlInv, DeadIsBlank

LEMMA SpawnedIsLeased ==
  ASSUME ControlInv, NEW r \in Registries, up[r], worker[r].gen # 0
  PROVE  ~Unleased(r) /\ rt[r].pc # "claimed" /\ rt[r].gen = worker[r].gen
BY DEF ControlInv, WorkersNameLeases, Unspawned, Unleased

LEMMA OwnSweep ==
  ASSUME ControlInv, NEW r \in Registries,
         sweep[r].own \in OnOwnRecord \/ HasIdentity(r)
  PROVE  /\ ~Unleased(r) /\ rt[r].pc # "claimed"
         /\ rt[r].gen # 0 /\ worker[r].gen = rt[r].gen
<1>1. worker[r].gen # 0
  BY DEF ControlInv, SweepNamesLease, WorkersNameLeases, HasIdentity
<1>2. up[r]
  BY Records DEF ControlInv, DeadIsBlank, NoSweep, OnOwnRecord, HasIdentity, NoRuntime
<1>3. QED
  BY <1>1, <1>2, SpawnedIsLeased

\* The steps of a recovery sweep.
LEMMA SweepRecords ==
  ASSUME ControlInv, NEW r \in Registries, SweepStep(r)
  PROVE  RecordStep(r)
<1>0. rt \in [Registries -> RuntimeRecord] /\ rt[r] \in RuntimeRecord
  BY Records, RecordFields
<1>1. ASSUME rt' = [rt EXCEPT ![r].ident = "authenticated"], UNCHANGED worker \/ Killed(sweep[r].by),
             sweep[r].own \in {"now", "merged"}
      PROVE  RecordStep(r)
  <2> DEFINE n == [rt[r] EXCEPT !.ident = "authenticated"]
  <2>1. ~Unleased(r) /\ rt[r].pc # "claimed" /\ worker[r].gen # 0
    BY <1>1, OwnSweep DEF OnOwnRecord
  <2>2. worker'[r].gen = worker[r].gen
    BY <1>1, Records DEF Killed, WorkerRecord
  <2>3. SetRt(r, n)
    BY <1>0, <1>1 DEF SetRt
  <2>4. /\ n \in RuntimeRecord /\ n.pc = rt[r].pc /\ n.gen = rt[r].gen
        /\ n.own = rt[r].own /\ n.rev = rt[r].rev /\ n.want = rt[r].want
    BY <1>0 DEF RuntimeRecord
  <2> HIDE DEF n
  <2>5. QED
    BY <2>1, <2>2, <2>3, <2>4, MarkedRecord
<1>2. ASSUME NEW q \in BOOLEAN, NEW i \in {rt[r].ident, "none"},
             SetRt(r, [rt[r] EXCEPT !.quar = q, !.ident = i]),
             (q = rt[r].quar /\ i = rt[r].ident) \/ HasIdentity(r)
      PROVE  RecordStep(r)
  <2> DEFINE n == [rt[r] EXCEPT !.quar = q, !.ident = i]
  <2>1. CASE q = rt[r].quar /\ i = rt[r].ident
    <3>1. n = rt[r]
      BY <1>0, <2>1 DEF RuntimeRecord
    <3>2. SetRt(r, rt[r])
      BY <1>2, <3>1
    <3>3. QED
      BY <1>0, <3>2, OneRecord DEF RecordStep, RecordMoves
  <2>2. CASE HasIdentity(r)
    <3>1. ~Unleased(r) /\ rt[r].pc # "claimed"
      BY <2>2, OwnSweep
    <3>2. /\ n \in RuntimeRecord /\ n.pc = rt[r].pc /\ n.gen = rt[r].gen
          /\ n.own = rt[r].own /\ n.rev = rt[r].rev /\ n.want = rt[r].want
          /\ n.ident = i
      BY <1>0 DEF RuntimeRecord
    <3>3. SetRt(r, n)
      BY <1>2
    <3> HIDE DEF n
    <3>4. QED
      BY <3>1, <3>2, <3>3, MarkedRecord
  <2>3. QED
    BY <1>2, <2>1, <2>2
<1>3. CASE Kill(r)
  <2>1. CASE KillFound(r)
    BY <1>1, <2>1, RecordStays DEF KillFound
  <2>2. CASE KillAbsent(r)
    <3>1. CASE UNCHANGED rt
      BY <3>1, RecordStays
    <3>2. CASE /\ HasIdentity(r)
               /\ rt' = [rt EXCEPT ![r].ident = "none", ![r].quar = TRUE]
      <4>1. SetRt(r, [rt[r] EXCEPT !.quar = TRUE, !.ident = "none"])
        BY <1>0, <3>2 DEF SetRt, RuntimeRecord
      <4>2. QED
        BY <1>2, <3>2, <4>1
    <3>3. QED
      BY <2>2, <3>1, <3>2 DEF KillAbsent
  <2>3. QED
    BY <1>3, <2>1, <2>2 DEF Kill
<1>4. CASE Finish(r)
  BY <1>1, <1>4, RecordStays DEF Finish
<1>5. CASE Load(r)
  <2> DEFINE q == rt[r].quar \/ (HasIdentity(r) /\ ~rt[r].pending)
  <2>1. rt' = [rt EXCEPT ![r].quar = q]
    BY <1>5 DEF Load
  <2>2. q \in BOOLEAN /\ (q = rt[r].quar \/ HasIdentity(r))
    BY <1>0 DEF RuntimeRecord
  <2> HIDE DEF q
  <2>3. SetRt(r, [rt[r] EXCEPT !.quar = q, !.ident = rt[r].ident])
    BY <1>0, <2>1 DEF SetRt, RuntimeRecord
  <2>4. QED
    BY <1>2, <2>2, <2>3
<1>6. CASE Claim(r) \/ ClaimIdentity(r)
  BY <1>6, AdmissionRecords
<1>7. CASE ScanMarker(r) \/ ScanOwn(r) \/ Authorize(r) \/ Record(r) \/ Complete(r)
             \/ Denied(r) \/ List(r) \/ Ack(r)
  BY <1>7, RecordStays
     DEF ScanMarker, ScanOwn, Authorize, Record, Complete, Denied, List, Ack
<1>8. QED
  BY <1>3, <1>4, <1>5, <1>6, <1>7 DEF SweepStep

\* A registry but for which a step leaves the records, the sweeps and the processes
\* alone; at most it tells the sweeps that a lease was granted.
Mover(m) ==
  /\ rt' \in [Registries -> RuntimeRecord]
  /\ RecordMoves(m)
  /\ \A s \in Registries \ {m} :
       /\ rt'[s] = rt[s]
       /\ up'[s] = up[s]
       /\ sweep'[s] \in {sweep[s], Granted[s]}

\* What Granted makes of a sweep is a sweep.
LEMMA GrantedIsTyped == ASSUME ControlInv PROVE Granted \in [Registries -> SweepRecord]
<1>1. ASSUME NEW p \in SweepRecord, NEW f \in BOOLEAN
      PROVE  [p EXCEPT !.fresh = f] \in SweepRecord
  BY DEF SweepRecord
<1>2. \A s \in Registries : Granted[s] \in SweepRecord
  BY <1>1, SweepFields, ControlAssumption DEF Granted
<1>3. QED
  BY <1>2 DEF Granted

\* Whoever acts is one.
LEMMA ActorMoves ==
  ASSUME ControlInv, NEW r \in Registries,
         ProcessStep(r) \/ RunnerStep(r) \/ SweepStep(r)
  PROVE  Mover(r)
<1>1. RecordStep(r)
  BY AdmissionRecords, RunnerRecords, SweepRecords
<1>2. \A s \in Registries \ {r} : up'[s] = up[s]
  BY Records
     DEF ProcessStep, RunnerStep, SweepStep, Crash, Suspend, Create, AdmitNew,
         AdmitIdentity, StartOperation, Spawn, Collect, LocalCancel, Deadline,
         StopFor, Settle, HbRenew, HbLost, HbCancel, HbAck, RequestCancel,
         ScanMarker, ScanOwn, Authorize, Kill, Record, Complete, Finish, Denied,
         Load, List, Ack, Claim, ClaimIdentity
<1>3. \/ sweep' \in {sweep, Granted}
      \/ \E n : sweep' = [sweep EXCEPT ![r] = n]
      \/ \E n : sweep' = [Granted EXCEPT ![r] = n]
  <2>1. CASE ProcessStep(r) \/ RunnerStep(r)
    BY <2>1
       DEF ProcessStep, RunnerStep, Crash, Suspend, Create, AdmitNew,
           AdmitIdentity, StartOperation, Spawn, Collect, LocalCancel, Deadline,
           StopFor, Settle, HbRenew, HbLost, HbCancel, HbAck, RequestCancel,
           SweepDone
  <2>2. CASE Claim(r)
    <3>1. [Granted EXCEPT ![r].pc = "identify", ![r].gen = row.gen + 1,
                          ![r].token = row.rev + 1]
            = [Granted EXCEPT ![r] = [Granted[r] EXCEPT !.pc = "identify",
                                        !.gen = row.gen + 1, !.token = row.rev + 1]]
      BY GrantedIsTyped
    <3>2. QED
      BY <2>2, <3>1 DEF Claim, SweepDone
  <2>3. ASSUME NEW pc, NEW t, sweep' = [sweep EXCEPT ![r].pc = pc, ![r].token = t]
        PROVE  \E n : sweep' = [sweep EXCEPT ![r] = n]
    <3>1. sweep' = [sweep EXCEPT ![r] = [sweep[r] EXCEPT !.pc = pc, !.token = t]]
      BY <2>3, Records
    <3>2. QED
      BY <3>1
  <2>4. CASE Authorize(r)
    BY <2>3, <2>4 DEF Authorize, SweepTo
  <2>5. CASE ScanMarker(r) \/ ScanOwn(r) \/ Load(r) \/ List(r) \/ Ack(r)
               \/ ClaimIdentity(r)
    BY <2>5 DEF ScanMarker, ScanOwn, Load, List, Ack, ClaimIdentity, SweepTo,
                SweepDone
  <2>6. CASE Kill(r) \/ Record(r) \/ Complete(r) \/ Finish(r) \/ Denied(r)
    BY <2>6 DEF Kill, KillFound, KillAbsent, Record, Complete, Finish, Denied,
                Refused, NextCandidate, SweepTo
  <2>7. QED
    BY <2>1, <2>2, <2>4, <2>5, <2>6 DEF SweepStep
<1>4. \A s \in Registries \ {r} : sweep'[s] \in {sweep[s], Granted[s]}
  BY GrantedIsTyped, <1>3, Records
<1>5. QED
  BY <1>1, <1>2, <1>4 DEF Mover, RecordStep

\* Every step has one.
LEMMA OneMover ==
  ASSUME ControlInv, [Next]_vars
  PROVE  \/ UNCHANGED <<rt, sweep, up>>
         \/ \E m \in Registries : Mover(m)
<1>1. ASSUME NEW r \in Registries, WorkerStep(r)
      PROVE  UNCHANGED <<rt, sweep, up>>
  BY <1>1 DEF WorkerStep, WorkerBoots, WorkerExits, WorkerDies
<1>2. CASE LeaseExpires \/ ReapExpires
  BY <1>2 DEF LeaseExpires, ReapExpires
<1>3. CASE UNCHANGED vars
  BY <1>3 DEF vars
<1>4. QED
  BY <1>1, <1>2, <1>3, ActorMoves DEF Next

\* So every record moves as RecordMoves says, and no two registries move at once.
LEMMA EachRecordMoves ==
  ASSUME ControlInv, [Next]_vars
  PROVE  /\ rt' \in [Registries -> RuntimeRecord]
         /\ \A r \in Registries : RecordMoves(r)
         /\ \A r, s \in Registries : r # s =>
              \/ rt'[r] = rt[r] /\ sweep'[r] \in {sweep[r], Granted[r]}
              \/ rt'[s] = rt[s] /\ sweep'[s] \in {sweep[s], Granted[s]}
<1>1. CASE UNCHANGED <<rt, sweep, up>>
  BY <1>1, Records DEF RecordMoves
<1>2. CASE \E m \in Registries : Mover(m)
  BY <1>2 DEF Mover, RecordMoves
<1>3. QED
  BY <1>1, <1>2, OneMover
-------------------------------------------------------------------------------
(* What a step makes of the workers. *)

\* A worker stays as it is; runs on or ends, if it is running; or is spawned by its
\* registry under the lease of the record.
Spawning(r) ==
  /\ rt[r].pc = "intent" /\ up[r] /\ rt'[r].pc = "waiting"
  /\ worker'[r] = [st |-> "booting", gen |-> rt[r].gen]
  /\ UNCHANGED <<row, up, sweep>>

WorkerMoves(r) ==
  \/ worker'[r] = worker[r]
  \/ /\ Running(r)
     /\ worker'[r].gen = worker[r].gen
     /\ worker'[r].st \in {"alive", "exited", "killed"}
  \/ Spawning(r)

WorkersStep ==
  /\ worker' \in [Registries -> WorkerRecord]
  /\ \A r \in Registries : WorkerMoves(r)

\* Nothing happens to the workers.
LEMMA WorkersStay == ASSUME ControlInv, UNCHANGED worker PROVE WorkersStep
BY Records DEF WorkersStep, WorkerMoves

\* A running worker runs on, exits or is killed.
LEMMA RunningWorkerMoves ==
  ASSUME ControlInv, NEW r \in Registries, Running(r),
         NEW w \in {"alive", "exited", "killed"},
         worker' = [worker EXCEPT ![r].st = w]
  PROVE  WorkersStep
<1>1. worker \in [Registries -> WorkerRecord]
  BY Records
<1>2. [worker[r] EXCEPT !.st = w] \in WorkerRecord
  BY <1>1 DEF WorkerRecord
<1>3. worker' \in [Registries -> WorkerRecord]
  BY <1>1, <1>2
<1>4. worker'[r].st = w /\ worker'[r].gen = worker[r].gen
  BY <1>1 DEF WorkerRecord
<1>5. \A s \in Registries \ {r} : worker'[s] = worker[s]
  BY <1>1
<1>6. QED
  BY <1>3, <1>4, <1>5 DEF WorkersStep, WorkerMoves

\* The steps that may kill the registry's own worker.
LEMMA OwnWorkerMoves ==
  ASSUME ControlInv, NEW r \in Registries, KillOwnWorker(r)
  PROVE  WorkersStep
<1>1. CASE Running(r) /\ worker' = [worker EXCEPT ![r].st = "killed"]
  BY <1>1, RunningWorkerMoves
<1>2. QED
  BY <1>1, WorkersStay DEF KillOwnWorker, Killed

\* A spawn starts a worker under the lease of its record.
LEMMA SpawnStep ==
  ASSUME ControlInv, NEW r \in Registries, Spawn(r)
  PROVE  WorkersStep
<1>1. worker' = [worker EXCEPT ![r] = [st |-> "booting", gen |-> rt[r].gen]]
  BY DEF Spawn
<1>2. [st |-> "booting", gen |-> rt[r].gen] \in WorkerRecord
  BY RecordFields DEF WorkerRecord
<1>3. /\ worker' \in [Registries -> WorkerRecord]
      /\ worker'[r] = [st |-> "booting", gen |-> rt[r].gen]
      /\ \A s \in Registries \ {r} : worker'[s] = worker[s]
  BY <1>1, <1>2, Records
<1>4. rt'[r].pc = "waiting"
  <2>1. rt' = [rt EXCEPT ![r] = [rt[r] EXCEPT !.pc = "waiting", !.ident = "spawned"]]
    BY DEF Spawn, SetRt
  <2>2. rt'[r] = [rt[r] EXCEPT !.pc = "waiting", !.ident = "spawned"]
    BY <2>1, Records
  <2>3. QED
    BY <2>2, RecordFields DEF RuntimeRecord
<1>5. Spawning(r)
  BY <1>3, <1>4 DEF Spawn, Spawning
<1>6. QED
  BY <1>3, <1>5 DEF WorkersStep, WorkerMoves

\* Every step moves the workers as WorkerMoves says.
LEMMA WorkersMove ==
  ASSUME ControlInv, [Next]_vars
  PROVE  WorkersStep
<1>1. ASSUME NEW r \in Registries, ProcessStep(r) \/ RunnerStep(r)
      PROVE  WorkersStep
  <2>1. CASE Suspend(r) \/ LocalCancel(r) \/ Deadline(r) \/ HbLost(r)
    BY <2>1, OwnWorkerMoves DEF Suspend, LocalCancel, Deadline, StopFor, HbLost
  <2>2. CASE HbCancel(r)
    <3>1. CASE Running(r) /\ worker' = [worker EXCEPT ![r].st = "killed"]
      BY <3>1, RunningWorkerMoves
    <3>2. QED
      BY <2>2, <3>1, WorkersStay DEF HbCancel, Killed
  <2>3. CASE Crash(r) \/ Create(r) \/ AdmitNew(r) \/ AdmitIdentity(r)
             \/ StartOperation(r) \/ Collect(r) \/ Settle(r) \/ HbRenew(r)
             \/ HbAck(r) \/ RequestCancel(r)
    BY <2>3, WorkersStay
       DEF Crash, Create, AdmitNew, AdmitIdentity, StartOperation, Collect, Settle,
           HbRenew, HbAck, RequestCancel
  <2>4. QED
    BY <1>1, <2>1, <2>2, <2>3, SpawnStep DEF ProcessStep, RunnerStep
<1>2. ASSUME NEW r \in Registries, SweepStep(r)
      PROVE  WorkersStep
  <2>1. CASE Kill(r)
    <3>1. CASE /\ Running(sweep[r].by)
               /\ worker' = [worker EXCEPT ![sweep[r].by].st = "killed"]
      <4>1. CASE sweep[r].by \in Registries
        BY <3>1, <4>1, RunningWorkerMoves
      <4>2. CASE sweep[r].by \notin Registries
        <5>1. worker' = worker
          BY <3>1, <4>2, Records
        <5>2. QED
          BY <5>1, WorkersStay
      <4>3. QED
        BY <4>1, <4>2
    <3>2. QED
      BY <2>1, <3>1, WorkersStay DEF Kill, KillFound, KillAbsent, Killed
  <2>2. CASE ScanMarker(r) \/ ScanOwn(r) \/ Authorize(r) \/ Record(r) \/ Complete(r)
             \/ Finish(r) \/ Denied(r) \/ Load(r) \/ List(r) \/ Ack(r) \/ Claim(r)
             \/ ClaimIdentity(r)
    BY <2>2, WorkersStay
       DEF ScanMarker, ScanOwn, Authorize, Record, Complete, Finish, Denied, Load,
           List, Ack, Claim, ClaimIdentity
  <2>3. QED
    BY <1>2, <2>1, <2>2 DEF SweepStep
<1>3. ASSUME NEW r \in Registries, WorkerStep(r)
      PROVE  WorkersStep
  BY <1>3, RunningWorkerMoves
     DEF WorkerStep, WorkerBoots, WorkerExits, WorkerDies, Running, Killed
<1>4. CASE LeaseExpires \/ ReapExpires \/ UNCHANGED vars
  BY <1>4, WorkersStay DEF LeaseExpires, ReapExpires, vars
<1>5. QED
  BY <1>1, <1>2, <1>3, <1>4 DEF Next

\* Because a record that is about to spawn has no worker yet, a worker keeps its lease,
\* one that has ended stays ended, and only a spawn starts one.
LEMMA WorkersAge ==
  ASSUME ControlInv, [Next]_vars, NEW r \in Registries
  PROVE  /\ worker'[r] \in WorkerRecord
         /\ worker[r].gen # 0 => worker'[r].gen = worker[r].gen
         /\ worker[r].gen = 0 /\ worker'[r].gen # 0 => Spawning(r)
         /\ ~Running(r) /\ Running(r)' => Spawning(r)
         /\ worker'[r].st = "none" <=> worker'[r].gen = 0
         /\ Gone(r) => Gone(r)'
<1>1. WorkerMoves(r) /\ worker'[r] \in WorkerRecord
  BY WorkersMove DEF WorkersStep
<1>2. worker[r].st = "none" <=> worker[r].gen = 0
  BY DEF ControlInv, WorkersNameLeases
<1>3. CASE worker'[r] = worker[r]
  BY <1>1, <1>2, <1>3 DEF Gone, Running
<1>4. CASE /\ Running(r)
           /\ worker'[r].gen = worker[r].gen
           /\ worker'[r].st \in {"alive", "exited", "killed"}
  BY <1>1, <1>2, <1>4 DEF Gone, Running
<1>5. CASE Spawning(r)
  <2>1. rt[r].gen # 0 /\ worker[r].gen = 0
    BY <1>5 DEF Spawning, ControlInv, RecordsNameLeases, Unleased,
                WorkersNameLeases, Unspawned
  <2>2. worker'[r].gen = rt[r].gen /\ worker'[r].st = "booting"
    BY <1>5 DEF Spawning
  <2>3. QED
    BY <1>1, <1>2, <1>5, <2>1, <2>2 DEF Gone
<1>6. QED
  BY <1>1, <1>3, <1>4, <1>5 DEF WorkerMoves

\* So a death that happened has happened.
LEMMA DeathsLast ==
  ASSUME ControlInv, [Next]_vars, NEW g \in Nat, g # 0, HasDied(g)
  PROVE  HasDied(g)'
<1>1. PICK r \in Registries : worker[r].gen = g /\ Gone(r)
  BY DEF HasDied
<1>2. worker'[r].gen = g /\ Gone(r)'
  BY <1>1, WorkersAge
<1>3. QED
  BY <1>2 DEF HasDied
-------------------------------------------------------------------------------
(* The records. *)

\* What sweeps that are to claim, or that have claimed, have in common with the next:
\* a claim is only prepared for a registry without a record, and the identity that is
\* read back is the one the claim left.
ClaimPrepared(r) ==
  /\ sweep'[r].pc = "claim" => /\ rt'[r].pc = "none" /\ row'.state # "absent"
                               /\ sweep[r].pc = "claim" \/ row' = row
  /\ sweep'[r].pc = "identify" =>
       /\ rt'[r] = rt[r]
       /\ \/ /\ sweep[r].pc = "identify"
             /\ sweep'[r].gen = sweep[r].gen
             /\ sweep'[r].token = sweep[r].token
             /\ ~Stalls /\ sweep[r].fresh => sweep'[r].fresh
          \/ /\ sweep[r].pc = "claim" /\ Granting
             /\ sweep'[r].gen = row.gen + 1
             /\ sweep'[r].token = row.rev + 1
             /\ ~Stalls => sweep'[r].fresh

\* A job that was created stays.
LEMMA JobStays ==
  ASSUME ControlInv, [Next]_vars, row.state # "absent"
  PROVE  row'.state # "absent"
<1>1. RowKept
  BY StepIsTransaction
<1>2. CASE row' = row
  BY <1>2
<1>3. CASE Store!Next
  BY <1>3, RowFields
     DEF Store!Terminal, Store!Create, Store!Exists, Store!Write, Store!Created,
         Store!Claim, Store!Claimed, Store!Cancel, Store!Cancelled,
         Store!RequestCancel, Store!CancelRequested, Store!Revoked,
         Store!Quarantine, Store!ReapQuarantined, Store!ConsumeExpiredProof,
         Store!Unfenced, Store!LeaseExpires, Store!ReapExpires, Store!HolderStep,
         Store!Renew, Store!Renewed, Store!Release, Store!Released,
         Store!Publish, Store!Published, Store!AppendCheckpoint,
         Store!Checkpointed, Store!Settle, Store!Settled, Store!StorePair,
         Store!ReaperStep, Store!Authorize, Store!ReapAuthorized,
         Store!RecordProof, Store!ProofRecorded, Store!CompleteReap,
         Store!ConsumeDeathProof, Store!Next, RowType
<1>4. QED
  BY <1>1, <1>2, <1>3 DEF RowKept

\* A step of another registry, of a worker or of time leaves them alone.
LEMMA OthersPrepared ==
  ASSUME ControlInv, [Next]_vars, NEW r \in Registries, rt'[r] = rt[r],
         sweep'[r] \in {sweep[r], Granted[r]}
  PROVE  ClaimPrepared(r)
<1>1. /\ sweep'[r].pc = sweep[r].pc
      /\ sweep'[r].gen = sweep[r].gen
      /\ sweep'[r].token = sweep[r].token
      /\ sweep'[r].pc # "idle" /\ ~Stalls /\ sweep[r].fresh => sweep'[r].fresh
  BY SweepFields DEF Granted, SweepRecord
<1>2. sweep[r].pc = "claim" => rt[r].pc = "none" /\ row.state # "absent"
  BY DEF ControlInv, RecordsNameLeases
<1>3. QED
  BY <1>1, <1>2, JobStays DEF ClaimPrepared

\* A runner acts under a lease, or creates the job.
LEMMA RunnersPrepared ==
  ASSUME ControlInv, [Next]_vars, NEW r \in Registries, ProcessStep(r) \/ RunnerStep(r)
  PROVE  ClaimPrepared(r)
<1>1. CASE ProcessStep(r)
  <2>1. sweep'[r].pc = "idle"
    BY <1>1, Records DEF ProcessStep, Crash, Suspend, SweepDone, NoSweep
  <2>2. QED
    BY <2>1 DEF ClaimPrepared
<1>2. CASE RunnerStep(r)
  <2>1. sweep'[r] \in {sweep[r], Granted[r]}
    BY <1>2
       DEF RunnerStep, Create, AdmitNew, AdmitIdentity, StartOperation, Spawn,
           Collect, LocalCancel, Deadline, StopFor, Settle, HbRenew, HbLost,
           HbCancel, HbAck, RequestCancel
  <2>2. CASE sweep[r].pc \in {"claim", "identify"}
    <3>1. rt[r].pc = "none" /\ row.state # "absent" /\ rt[r].hb = "off"
      BY <2>2 DEF ControlInv, RecordsNameLeases, Unleased, NoRuntime
    <3>2. rt' = rt
      BY <1>2, <3>1
         DEF RunnerStep, Create, AdmitNew, AdmitIdentity, StartOperation, Spawn,
             Collect, LocalCancel, Deadline, StopFor, Settle, HbRenew, HbLost,
             HbCancel, HbAck, RequestCancel, Beats
    <3>3. QED
      BY <2>1, <3>2, OthersPrepared
  <2>3. CASE sweep[r].pc \notin {"claim", "identify"}
    BY <2>1, <2>3, SweepFields DEF ClaimPrepared, Granted, SweepRecord
  <2>4. QED
    BY <2>2, <2>3
<1>3. QED
  BY <1>1, <1>2

\* A sweep that goes on to its next candidate, or is done, does not claim.
LEMMA CandidateFields ==
  ASSUME ControlInv, NEW r \in Registries
  PROVE  /\ NextCandidate(r) => sweep'[r].pc \in {"authorize", "load"}
         /\ SweepDone(r) => sweep'[r] = NoSweep
         /\ \A pc : SweepTo(r, pc) => /\ sweep'[r].pc = pc
                                      /\ sweep'[r].gen = sweep[r].gen
                                      /\ sweep'[r].by = sweep[r].by
                                      /\ sweep'[r].kind = sweep[r].kind
                                      /\ sweep'[r].known = sweep[r].known
                                      /\ sweep'[r].own = sweep[r].own
<1>1. sweep \in [Registries -> SweepRecord] /\ sweep[r] \in SweepRecord
  BY Records
<1>2. NextCandidate(r) => sweep'[r].pc \in {"authorize", "load"}
  <2>1. OwnCandidate(r).pc = "authorize" /\ [sweep[r] EXCEPT !.pc = "load"].pc = "load"
    BY <1>1 DEF OwnCandidate, SweepRecord
  <2>2. QED
    BY <1>1, <2>1 DEF NextCandidate
<1>3. SweepDone(r) => sweep'[r] = NoSweep
  BY <1>1 DEF SweepDone
<1>4. ASSUME NEW pc, SweepTo(r, pc)
      PROVE  /\ sweep'[r].pc = pc
             /\ sweep'[r].gen = sweep[r].gen
             /\ sweep'[r].by = sweep[r].by
             /\ sweep'[r].kind = sweep[r].kind
             /\ sweep'[r].known = sweep[r].known
             /\ sweep'[r].own = sweep[r].own
  <2>1. sweep'[r] = [sweep[r] EXCEPT !.pc = pc]
    BY <1>1, <1>4 DEF SweepTo
  <2>2. QED
    BY <1>1, <2>1 DEF SweepRecord
<1>5. QED
  BY <1>2, <1>3, <1>4

\* A sweep prepares and makes a claim in List and Claim.
LEMMA SweepsPrepared ==
  ASSUME ControlInv, [Next]_vars, NEW r \in Registries, SweepStep(r)
  PROVE  ClaimPrepared(r)
<1>1. CASE List(r)
  <2>1. CASE /\ SweepTo(r, "claim") /\ rt[r].pc = "none" /\ rt' = rt /\ row' = row
             /\ Recoverable(row)
    BY <2>1, CandidateFields DEF ClaimPrepared, Recoverable
  <2>2. CASE SweepDone(r) \/ SweepTo(r, "ack")
    BY <2>2, CandidateFields DEF ClaimPrepared, NoSweep
  <2>3. QED
    BY <1>1, <2>1, <2>2 DEF List
<1>2. CASE Claim(r)
  <2>1. CASE SweepDone(r)
    BY <2>1, CandidateFields DEF ClaimPrepared, NoSweep
  <2>2. CASE /\ Claimable(row) /\ RevRoom /\ GenRoom /\ row' = Claimed(row)
             /\ sweep' = [Granted EXCEPT ![r].pc = "identify",
                                         ![r].gen = row.gen + 1,
                                         ![r].token = row.rev + 1]
    <3>1. Granted \in [Registries -> SweepRecord] /\ Granted[r] \in SweepRecord
      BY GrantedIsTyped
    <3>2. sweep'[r] = [Granted[r] EXCEPT !.pc = "identify", !.gen = row.gen + 1,
                                        !.token = row.rev + 1]
      BY <2>2, <3>1
    <3>3. Granted[r].fresh = (~Stalls /\ sweep[r].pc # "idle")
      BY SweepFields DEF Granted, SweepRecord
    <3>4. /\ sweep'[r].pc = "identify"
          /\ sweep'[r].gen = row.gen + 1
          /\ sweep'[r].token = row.rev + 1
          /\ sweep'[r].fresh = Granted[r].fresh
      BY <3>1, <3>2 DEF SweepRecord
    <3>5. QED
      BY <1>2, <2>2, <3>3, <3>4 DEF Claim, ClaimPrepared, Granting
  <2>3. QED
    BY <1>2, <2>1, <2>2 DEF Claim
<1>3. CASE ScanMarker(r) \/ ScanOwn(r) \/ Load(r)
  <2>1. CASE ScanMarker(r)
    <3> DEFINE absent == marker.kind = "intent" /\ ~Running(marker.by)
               found  == [pc |-> "authorize", gen |-> marker.gen, by |-> marker.by,
                    token |-> 0, known |-> deathProof, fresh |-> Fresh,
                    kind |-> IF absent THEN "spawn_absent" ELSE "worker_death",
                    receipt |-> marker.kind \in {"receipt", "cleanup"},
                    own |-> CASE absent -> "later"
                              [] ~absent /\ ~HasIdentity(r) -> "no"
                              [] OTHER -> IF marker.by = r THEN "merged" ELSE "next"]
               denied == [found EXCEPT !.pc = "denied", !.own = "later"]
    <3>1. found.pc = "authorize" /\ denied.pc = "denied"
      OBVIOUS
    <3>2. sweep' = [sweep EXCEPT ![r] = found] \/ sweep' = [sweep EXCEPT ![r] = denied]
      BY <2>1 DEF ScanMarker
    <3> HIDE DEF found, denied
    <3>3. sweep'[r] \in {found, denied}
      BY <3>2, Records
    <3>4. QED
      BY <3>1, <3>3 DEF ClaimPrepared
  <2>2. CASE ScanOwn(r)
    <3> DEFINE c == IF HasIdentity(r) THEN OwnCandidate(r)
                                      ELSE [NoSweep EXCEPT !.pc = "load"]
               n == [c EXCEPT !.known = deathProof, !.fresh = Fresh]
    <3>1. OwnCandidate(r).pc = "authorize" /\ [NoSweep EXCEPT !.pc = "load"].pc = "load"
      BY SweepFields DEF OwnCandidate, SweepRecord, NoSweep
    <3>2. c.pc \in {"authorize", "load"}
      BY <3>1
    <3>3. sweep' = [sweep EXCEPT ![r] = n]
      BY <2>2 DEF ScanOwn
    <3>4. n.pc = c.pc
      BY SweepFields DEF OwnCandidate, SweepRecord, NoSweep
    <3> HIDE DEF n, c
    <3>5. sweep'[r] = n
      BY <3>3, Records
    <3>6. QED
      BY <3>2, <3>4, <3>5 DEF ClaimPrepared
  <2>3. CASE Load(r)
    <3>1. sweep'[r].pc = "list"
      BY <2>3, Records DEF Load, NoSweep
    <3>2. QED
      BY <3>1 DEF ClaimPrepared
  <2>4. QED
    BY <1>3, <2>1, <2>2, <2>3
<1>4. CASE Authorize(r)
  <2>1. sweep'[r].pc \in {"kill", "record", "denied"}
    <3>1. \A pc, t : sweep' = [sweep EXCEPT ![r].pc = pc, ![r].token = t]
                       => sweep'[r].pc = pc
      BY Records DEF SweepRecord
    <3>2. QED
      BY <1>4, <3>1, CandidateFields DEF Authorize
  <2>2. QED
    BY <2>1 DEF ClaimPrepared
<1>5. CASE Kill(r) \/ Record(r) \/ Complete(r) \/ Finish(r) \/ Denied(r) \/ Ack(r)
             \/ ClaimIdentity(r)
  <2>1. sweep'[r].pc \in {"authorize", "load", "record", "complete", "finish",
                          "denied", "idle"}
    BY <1>5, CandidateFields
       DEF Kill, KillFound, KillAbsent, Record, Complete, Finish, Denied, Ack,
           ClaimIdentity, Refused, NoSweep
  <2>2. QED
    BY <2>1 DEF ClaimPrepared
<1>6. QED
  BY <1>1, <1>2, <1>3, <1>4, <1>5 DEF SweepStep

LEMMA ClaimsPrepared ==
  ASSUME ControlInv, [Next]_vars, NEW r \in Registries
  PROVE  ClaimPrepared(r)
<1>1. CASE UNCHANGED <<rt, sweep, up>>
  BY <1>1, OthersPrepared
<1>2. ASSUME NEW m \in Registries, ProcessStep(m) \/ RunnerStep(m) \/ SweepStep(m)
      PROVE  ClaimPrepared(r)
  <2>1. CASE m = r
    BY <1>2, <2>1, RunnersPrepared, SweepsPrepared
  <2>2. CASE m # r
    BY <1>2, <2>2, ActorMoves, OthersPrepared DEF Mover
  <2>3. QED
    BY <2>1, <2>2
<1>3. CASE \E m \in Registries : WorkerStep(m)
  BY <1>1, <1>3 DEF WorkerStep, WorkerBoots, WorkerExits, WorkerDies
<1>4. CASE LeaseExpires \/ ReapExpires \/ UNCHANGED vars
  BY <1>1, <1>4 DEF LeaseExpires, ReapExpires, vars
<1>5. QED
  BY <1>2, <1>3, <1>4 DEF Next

\* Processes only die, and one that has died keeps nothing.
LEMMA ProcessesDie ==
  ASSUME ControlInv, [Next]_vars
  PROVE  /\ up' \in [Registries -> BOOLEAN]
         /\ \A r \in Registries : up'[r] => up[r]
         /\ DeadIsBlank'
<1>0. up \in [Registries -> BOOLEAN] /\ sweep \in [Registries -> SweepRecord]
  BY Records
<1>1. CASE UNCHANGED <<rt, sweep, up>>
  BY <1>0, <1>1 DEF ControlInv, DeadIsBlank
<1>2. ASSUME NEW m \in Registries, ProcessStep(m)
      PROVE  /\ up' = [up EXCEPT ![m] = FALSE]
             /\ rt'[m] = NoRuntime /\ sweep'[m] = NoSweep
  BY <1>0, <1>2, Records DEF ProcessStep, Crash, Suspend, SetRt, SweepDone
<1>3. ASSUME NEW m \in Registries, RunnerStep(m) \/ SweepStep(m)
      PROVE  up' = up /\ up[m]
  <2>1. CASE RunnerStep(m)
    BY <2>1
       DEF RunnerStep, Create, AdmitNew, AdmitIdentity, StartOperation, Spawn,
           Collect, LocalCancel, Deadline, StopFor, Settle, HbRenew, HbLost,
           HbCancel, HbAck, RequestCancel, Beats
  <2>2. CASE SweepStep(m)
    <3>1. up[m] \/ sweep[m].pc # "idle"
      BY <2>2
         DEF SweepStep, ScanMarker, ScanOwn, Authorize, Kill, Record, Complete,
             Finish, Denied, Load, List, Ack, Claim, ClaimIdentity
    <3>2. up[m]
      BY <3>1 DEF ControlInv, DeadIsBlank, NoSweep
    <3>3. up' = up
      BY <2>2
         DEF SweepStep, ScanMarker, ScanOwn, Authorize, Kill, Record, Complete,
             Finish, Denied, Load, List, Ack, Claim, ClaimIdentity
    <3>4. QED
      BY <3>2, <3>3
  <2>3. QED
    BY <1>3, <2>1, <2>2
<1>4. ASSUME NEW m \in Registries, ProcessStep(m) \/ RunnerStep(m) \/ SweepStep(m)
      PROVE  /\ up' \in [Registries -> BOOLEAN]
             /\ \A r \in Registries : up'[r] => up[r]
             /\ DeadIsBlank'
  <2>1. Mover(m)
    BY <1>4, ActorMoves
  <2>2. up' \in [Registries -> BOOLEAN] /\ \A r \in Registries : up'[r] => up[r]
    BY <1>0, <1>2, <1>3, <1>4
  <2>3. ASSUME NEW r \in Registries, ~up'[r]
        PROVE  rt'[r] = NoRuntime /\ sweep'[r] = NoSweep
    <3>1. CASE r = m
      BY <1>2, <1>3, <1>4, <2>3, <3>1
    <3>2. CASE r # m
      <4>1. ~up[r] /\ rt'[r] = rt[r] /\ sweep'[r] \in {sweep[r], Granted[r]}
        BY <2>1, <2>3, <3>2 DEF Mover
      <4>2. rt[r] = NoRuntime /\ sweep[r] = NoSweep
        BY <4>1 DEF ControlInv, DeadIsBlank
      <4>3. Granted[r] = NoSweep
        <5>1. sweep[r].pc = "idle" /\ sweep[r].fresh = FALSE
          BY <4>2 DEF NoSweep
        <5>2. [sweep[r] EXCEPT !.fresh = FALSE] = sweep[r]
          BY <5>1, SweepFields DEF SweepRecord
        <5>3. Granted[r] = [sweep[r] EXCEPT !.fresh = FALSE]
          BY <5>1 DEF Granted
        <5>4. QED
          BY <4>2, <5>2, <5>3
      <4>4. QED
        BY <4>1, <4>2, <4>3
    <3>3. QED
      BY <3>1, <3>2
  <2>4. QED
    BY <2>2, <2>3 DEF DeadIsBlank
<1>5. CASE LeaseExpires \/ ReapExpires \/ UNCHANGED vars \/ \E m \in Registries : WorkerStep(m)
  BY <1>1, <1>5
     DEF LeaseExpires, ReapExpires, vars, WorkerStep, WorkerBoots, WorkerExits,
         WorkerDies
<1>6. QED
  BY <1>4, <1>5 DEF Next

\* What a grant does to the row.
LEMMA GrantingRow ==
  ASSUME ControlInv, Granting
  PROVE  /\ row'.gen = row.gen + 1
         /\ row'.rev = row.rev + 1
         /\ row'.owner = row.gen + 1
         /\ row'.live
         /\ row'.cancelling = row.cancelling
         /\ row.gen + 1 \in Gens
         /\ row'.gen # row.gen
BY RowFields, ControlAssumption DEF Granting, Claimed, RowType, GenRoom, Gens

\* Records keep naming their leases.
LEMMA RecordsNameLeasesStep ==
  ASSUME ControlInv, [Next]_vars
  PROVE  RecordsNameLeases'
<1>0. row.gen \in Nat /\ row'.gen \in Nat /\ row'.gen >= row.gen
  BY RowFields, RowAfterStep
<1>1. ASSUME NEW r \in Registries
      PROVE  /\ rt'[r].pc \in {"none", "created"}
                  => rt'[r] = [NoRuntime EXCEPT !.pc = rt'[r].pc]
             /\ rt'[r].pc \notin {"none", "created"} => rt'[r].gen # 0
             /\ rt'[r].gen <= row'.gen
             /\ rt'[r].pc = "claimed" => rt'[r].own /\ rt'[r].hb = "off"
             /\ rt'[r].pc \in {"stopping", "settling"} => rt'[r].want \in Terminal
  <2>1. /\ Unleased(r) => rt[r] = [NoRuntime EXCEPT !.pc = rt[r].pc]
        /\ ~Unleased(r) => rt[r].gen # 0
        /\ rt[r].gen <= row.gen
        /\ rt[r].pc = "claimed" => rt[r].own /\ rt[r].hb = "off"
        /\ rt[r].pc \in {"stopping", "settling"} => rt[r].want \in Terminal
    BY DEF ControlInv, RecordsNameLeases
  <2>2. rt[r].gen <= row'.gen
    BY <1>0, <2>1, RecordFields
  <2>3. RecordMoves(r)
    BY EachRecordMoves
  <2>4. CASE rt'[r] = rt[r]
    BY <2>1, <2>2, <2>4 DEF Unleased
  <2>5. CASE rt'[r] = NoRuntime
    BY <1>0, <2>5, BlankFields
  <2>6. CASE rt'[r] = CreatedRecord
    BY <1>0, <2>6, BlankFields
  <2>7. CASE rt'[r] = ClaimedRecord /\ Granting
    BY <1>0, <2>7, ClaimedFields, GrantingRow
  <2>8. CASE rt'[r] = Admitted(Grant(r), Copy(r)) /\ row.owner # 0 /\ row' = row
    <3>1. row.gen # 0
      BY <2>8, RowFields
    <3>2. QED
      BY <1>0, <2>8, <3>1, AdmittedFields
  <2>9. CASE RecordGoesOn(r)
    BY <2>1, <2>2, <2>9 DEF RecordGoesOn
  <2>10. QED
    BY <2>3, <2>4, <2>5, <2>6, <2>7, <2>8, <2>9 DEF RecordMoves
<1>2. ASSUME NEW r \in Registries
      PROVE  /\ sweep'[r].pc \in {"claim", "identify"} =>
                  rt'[r].pc = "none" /\ row'.state # "absent"
             /\ sweep'[r].pc = "identify" =>
                  sweep'[r].gen \in Gens /\ sweep'[r].gen <= row'.gen
  <2>1. ClaimPrepared(r)
    BY ClaimsPrepared
  <2>2. /\ sweep[r].pc \in {"claim", "identify"} =>
             rt[r].pc = "none" /\ row.state # "absent"
        /\ sweep[r].pc = "identify" => sweep[r].gen \in Gens /\ sweep[r].gen <= row.gen
    BY DEF ControlInv, RecordsNameLeases
  <2>3. CASE sweep'[r].pc = "claim"
    BY <2>1, <2>3 DEF ClaimPrepared
  <2>4. CASE sweep'[r].pc = "identify"
    <3>1. rt'[r].pc = "none" /\ row'.state # "absent"
      BY <2>1, <2>2, <2>4, JobStays DEF ClaimPrepared
    <3>2. CASE sweep[r].pc = "identify" /\ sweep'[r].gen = sweep[r].gen
      BY <1>0, <2>2, <2>4, <3>1, <3>2, ControlAssumption DEF Gens
    <3>3. CASE Granting /\ sweep'[r].gen = row.gen + 1
      BY <1>0, <2>4, <3>1, <3>3, GrantingRow
    <3>4. QED
      BY <2>1, <2>4, <3>2, <3>3 DEF ClaimPrepared
  <2>5. QED
    BY <2>3, <2>4
<1>3. QED
  BY <1>1, <1>2 DEF RecordsNameLeases, Unleased

\* A record whose worker was spawned stays or goes on, as long as its process lives;
\* a spawn goes on under the lease of the record.
LEMMA SpawnedGoesOn ==
  ASSUME ControlInv, [Next]_vars, NEW r \in Registries,
         (worker[r].gen # 0 /\ up'[r]) \/ Spawning(r)
  PROVE  rt'[r] = rt[r] \/ RecordGoesOn(r)
<1>1. up[r] /\ up'[r] /\ ~Unleased(r) /\ rt[r].pc # "claimed"
  BY ProcessesDie, SpawnedIsLeased DEF Spawning, Unleased
<1>2. ~Reading(r)
  BY <1>1 DEF Reading, ControlInv, RecordsNameLeases, Unleased
<1>3. QED
  BY <1>1, <1>2, EachRecordMoves DEF RecordMoves, Unleased

\* A spawn starts the worker of the record it is spawned for.
LEMMA SpawningFields ==
  ASSUME ControlInv, [Next]_vars, NEW r \in Registries, Spawning(r)
  PROVE  /\ RecordGoesOn(r)
         /\ worker'[r].gen = rt[r].gen /\ worker'[r].gen = rt'[r].gen
         /\ rt[r].gen # 0 /\ rt'[r].own = rt[r].own
<1>1. RecordGoesOn(r)
  BY SpawnedGoesOn DEF Spawning
<1>2. rt[r].gen # 0
  BY <1>1 DEF RecordGoesOn, ControlInv, RecordsNameLeases
<1>3. QED
  BY <1>1, <1>2 DEF Spawning, RecordGoesOn

\* Workers keep going by the lease of their registry's record.
LEMMA WorkersNameLeasesStep ==
  ASSUME ControlInv, [Next]_vars
  PROVE  WorkersNameLeases'
<1> SUFFICES ASSUME NEW r \in Registries
             PROVE  /\ worker'[r].st = "none" <=> worker'[r].gen = 0
                    /\ worker'[r].gen <= row'.gen
                    /\ up'[r] => worker'[r].gen \in {0, rt'[r].gen}
                    /\ up'[r] /\ rt'[r].pc \in Unspawned => worker'[r].gen = 0
                    /\ rt'[r].ident # "none" => worker'[r].gen # 0
  BY DEF WorkersNameLeases
<1>1. /\ worker[r].gen <= row.gen
      /\ up[r] => worker[r].gen \in {0, rt[r].gen}
      /\ up[r] /\ rt[r].pc \in Unspawned => worker[r].gen = 0
      /\ rt[r].ident # "none" => worker[r].gen # 0
      /\ rt[r].gen <= row.gen
  BY DEF ControlInv, WorkersNameLeases, RecordsNameLeases
<1>2. row.gen \in Nat /\ row'.gen \in Nat /\ row'.gen >= row.gen
  BY RowFields, RowAfterStep
<1>3. CASE Spawning(r)
  <2>1. /\ worker'[r].gen = rt[r].gen /\ worker'[r].gen = rt'[r].gen /\ rt[r].gen # 0
    BY <1>3, SpawningFields
  <2>2. rt'[r].pc \notin Unspawned
    BY <1>3 DEF Spawning, Unspawned
  <2>3. rt[r].gen <= row'.gen
    BY <1>1, <1>2, RecordFields
  <2>4. worker'[r].st = "none" <=> worker'[r].gen = 0
    BY WorkersAge
  <2>5. QED
    BY <2>1, <2>2, <2>3, <2>4
<1>4. CASE ~Spawning(r)
  <2>1. worker'[r].gen = worker[r].gen
    BY <1>4, WorkersAge
  <2>2. CASE worker[r].gen # 0
    <3>1. ASSUME up'[r]
          PROVE  worker[r].gen = rt'[r].gen /\ rt'[r].pc \notin Unspawned
      <4>1. up[r] /\ worker[r].gen = rt[r].gen /\ rt[r].pc \notin Unspawned
        BY <1>1, <2>2, <3>1, ProcessesDie
      <4>2. rt'[r] = rt[r] \/ RecordGoesOn(r)
        BY <2>2, <3>1, SpawnedGoesOn
      <4>3. QED
        BY <4>1, <4>2 DEF RecordGoesOn, Unspawned
    <3>2. QED
      BY <1>1, <1>2, <2>1, <2>2, <3>1, WorkerFields, WorkersAge
  <2>3. CASE worker[r].gen = 0
    <3>1. rt'[r].ident = "none"
      <4>1. rt[r].ident = "none"
        BY <1>1, <2>3
      <4>2. CASE RecordGoesOn(r)
        BY <2>1, <2>3, <4>1, <4>2 DEF RecordGoesOn
      <4>3. CASE rt'[r] = Admitted(Grant(r), Copy(r))
        BY <4>3, AdmittedFields
      <4>4. CASE rt'[r] \in {rt[r], NoRuntime, CreatedRecord, ClaimedRecord}
        BY <4>1, <4>4, BlankFields, ClaimedFields
      <4>5. RecordMoves(r)
        BY EachRecordMoves
      <4>6. QED
        BY <4>2, <4>3, <4>4, <4>5 DEF RecordMoves
    <3>2. QED
      BY <1>2, <2>1, <2>3, <3>1, WorkersAge
  <2>4. QED
    BY <2>2, <2>3
<1>5. QED
  BY <1>3, <1>4

\* The worker of a record that settles stays gone.
LEMMA SettlingStep ==
  ASSUME ControlInv, [Next]_vars
  PROVE  SettlingIsStopped'
<1> SUFFICES ASSUME NEW r \in Registries, rt'[r].pc = "settling"
             PROVE  ~Running(r)'
  BY DEF SettlingIsStopped
<1>1. CASE rt[r].pc = "settling"
  <2>1. ~Running(r) /\ ~Spawning(r)
    BY <1>1 DEF ControlInv, SettlingIsStopped, Spawning
  <2>2. QED
    BY <2>1, WorkersAge
<1>2. CASE rt[r].pc # "settling"
  <2>1. RecordGoesOn(r)
    BY <1>2, EachRecordMoves, BlankFields, ClaimedFields, AdmittedFields DEF RecordMoves
  <2>2. QED
    BY <1>2, <2>1 DEF RecordGoesOn
<1>3. QED
  BY <1>1, <1>2

\* A registry that goes by another's lease goes on waiting.
LEMMA ForeignWaitsStep ==
  ASSUME ControlInv, [Next]_vars
  PROVE  ForeignWaits'
<1> SUFFICES ASSUME NEW r \in Registries, rt'[r].gen # 0, ~rt'[r].own,
                    ~IsTerminal(row')
             PROVE  /\ rt'[r].pc \in {"admitted", "settling", "stuck"}
                    /\ worker'[r].gen = 0
  BY DEF ForeignWaits, Foreign, IsTerminal
<1>1. ~IsTerminal(row)
  BY RowAfterStep
<1>2. CASE Foreign(r) /\ (rt'[r] = rt[r] \/ RecordGoesOn(r))
  <2>1. rt[r].pc \in {"admitted", "settling", "stuck"} /\ worker[r].gen = 0
    BY <1>1, <1>2 DEF ControlInv, ForeignWaits
  <2>2. ~Spawning(r)
    BY <2>1 DEF Spawning
  <2>3. worker'[r].gen = 0
    BY <2>1, <2>2, WorkersAge
  <2>4. rt'[r].pc \in RuntimePcs
    BY EachRecordMoves DEF RuntimeRecord
  <2>5. QED
    BY <1>1, <1>2, <2>1, <2>3, <2>4 DEF RecordGoesOn, Foreign, RuntimePcs
<1>3. CASE rt'[r] = Admitted(Grant(r), Copy(r)) /\ Reading(r)
  <2>1. rt[r].pc \in {"none", "claimed"}
    BY <1>3 DEF Reading, ControlInv, RecordsNameLeases
  <2>2. rt[r] # NoRuntime \/ sweep[r] # NoSweep
    BY <1>3 DEF Reading, NoRuntime, NoSweep
  <2>3. up[r]
    BY <2>2, Records DEF ControlInv, DeadIsBlank
  <2>4. worker[r].gen = 0 /\ ~Spawning(r)
    BY <2>1, <2>3 DEF ControlInv, WorkersNameLeases, Unspawned, Spawning
  <2>5. QED
    BY <1>3, <2>4, AdmittedFields, WorkersAge
<1>4. QED
  BY <1>2, <1>3, EachRecordMoves, BlankFields, ClaimedFields, AdmittedFields DEF RecordMoves, RecordGoesOn, Foreign
-------------------------------------------------------------------------------
(* The leases that were granted. *)

\* The lease a registry was granted is none, the one it was, or one the row has just
\* granted, to a registry that moves.
LEMMA GrantMoves ==
  ASSUME ControlInv, [Next]_vars, NEW r \in Registries
  PROVE  /\ Grant(r)' \in Nat
         /\ \/ Grant(r)' \in {0, Grant(r)}
            \/ /\ Grant(r)' = row.gen + 1 /\ Granting
               /\ rt'[r] # rt[r] \/ sweep'[r].pc # sweep[r].pc
<1>0. Grant(r) \in Nat /\ row.gen \in Nat
  BY GrantGen, RowFields
<1>1. RecordMoves(r) /\ ClaimPrepared(r)
  BY EachRecordMoves, ClaimsPrepared
<1>2. CASE sweep'[r].pc = "identify"
  <2>1. rt'[r] = rt[r] /\ sweep[r].pc \in {"claim", "identify"}
    BY <1>1, <1>2 DEF ClaimPrepared
  <2>2. ~rt'[r].own /\ ~rt[r].own
    <3>1. Unleased(r)
      BY <2>1 DEF ControlInv, RecordsNameLeases, Unleased
    <3>2. QED
      BY <2>1, <3>1, BlankRecord
  <2>3. Grant(r)' = sweep'[r].gen
    BY <1>2, <2>2 DEF Grant
  <2>4. sweep[r].pc = "identify" => Grant(r) = sweep[r].gen
    BY <2>2 DEF Grant
  <2>5. QED
    BY <1>0, <1>1, <1>2, <2>3, <2>4 DEF ClaimPrepared
<1>3. CASE sweep'[r].pc # "identify"
  <2>0. Grant(r)' = IF rt'[r].own THEN rt'[r].gen ELSE 0
    BY <1>3 DEF Grant
  <2>1. CASE rt'[r].gen = rt[r].gen /\ rt'[r].own = rt[r].own
    BY <1>0, <2>0, <2>1 DEF Grant
  <2>2. CASE rt'[r] = NoRuntime \/ rt'[r] = CreatedRecord
    <3>1. ~rt'[r].own
      BY <2>2, BlankFields
    <3>2. QED
      BY <2>0, <3>1
  <2>3. CASE rt'[r] = ClaimedRecord /\ rt[r].pc = "created" /\ Granting
    BY <1>0, <2>0, <2>3, ClaimedFields
  <2>4. CASE rt'[r] = Admitted(Grant(r), Copy(r))
    BY <1>0, <2>0, <2>4, AdmittedFields
  <2>5. QED
    BY <1>1, <2>1, <2>2, <2>3, <2>4 DEF RecordMoves, RecordGoesOn
<1>4. QED
  BY <1>2, <1>3

\* As long as the job goes on, a worker is only spawned under a lease that its registry
\* was granted.
LEMMA SpawnIsGranted ==
  ASSUME ControlInv, [Next]_vars, NEW r \in Registries, Spawning(r), ~IsTerminal(row)
  PROVE  rt[r].own /\ Grant(r) = rt[r].gen /\ rt[r].gen # 0
<1>1. rt[r].gen # 0
  BY SpawningFields
<1>2. rt[r].own
  BY <1>1, RecordFields DEF Spawning, ControlInv, ForeignWaits, Foreign
<1>3. QED
  BY <1>1, <1>2 DEF Grant

LEMMA WorkerGens ==
  ASSUME ControlInv, [Next]_vars, NEW r \in Registries, ~IsTerminal(row)
  PROVE  /\ worker'[r].gen \in {worker[r].gen, Grant(r)}
         /\ worker'[r].gen \in Nat
         /\ worker'[r].gen <= row.gen
<1>1. worker[r].gen <= row.gen /\ rt[r].gen <= row.gen
  BY DEF ControlInv, WorkersNameLeases, RecordsNameLeases
<1>2. CASE Spawning(r)
  BY <1>1, <1>2, SpawnIsGranted, SpawningFields, RecordFields
<1>3. CASE ~Spawning(r)
  BY <1>1, <1>3, WorkersAge, WorkerFields
<1>4. QED
  BY <1>2, <1>3

\* A generation goes on being granted to one registry, and having one worker.
LEMMA GrantsUniqueStep ==
  ASSUME ControlInv, [Next]_vars
  PROVE  GrantsUnique'
<1> SUFFICES ASSUME NEW r \in Registries, NEW s \in Registries, r # s
             PROVE  /\ Grant(r)' # 0 => Grant(r)' # Grant(s)'
                    /\ worker'[r].gen # 0 /\ ~IsTerminal(row') =>
                         /\ worker'[r].gen # worker'[s].gen
                         /\ worker'[r].gen # Grant(s)'
  BY DEF GrantsUnique, IsTerminal
<1>0. /\ row.gen \in Nat
      /\ Grant(r) \in Nat /\ Grant(r) <= row.gen
      /\ Grant(s) \in Nat /\ Grant(s) <= row.gen
  BY RowFields, GrantGen
<1>1. /\ Grant(r) # 0 => Grant(r) # Grant(s)
      /\ Grant(s) # 0 => Grant(s) # Grant(r)
      /\ worker[r].gen # 0 /\ ~IsTerminal(row) =>
           worker[r].gen # worker[s].gen /\ worker[r].gen # Grant(s)
      /\ worker[s].gen # 0 /\ ~IsTerminal(row) =>
           worker[s].gen # worker[r].gen /\ worker[s].gen # Grant(r)
  BY DEF ControlInv, GrantsUnique
<1>2. /\ Grant(r)' \in {0, Grant(r)} \/ Grant(r)' = row.gen + 1
      /\ Grant(s)' \in {0, Grant(s)} \/ Grant(s)' = row.gen + 1
  BY GrantMoves
<1>3. Grant(r)' \in {0, Grant(r)} \/ Grant(s)' \in {0, Grant(s)}
  <2>1. \/ rt'[r] = rt[r] /\ sweep'[r] \in {sweep[r], Granted[r]}
        \/ rt'[s] = rt[s] /\ sweep'[s] \in {sweep[s], Granted[s]}
    BY EachRecordMoves
  <2>2. Granted[r].pc = sweep[r].pc /\ Granted[s].pc = sweep[s].pc
    BY SweepFields DEF Granted, SweepRecord
  <2>3. QED
    BY <2>1, <2>2, GrantMoves
<1>4. Grant(r)' # 0 => Grant(r)' # Grant(s)'
  BY <1>0, <1>1, <1>2, <1>3
<1>5. ASSUME worker'[r].gen # 0, ~IsTerminal(row')
      PROVE  worker'[r].gen # worker'[s].gen /\ worker'[r].gen # Grant(s)'
  <2>1. ~IsTerminal(row)
    BY <1>5, RowAfterStep
  <2>2. /\ worker'[r].gen \in {worker[r].gen, Grant(r)}
        /\ worker'[r].gen \in Nat
        /\ worker'[r].gen <= row.gen
        /\ worker'[s].gen \in {worker[s].gen, Grant(s)}
    BY <2>1, WorkerGens
  <2>3. worker'[r].gen # worker'[s].gen
    BY <1>1, <1>5, <2>1, <2>2
  <2>4. worker'[r].gen # Grant(s)'
    BY <1>0, <1>1, <1>2, <1>5, <2>1, <2>2
  <2>5. QED
    BY <2>3, <2>4
<1>6. QED
  BY <1>4, <1>5
-------------------------------------------------------------------------------
(* The copies of the snapshot. *)

\* A lease is started by a publication, and a new one is not.
LEMMA StartIsPublished ==
  ASSUME ControlInv, [Next]_vars, ~IsTerminal(row')
  PROVE  /\ Lead \in {0, 1} /\ Lead' \in {0, 1}
         /\ row'.gen # row.gen => Lead' = 0
         /\ row'.gen = row.gen => row'.rev + Lead >= row.rev + Lead'
<1>0. /\ row.gen \in Nat /\ row'.gen \in Nat /\ row'.gen >= row.gen
      /\ row.rev \in Nat /\ row'.rev \in Nat /\ row'.rev >= row.rev
      /\ ~IsTerminal(row)
  BY RowFields, RowAfterStep
<1>1. Lead \in {0, 1} /\ Lead' \in {0, 1}
  BY DEF Lead
<1>2. ASSUME NEW s \in Registries, worker'[s].gen = row'.gen, row'.gen # 0
      PROVE  row'.gen = row.gen /\ Started
  <2>1. row'.gen = row.gen
    BY <1>0, <1>2, WorkerGens
  <2>2. CASE Spawning(s)
    <3>1. rt[s].own /\ rt[s].gen = row.gen /\ rt[s].pc = "intent"
      BY <1>0, <1>2, <2>1, <2>2, SpawnIsGranted, SpawningFields DEF Spawning
    <3>2. QED
      BY <2>1, <3>1 DEF Started
  <2>3. CASE ~Spawning(s)
    <3>1. worker[s].gen = row.gen /\ row.gen # 0
      BY <1>2, <2>1, <2>3, WorkersAge
    <3>2. QED
      BY <2>1, <3>1 DEF Started
  <2>4. QED
    BY <2>2, <2>3
<1>3. ASSUME NEW s \in Registries, rt'[s].own, rt'[s].gen = row'.gen,
             rt'[s].pc = "intent"
      PROVE  /\ row'.gen = row.gen
             /\ Started \/ row'.rev = row.rev + 1
  <2>1. rt'[s] = rt[s] \/ RecordGoesOn(s)
    BY <1>3, EachRecordMoves, BlankFields, ClaimedFields, AdmittedFields
       DEF RecordMoves
  <2>2. rt[s].gen = rt'[s].gen /\ rt[s].own
    BY <1>3, <2>1 DEF RecordGoesOn
  <2>3. rt[s].gen <= row.gen /\ rt[s].gen \in Nat
    BY RecordFields DEF ControlInv, RecordsNameLeases
  <2>4. row'.gen = row.gen
    BY <1>0, <1>3, <2>2, <2>3
  <2>5. rt[s].pc = "intent" \/ row'.rev = row.rev + 1
    BY <1>0, <1>3, <2>1 DEF RecordGoesOn
  <2>6. rt[s].pc = "intent" => Started
    BY <1>3, <2>2, <2>4 DEF Started
  <2>7. QED
    BY <2>4, <2>5, <2>6
<1>4. Started' => row'.gen = row.gen /\ (Started \/ row'.rev = row.rev + 1)
  BY <1>2, <1>3 DEF Started
<1>5. row'.gen # row.gen => Lead' = 0
  BY <1>4 DEF Lead
<1>6. row'.gen = row.gen => row'.rev + Lead >= row.rev + Lead'
  <2>1. CASE Started' /\ Started
    <3>1. Lead = 1 /\ Lead' = 1
      BY <2>1 DEF Lead
    <3>2. QED
      BY <1>0, <3>1
  <2>2. CASE Started' /\ row'.rev = row.rev + 1
    BY <1>0, <1>1, <2>2
  <2>3. CASE ~Started'
    <3>1. Lead' = 0
      BY <2>3 DEF Lead
    <3>2. QED
      BY <1>0, <1>1, <3>1
  <2>4. QED
    BY <1>4, <2>1, <2>2, <2>3
<1>7. QED
  BY <1>1, <1>5, <1>6

\* A registry that reads its claim back still has the lease and the copy the claim
\* gave it, or has just claimed.
LEMMA ReadingMoves ==
  ASSUME ControlInv, [Next]_vars, NEW r \in Registries, Reading(r)'
  PROVE  \/ /\ Reading(r) /\ Grant(r)' = Grant(r) /\ Copy(r)' = Copy(r)
            /\ rt'[r] = rt[r]
            /\ sweep'[r].pc = "identify" =>
                 sweep[r].pc = "identify" /\ (~Stalls /\ sweep[r].fresh => sweep'[r].fresh)
         \/ /\ Granting /\ Grant(r)' = row.gen + 1 /\ Copy(r)' = row.rev + 1
            /\ sweep'[r].pc = "identify" /\ ~Stalls => sweep'[r].fresh
<1>1. RecordMoves(r) /\ ClaimPrepared(r)
  BY EachRecordMoves, ClaimsPrepared
<1>2. CASE sweep'[r].pc = "identify"
  <2>1. rt'[r] = rt[r] /\ sweep[r].pc \in {"claim", "identify"}
    BY <1>1, <1>2 DEF ClaimPrepared
  <2>2. ~rt'[r].own /\ ~rt[r].own
    <3>1. Unleased(r)
      BY <2>1 DEF ControlInv, RecordsNameLeases, Unleased
    <3>2. QED
      BY <2>1, <3>1, BlankRecord
  <2>3. Grant(r)' = sweep'[r].gen /\ Copy(r)' = sweep'[r].token
    BY <1>2, <2>2 DEF Grant, Copy
  <2>4. sweep[r].pc = "identify" =>
          Reading(r) /\ Grant(r) = sweep[r].gen /\ Copy(r) = sweep[r].token
    BY <2>2 DEF Grant, Copy, Reading
  <2>5. QED
    BY <1>1, <1>2, <2>1, <2>3, <2>4 DEF ClaimPrepared
<1>3. CASE sweep'[r].pc # "identify"
  <2>1. rt'[r].pc = "claimed"
    BY <1>3 DEF Reading
  <2>2. CASE rt'[r] = rt[r]
    <3>1. rt[r].pc = "claimed" /\ rt[r].own /\ sweep[r].pc # "identify"
      BY <2>1, <2>2 DEF ControlInv, RecordsNameLeases
    <3>2. QED
      BY <1>3, <2>2, <3>1 DEF Grant, Copy, Reading
  <2>3. CASE rt'[r] = ClaimedRecord /\ Granting
    BY <1>3, <2>3, ClaimedFields DEF Grant, Copy
  <2>4. QED
    BY <1>1, <2>1, <2>2, <2>3, BlankFields, AdmittedFields
       DEF RecordMoves, RecordGoesOn
<1>4. QED
  BY <1>2, <1>3

LEMMA CopiesAreBehindStep ==
  ASSUME ControlInv, [Next]_vars
  PROVE  CopiesAreBehind'
<1> SUFFICES ASSUME ~IsTerminal(row'), NEW r \in Registries
             PROVE  /\ Reading(r)' /\ Grant(r)' = row'.gen => row'.rev >= Copy(r)'
                    /\ Reading(r)' /\ Grant(r)' < row'.gen
                         => row'.rev >= Copy(r)' + 1 + Lead'
                    /\ Foreign(r)' /\ rt'[r].gen = row'.gen
                         => row'.rev >= rt'[r].rev + Lead'
                    /\ Foreign(r)' /\ rt'[r].gen = row'.gen /\ rt'[r].pc = "admitted"
                         => row'.rev >= rt'[r].rev + 1 + Lead'
  BY DEF CopiesAreBehind, IsTerminal
<1>0. /\ row.gen \in Nat /\ row'.gen \in Nat /\ row'.gen >= row.gen
      /\ row.rev \in Nat /\ row'.rev \in Nat /\ row'.rev >= row.rev
      /\ row'.gen # row.gen => row'.rev >= row.rev + 1
      /\ ~IsTerminal(row)
  BY RowFields, RowAfterStep
<1>1. /\ Lead \in {0, 1} /\ Lead' \in {0, 1}
      /\ row'.gen # row.gen => Lead' = 0
      /\ row'.gen = row.gen => row'.rev + Lead >= row.rev + Lead'
  BY StartIsPublished
<1>2. /\ Reading(r) /\ Grant(r) = row.gen => row.rev >= Copy(r)
      /\ Reading(r) /\ Grant(r) < row.gen => row.rev >= Copy(r) + 1 + Lead
      /\ Foreign(r) /\ rt[r].gen = row.gen => row.rev >= rt[r].rev + Lead
      /\ Foreign(r) /\ rt[r].gen = row.gen /\ rt[r].pc = "admitted"
           => row.rev >= rt[r].rev + 1 + Lead
  BY <1>0 DEF ControlInv, CopiesAreBehind
<1>3. /\ Grant(r) \in Nat /\ Grant(r) <= row.gen
      /\ Reading(r) => Copy(r) \in Nat
      /\ rt[r].rev \in Nat /\ rt[r].gen \in Nat /\ rt[r].gen <= row.gen
  BY GrantGen, RecordFields DEF ControlInv, RecordsNameLeases
<1>4. ASSUME Reading(r)'
      PROVE  /\ Grant(r)' = row'.gen => row'.rev >= Copy(r)'
             /\ Grant(r)' < row'.gen => row'.rev >= Copy(r)' + 1 + Lead'
  <2>1. CASE Granting /\ Grant(r)' = row.gen + 1 /\ Copy(r)' = row.rev + 1
    <3>1. row'.gen = row.gen + 1 /\ row'.rev = row.rev + 1
      BY <2>1, GrantingRow
    <3>2. QED
      BY <1>0, <2>1, <3>1
  <2>2. CASE Reading(r) /\ Grant(r)' = Grant(r) /\ Copy(r)' = Copy(r)
    <3>1. CASE row'.gen = row.gen
      BY <1>0, <1>1, <1>2, <1>3, <2>2, <3>1
    <3>2. CASE row'.gen # row.gen
      BY <1>0, <1>1, <1>2, <1>3, <2>2, <3>2
    <3>3. QED
      BY <3>1, <3>2
  <2>3. QED
    BY <1>4, <2>1, <2>2, ReadingMoves
<1>5. ASSUME Foreign(r)', rt'[r].gen = row'.gen
      PROVE  /\ row'.rev >= rt'[r].rev + Lead'
             /\ rt'[r].pc = "admitted" => row'.rev >= rt'[r].rev + 1 + Lead'
  <2>1. CASE rt'[r] = rt[r] \/ RecordGoesOn(r)
    <3>1. /\ Foreign(r) /\ rt[r].gen = row'.gen
          /\ \/ rt'[r].rev = rt[r].rev
             \/ rt[r].pc = "admitted" /\ rt'[r].pc = "settling"
                  /\ rt'[r].rev \in {0, rt[r].rev + 1}
          /\ rt'[r].pc = "admitted" => rt[r].pc = "admitted" /\ rt'[r].rev = rt[r].rev
      BY <1>5, <2>1 DEF RecordGoesOn, Foreign
    <3>2. rt[r].gen = row.gen /\ row'.gen = row.gen
      BY <1>0, <1>3, <3>1
    <3>3. QED
      BY <1>0, <1>1, <1>2, <1>3, <3>1, <3>2
  <2>2. CASE rt'[r] = Admitted(Grant(r), Copy(r)) /\ Reading(r) /\ row' = row
    <3>0. ~rt'[r].own
      BY <1>5 DEF Foreign
    <3>1. rt'[r].rev = Copy(r) /\ row.gen # Grant(r)
      BY <2>2, <3>0, AdmittedFields
    <3>2. row.rev >= Copy(r) + 1 + Lead
      BY <1>0, <1>2, <1>3, <2>2, <3>1
    <3>3. QED
      BY <1>0, <1>1, <1>3, <2>2, <3>1, <3>2
  <2>3. QED
    BY <1>5, <2>1, <2>2, EachRecordMoves, BlankFields, ClaimedFields
       DEF RecordMoves, Foreign
<1>6. QED
  BY <1>4, <1>5
-------------------------------------------------------------------------------
(* A claim that is read back without stalls and cancellations. *)

\* The intent to cancel stays.
LEMMA IntentStays ==
  ASSUME ControlInv, [Next]_vars, row.cancelling
  PROVE  row'.cancelling
<1>1. RowKept
  BY StepIsTransaction
<1>2. CASE row' = row
  BY <1>2
<1>3. CASE Store!Next
  BY <1>3, RowFields
     DEF Store!Terminal, Store!Create, Store!Exists, Store!Write, Store!Created,
         Store!Claim, Store!Claimed, Store!Cancel, Store!Cancelled,
         Store!RequestCancel, Store!CancelRequested, Store!Revoked,
         Store!Quarantine, Store!ReapQuarantined, Store!ConsumeExpiredProof,
         Store!Unfenced, Store!LeaseExpires, Store!ReapExpires, Store!HolderStep,
         Store!Renew, Store!Renewed, Store!Release, Store!Released,
         Store!Publish, Store!Published, Store!AppendCheckpoint,
         Store!Checkpointed, Store!Settle, Store!Settled, Store!StorePair,
         Store!ReaperStep, Store!Authorize, Store!ReapAuthorized,
         Store!RecordProof, Store!ProofRecorded, Store!CompleteReap,
         Store!ConsumeDeathProof, Store!Next, RowType
<1>4. QED
  BY <1>1, <1>2, <1>3 DEF RowKept

LeaseKept == row'.gen = row.gen /\ row'.owner = row.owner /\ row'.live

\* Transactions that leave a live lease alone.
LEMMA LeaseIsKept ==
  ASSUME ControlInv, row.live
  PROVE  /\ row' \in {row, Created(row), Renewed(row), Cancelled(row)} => LeaseKept
         /\ \A s, n : row' = Published(row, s, n) => LeaseKept
         /\ row' = [row EXCEPT !.reap.live = FALSE] => LeaseKept
BY RowFields
   DEF LeaseKept, RowType, Created, Renewed, Cancelled, Published

\* The lease of a claim that is about to be read back, when nobody stalls.
LeaseIsRead(r) ==
  /\ ~Stalls /\ Reading(r)
  /\ row.live /\ row.gen = Grant(r) /\ row.owner = Grant(r)
  /\ sweep[r].pc = "identify" => sweep[r].fresh
  /\ \A m \in Registries : rt[m].gen # 0 => rt[m].own
  /\ ~row.cancelling /\ ~row'.cancelling

\* Only its holder could release it, and no claim and no reaper gets it.
LEMMA RunnersKeepLease ==
  ASSUME ControlInv, NEW r \in Registries, LeaseIsRead(r), NEW m \in Registries,
         ProcessStep(m) \/ RunnerStep(m), Reading(r)'
  PROVE  LeaseKept
<1>0. /\ row.owner # 0 /\ ~Fenced(row)
      /\ row.state \notin {"absent", "queued"}
  BY GrantGen, RowFields DEF LeaseIsRead, RowSound
<1>1. CASE Suspend(m)
  <2>1. m # r
    BY <1>1, Records DEF Suspend, SetRt, SweepDone, Reading, NoRuntime, NoSweep
  <2>2. rt[m].gen # row.gen
    <3>1. rt[m].gen # 0 => Grant(m) = rt[m].gen
      BY DEF LeaseIsRead, Grant
    <3>2. Grant(r) # 0 /\ Grant(r) # Grant(m)
      BY <2>1, GrantGen DEF LeaseIsRead, ControlInv, GrantsUnique
    <3>3. QED
      BY <3>1, <3>2 DEF LeaseIsRead
  <2>3. QED
    BY <1>1, <2>2, LeaseIsKept DEF Suspend, Holds, LeaseIsRead
<1>2. CASE AdmitNew(m)
  BY <1>0, <1>2, LeaseIsKept DEF AdmitNew, Claimable, Recoverable, LeaseIsRead
<1>3. CASE StartOperation(m) \/ Settle(m)
  BY <1>3, LeaseIsKept DEF StartOperation, Settle, LeaseIsRead
<1>4. CASE RequestCancel(m)
  <2>1. row' # Revoked(row)
    BY RowFields DEF LeaseIsRead, Revoked, RowType
  <2>2. row' \in {row, Cancelled(row)}
    BY <1>4, <2>1 DEF RequestCancel, CancelRequested
  <2>3. QED
    BY <2>2, LeaseIsKept DEF LeaseIsRead
<1>5. CASE Create(m) \/ HbRenew(m) \/ HbAck(m)
  BY <1>5, LeaseIsKept DEF Create, HbRenew, HbAck, LeaseIsRead
<1>6. CASE Crash(m) \/ AdmitIdentity(m) \/ Spawn(m) \/ Collect(m) \/ LocalCancel(m)
             \/ Deadline(m) \/ HbLost(m) \/ HbCancel(m)
  <2>1. row' = row
    BY <1>6
       DEF Crash, AdmitIdentity, Spawn, Collect, LocalCancel, Deadline, StopFor,
           HbLost, HbCancel
  <2>2. QED
    BY <2>1, LeaseIsKept DEF LeaseIsRead
<1>7. QED
  BY <1>1, <1>2, <1>3, <1>4, <1>5, <1>6 DEF ProcessStep, RunnerStep

LEMMA SweepsKeepLease ==
  ASSUME ControlInv, NEW r \in Registries, LeaseIsRead(r), NEW m \in Registries,
         SweepStep(m)
  PROVE  LeaseKept
<1>0. /\ row.owner # 0 /\ ~Fenced(row) /\ row.live /\ ~row.cancelling
      /\ row.owner = row.gen
      /\ row.state \notin {"absent", "queued"}
  BY GrantGen, RowFields DEF LeaseIsRead, RowSound
<1>1. CASE row' \in {row, Cancelled(row)}
  BY <1>0, <1>1, LeaseIsKept
<1>2. CASE Authorize(m)
  <2>1. ~ReapTakesOver(row, sweep[m].gen)
    BY <1>0 DEF ReapTakesOver
  <2>2. ~ReapStarts(row, sweep[m].gen)
    BY <1>0 DEF ReapStarts, LeaseAllowsReap, CancelledGeneration
  <2>3. QED
    BY <1>1, <1>2, <2>1, <2>2 DEF Authorize
<1>3. CASE Record(m) \/ Complete(m)
  BY <1>0, <1>1, <1>3 DEF Record, Complete, ReapCompletable, ProofRecordable
<1>4. CASE Denied(m)
  BY <1>0, <1>1, <1>4 DEF Denied, Quarantinable
<1>5. CASE Load(m)
  BY <1>0, <1>1, <1>5 DEF Load, ExpiredProofConsumable
<1>6. CASE Claim(m)
  BY <1>0, <1>1, <1>6 DEF Claim, Claimable, Recoverable
<1>7. CASE ScanMarker(m) \/ ScanOwn(m) \/ Kill(m) \/ Finish(m) \/ List(m) \/ Ack(m)
             \/ ClaimIdentity(m)
  BY <1>1, <1>7 DEF ScanMarker, ScanOwn, Kill, Finish, List, Ack, ClaimIdentity
<1>8. QED
  BY <1>2, <1>3, <1>4, <1>5, <1>6, <1>7 DEF SweepStep

\* It does not run out before the claim is read back.
LEMMA LeaseUndisturbed ==
  ASSUME ControlInv, [Next]_vars, NEW r \in Registries, LeaseIsRead(r), Reading(r)'
  PROVE  LeaseKept
<1>1. ~LeaseExpires
  <2>1. rt[r] # NoRuntime \/ sweep[r] # NoSweep
    BY DEF LeaseIsRead, Reading, NoRuntime, NoSweep
  <2>2. up[r]
    BY <2>1, Records DEF ControlInv, DeadIsBlank
  <2>3. Outpaces(r)
    BY <2>2 DEF LeaseIsRead, Reading, Outpaces
  <2>4. QED
    BY <2>3 DEF LeaseExpires, LeaseIsRead
<1>2. CASE ReapExpires
  BY <1>2, LeaseIsKept DEF ReapExpires, LeaseIsRead
<1>3. CASE row' = row
  BY <1>3, LeaseIsKept DEF LeaseIsRead
<1>4. (\E m \in Registries : WorkerStep(m)) \/ UNCHANGED vars => row' = row
  BY DEF WorkerStep, WorkerBoots, WorkerExits, WorkerDies, vars
<1>5. QED
  BY <1>1, <1>2, <1>3, <1>4, RunnersKeepLease, SweepsKeepLease DEF Next

LEMMA NoMisreadStep ==
  ASSUME ControlInv, [Next]_vars
  PROVE  NoMisread'
<1> SUFFICES ASSUME ~Stalls, ~row'.cancelling, NEW r \in Registries
             PROVE  /\ rt'[r].gen # 0 => rt'[r].own
                    /\ Reading(r)' => /\ row'.gen = Grant(r)'
                                      /\ row'.owner = Grant(r)'
                                      /\ row'.live
                    /\ sweep'[r].pc = "identify" => sweep'[r].fresh
  BY DEF NoMisread
<1>1. ~row.cancelling
  BY IntentStays
<1>2. /\ \A m \in Registries : rt[m].gen # 0 => rt[m].own
      /\ Reading(r) => /\ row.gen = Grant(r)
                       /\ row.owner = Grant(r)
                       /\ row.live
      /\ sweep[r].pc = "identify" => sweep[r].fresh
  BY <1>1 DEF ControlInv, NoMisread
<1>3. rt'[r].gen # 0 => rt'[r].own
  <2>1. CASE rt'[r] = rt[r] \/ RecordGoesOn(r)
    BY <1>2, <2>1 DEF RecordGoesOn
  <2>2. CASE rt'[r] = NoRuntime \/ rt'[r] = CreatedRecord \/ rt'[r] = ClaimedRecord
    BY <2>2, BlankFields, ClaimedFields
  <2>3. CASE rt'[r] = Admitted(Grant(r), Copy(r)) /\ Reading(r)
    BY <1>2, <2>3, AdmittedFields
  <2>4. QED
    BY <2>1, <2>2, <2>3, EachRecordMoves DEF RecordMoves
<1>4. ASSUME Reading(r)'
      PROVE  row'.gen = Grant(r)' /\ row'.owner = Grant(r)' /\ row'.live
  <2>1. CASE Granting /\ Grant(r)' = row.gen + 1
    BY <2>1, GrantingRow
  <2>2. CASE Reading(r) /\ Grant(r)' = Grant(r)
    <3>1. LeaseIsRead(r)
      BY <1>1, <1>2, <2>2 DEF LeaseIsRead
    <3>2. QED
      BY <1>2, <1>4, <2>2, <3>1, LeaseUndisturbed DEF LeaseKept
  <2>3. QED
    BY <1>4, <2>1, <2>2, ReadingMoves
<1>5. sweep'[r].pc = "identify" => sweep'[r].fresh
  <2>1. sweep'[r].pc = "identify" => Reading(r)'
    BY DEF Reading
  <2>2. QED
    BY <1>2, <2>1, ReadingMoves
<1>6. QED
  BY <1>3, <1>4, <1>5
-------------------------------------------------------------------------------
(* What a step makes of the files. *)

\* The marker is left alone, unlinked, written by the record that is about to spawn,
\* or written by or for a worker that was spawned.
MarkerMoves ==
  \/ marker' = marker
  \/ marker' = NoMarker
  \/ \E r \in Registries :
       /\ rt[r].pc = "admitted" /\ rt'[r].pc = "intent" /\ up[r]
       /\ rt'[r].gen = rt[r].gen /\ UNCHANGED worker
       /\ marker' = [kind |-> "intent", gen |-> rt[r].gen, by |-> r]
  \/ \E w \in Registries, k \in {"live", "receipt", "cleanup"} :
       /\ worker[w].gen # 0
       /\ marker' = [kind |-> k, gen |-> worker[w].gen, by |-> w]

\* The death proof is left alone, thrown away, or written by a sweep that finishes.
ProofMoves ==
  \/ deathProof' \in {deathProof, 0}
  \/ \E r \in Registries : /\ sweep[r].pc = "finish"
                           /\ sweep[r].kind = "worker_death"
                           /\ deathProof' = sweep[r].gen

FilesMove == MarkerMoves /\ ProofMoves

\* A step of a process or of its runner.
LEMMA RunnerFiles ==
  ASSUME ControlInv, NEW r \in Registries, ProcessStep(r) \/ RunnerStep(r)
  PROVE  FilesMove
<1>1. deathProof' = deathProof
  BY DEF ProcessStep, RunnerStep, Crash, Suspend, Create, AdmitNew, AdmitIdentity,
         StartOperation, Spawn, Collect, LocalCancel, Deadline, StopFor, Settle,
         HbRenew, HbLost, HbCancel, HbAck, RequestCancel
<1>2. CASE StartOperation(r)
  <2>1. CASE marker' = marker
    BY <1>1, <2>1 DEF FilesMove, MarkerMoves, ProofMoves
  <2>2. CASE marker' # marker
    <3>1. /\ rt[r].pc = "admitted" /\ up[r] /\ UNCHANGED worker
          /\ rt' = [rt EXCEPT ![r].pc = "intent"]
          /\ marker' = [kind |-> "intent", gen |-> rt[r].gen, by |-> r]
      BY <1>2, <2>2 DEF StartOperation, GoTo
    <3>2. rt'[r].pc = "intent" /\ rt'[r].gen = rt[r].gen
      BY <3>1, Records DEF RuntimeRecord
    <3>3. MarkerMoves
      BY <3>1, <3>2 DEF MarkerMoves
    <3>4. QED
      BY <1>1, <3>3 DEF FilesMove, ProofMoves
  <2>3. QED
    BY <2>1, <2>2
<1>3. CASE ~StartOperation(r)
  <2>1. marker' \in {marker, NoMarker}
    BY <1>3
       DEF ProcessStep, RunnerStep, Crash, Suspend, KillOwnWorker, Create,
           AdmitNew, AdmitIdentity, Spawn, Collect, LocalCancel, Deadline, StopFor,
           Settle, HbRenew, HbLost, HbCancel, HbAck, RequestCancel
  <2>2. QED
    BY <1>1, <2>1 DEF FilesMove, MarkerMoves, ProofMoves
<1>4. QED
  BY <1>2, <1>3

\* A worker that was spawned has a lease.
LEMMA RunningIsLeased ==
  ASSUME ControlInv, NEW r \in Registries, worker[r].st # "none"
  PROVE  worker[r].gen # 0
BY DEF ControlInv, WorkersNameLeases

\* A step of a sweep.
LEMMA SweepFiles ==
  ASSUME ControlInv, NEW r \in Registries, SweepStep(r)
  PROVE  FilesMove
<1>1. CASE Kill(r)
  <2>1. /\ sweep[r].by \in Registries
        /\ worker[sweep[r].by].gen = sweep[r].gen
        /\ sweep[r].gen # 0
    BY <1>1 DEF Kill, ControlInv, SweepNamesLease, Fencing
  <2>2. MarkerMoves
    <3>1. CASE KillFound(r)
      <4>1. \/ marker' = marker
            \/ marker' = [kind |-> "cleanup", gen |-> sweep[r].gen,
                          by |-> sweep[r].by]
        BY <3>1 DEF KillFound
      <4>2. QED
        BY <2>1, <4>1 DEF MarkerMoves
    <3>2. CASE KillAbsent(r)
      BY <3>2 DEF KillAbsent, MarkerMoves
    <3>3. QED
      BY <1>1, <3>1, <3>2 DEF Kill
  <2>3. QED
    BY <1>1, <2>2 DEF Kill, FilesMove, ProofMoves
<1>2. CASE Finish(r)
  BY <1>2 DEF Finish, ProofAfter, FilesMove, MarkerMoves, ProofMoves
<1>3. CASE ~Kill(r) /\ ~Finish(r)
  <2>1. marker' = marker /\ deathProof' \in {deathProof, 0}
    BY <1>3
       DEF SweepStep, ScanMarker, ScanOwn, Authorize, Record, Complete, Denied,
           Load, List, Ack, Claim, ClaimIdentity
  <2>2. QED
    BY <2>1 DEF FilesMove, MarkerMoves, ProofMoves
<1>4. QED
  BY <1>1, <1>2, <1>3

\* Every step moves the files as MarkerMoves and ProofMoves say.
LEMMA FilesStep ==
  ASSUME ControlInv, [Next]_vars
  PROVE  FilesMove
<1>1. ASSUME NEW r \in Registries, WorkerStep(r)
      PROVE  FilesMove
  <2>1. deathProof' = deathProof
    BY <1>1 DEF WorkerStep, WorkerBoots, WorkerExits, WorkerDies
  <2>2. CASE WorkerDies(r)
    BY <2>1, <2>2 DEF WorkerDies, FilesMove, MarkerMoves, ProofMoves
  <2>3. CASE WorkerBoots(r) \/ WorkerExits(r)
    <3>1. /\ worker[r].st # "none"
          /\ \E k \in {"live", "receipt", "cleanup"} :
               marker' = [kind |-> k, gen |-> worker[r].gen, by |-> r]
      BY <2>3 DEF WorkerBoots, WorkerExits
    <3>2. MarkerMoves
      BY <3>1, RunningIsLeased DEF MarkerMoves
    <3>3. QED
      BY <2>1, <3>2 DEF FilesMove, ProofMoves
  <2>4. QED
    BY <1>1, <2>2, <2>3 DEF WorkerStep
<1>2. CASE LeaseExpires \/ ReapExpires \/ UNCHANGED vars
  BY <1>2 DEF LeaseExpires, ReapExpires, vars, FilesMove, MarkerMoves, ProofMoves
<1>3. QED
  BY <1>1, <1>2, RunnerFiles, SweepFiles DEF Next

MarkerRecord ==
  [kind : {"none", "intent", "live", "receipt", "cleanup"}, gen : 0..MaxGen,
   by : Registries \cup {Nobody}]

\* A marker that is left alone keeps naming its worker: the record that wrote it goes
\* on, and spawns for the lease it named.
LEMMA KeptMarker ==
  ASSUME ControlInv, [Next]_vars, marker' = marker
  PROVE  MarkerNamesWorker'
<1> SUFFICES ASSUME marker.kind # "none"
             PROVE  MarkerNamesWorker'
  BY DEF MarkerNamesWorker
<1> DEFINE b == marker.by
<1>1. /\ marker.gen # 0
      /\ b \in Registries
      /\ worker[b].gen \in {0, marker.gen}
      /\ worker[b].gen = 0 =>
           /\ marker.kind = "intent"
           /\ up[b] => /\ rt[b].gen = marker.gen
                       /\ rt[b].pc \notin {"none", "created", "claimed", "admitted"}
  BY DEF ControlInv, MarkerNamesWorker
<1> HIDE DEF b
<1>2. CASE worker[b].gen # 0
  <2>1. worker'[b].gen = marker.gen
    BY <1>1, <1>2, WorkersAge
  <2>2. QED
    BY <1>1, <2>1 DEF MarkerNamesWorker, b
<1>3. CASE worker[b].gen = 0 /\ worker'[b].gen # 0
  <2>1. Spawning(b)
    BY <1>1, <1>3, WorkersAge
  <2>2. worker'[b].gen = rt[b].gen /\ up[b]
    BY <1>1, <2>1 DEF Spawning
  <2>3. worker'[b].gen = marker.gen
    BY <1>1, <1>3, <2>2
  <2>4. QED
    BY <1>1, <2>3 DEF MarkerNamesWorker, b
<1>4. CASE worker[b].gen = 0 /\ worker'[b].gen = 0
  <2>1. ASSUME up'[b]
        PROVE  /\ rt'[b].gen = marker.gen
               /\ rt'[b].pc \notin {"none", "created", "claimed", "admitted"}
    <3>1. /\ rt[b].gen = marker.gen
          /\ rt[b].pc \notin {"none", "created", "claimed", "admitted"}
      BY <1>1, <1>4, <2>1, ProcessesDie
    <3>2. ~Reading(b) /\ ~Unleased(b)
      BY <1>1, <3>1 DEF Reading, Unleased, ControlInv, RecordsNameLeases
    <3>3. RecordMoves(b)
      BY <1>1, EachRecordMoves
    <3>4. rt'[b] = rt[b] \/ RecordGoesOn(b)
      BY <2>1, <3>1, <3>2, <3>3 DEF RecordMoves
    <3>5. QED
      BY <3>1, <3>4 DEF RecordGoesOn
  <2>2. QED
    BY <1>1, <1>4, <2>1 DEF MarkerNamesWorker, b
<1>5. QED
  BY <1>2, <1>3, <1>4

\* The marker keeps its type, and keeps naming a worker.
LEMMA MarkerStep ==
  ASSUME ControlInv, [Next]_vars
  PROVE  MarkerNamesWorker' /\ marker' \in MarkerRecord
<1>1. MarkerMoves
  BY FilesStep DEF FilesMove
<1>2. CASE marker' = marker
  BY <1>2, KeptMarker DEF ControlInv, TypeOK, MarkerRecord
<1>3. CASE marker' = NoMarker
  BY <1>3, ControlAssumption DEF MarkerNamesWorker, NoMarker, MarkerRecord
<1>4. ASSUME NEW r \in Registries, rt[r].pc = "admitted", rt'[r].pc = "intent",
             rt'[r].gen = rt[r].gen, up[r], UNCHANGED worker,
             marker' = [kind |-> "intent", gen |-> rt[r].gen, by |-> r]
      PROVE  MarkerNamesWorker' /\ marker' \in MarkerRecord
  <2>1. worker[r].gen = 0
    BY <1>4 DEF ControlInv, WorkersNameLeases, Unspawned
  <2>2. rt[r].gen # 0 /\ rt[r].gen \in 0..MaxGen
    BY <1>4, RecordFields DEF ControlInv, RecordsNameLeases, Unleased
  <2>3. marker'.kind = "intent" /\ marker'.gen = rt[r].gen /\ marker'.by = r
    BY <1>4
  <2>4. MarkerNamesWorker'
    BY <1>4, <2>1, <2>2, <2>3 DEF MarkerNamesWorker
  <2>5. QED
    BY <1>4, <2>2, <2>4 DEF MarkerRecord
<1>5. ASSUME NEW w \in Registries, NEW k \in {"live", "receipt", "cleanup"},
             worker[w].gen # 0,
             marker' = [kind |-> k, gen |-> worker[w].gen, by |-> w]
      PROVE  MarkerNamesWorker' /\ marker' \in MarkerRecord
  <2>1. worker'[w].gen = worker[w].gen /\ worker[w].gen \in 0..MaxGen
    BY <1>5, WorkersAge, WorkerFields
  <2>2. marker'.kind = k /\ marker'.gen = worker[w].gen /\ marker'.by = w
    BY <1>5
  <2>3. MarkerNamesWorker'
    BY <1>5, <2>1, <2>2 DEF MarkerNamesWorker
  <2>4. QED
    BY <1>5, <2>1, <2>3 DEF MarkerRecord
<1>6. QED
  BY <1>1, <1>2, <1>3, <1>4, <1>5 DEF MarkerMoves
-------------------------------------------------------------------------------
(* What a step makes of the sweeps. *)

Acting == {"kill", "record", "complete", "finish"}

\* What ControlInv says of one sweep.
SweepSound(r) ==
  /\ sweep[r].pc \in Fencing => sweep[r].gen # 0 /\ sweep[r].kind # "none"
  /\ sweep[r].pc \in Fencing /\ sweep[r].kind = "worker_death" =>
       sweep[r].by \in Registries /\ worker[sweep[r].by].gen = sweep[r].gen
  /\ sweep[r].pc = "kill" => sweep[r].kind = "worker_death"
  /\ sweep[r].pc = "ack" => sweep[r].known # 0
  /\ sweep[r].own \in OnOwnRecord => worker[r].gen = rt[r].gen /\ rt[r].gen # 0
  /\ sweep[r].pc \in Proving /\ sweep[r].kind = "worker_death"
       => HasDied(sweep[r].gen)
  /\ sweep[r].pc \in Acting =>
       row.gen > sweep[r].gen /\ row.owner # sweep[r].gen
  /\ sweep[r].known # 0 => HasDied(sweep[r].known)

\* The sweeps of ControlInv are sound, and what is sound is what it says of them.
LEMMA SweepsAreSound ==
  (\A r \in Registries : SweepSound(r))
    <=> /\ SweepNamesLease
        /\ SweepHasEvidence
        /\ ReapedLeaseStaysRevoked
        /\ \A r \in Registries : sweep[r].known # 0 => HasDied(sweep[r].known)
BY DEF SweepSound, SweepNamesLease, SweepHasEvidence, ReapedLeaseStaysRevoked, Acting

LEMMA SweepIsSound ==
  ASSUME ControlInv, NEW r \in Registries
  PROVE  SweepSound(r)
BY SweepsAreSound DEF ControlInv, DeathsHappened

\* A worker of the lease has ended when the step is done.
DiedAfter(g) ==
  \E r \in Registries : worker'[r].gen = g /\ worker'[r].st \in {"exited", "killed"}

LEMMA DeathsOutlast ==
  ASSUME ControlInv, [Next]_vars, NEW g \in Nat, g # 0, HasDied(g)
  PROVE  DiedAfter(g)
<1>1. PICK r \in Registries : worker[r].gen = g /\ Gone(r)
  BY DEF HasDied
<1>2. worker'[r].gen = g /\ Gone(r)'
  BY <1>1, WorkersAge
<1>3. QED
  BY <1>2 DEF DiedAfter, Gone

\* What makes a sweep record n sound after a step: it rests on what held before the
\* step, and on the death of a worker after it.
Warranted(r, n) ==
  /\ n.pc \in Fencing => n.gen # 0 /\ n.kind # "none"
  /\ n.pc \in Fencing /\ n.kind = "worker_death" =>
       n.by \in Registries /\ worker[n.by].gen = n.gen
  /\ n.pc = "kill" => n.kind = "worker_death"
  /\ n.pc = "ack" => n.known # 0
  /\ n.own \in OnOwnRecord => worker[r].gen = rt[r].gen /\ rt[r].gen # 0
  /\ n.pc \in Proving /\ n.kind = "worker_death" => DiedAfter(n.gen)
  /\ n.pc \in Acting => row'.gen > n.gen
  /\ n.known # 0 => HasDied(n.known)

\* The worker of a record that a sweep is about stays its worker while the sweep
\* goes on.
LEMMA OwnWorkerStays ==
  ASSUME ControlInv, [Next]_vars, NEW r \in Registries, sweep'[r] # NoSweep,
         worker[r].gen = rt[r].gen, rt[r].gen # 0
  PROVE  worker'[r].gen = rt'[r].gen /\ rt'[r].gen # 0
<1>1. up'[r]
  BY ProcessesDie DEF DeadIsBlank
<1>2. rt'[r].gen = rt[r].gen
  BY <1>1, SpawnedGoesOn DEF RecordGoesOn
<1>3. worker'[r].gen = worker[r].gen
  BY WorkersAge
<1>4. QED
  BY <1>2, <1>3

LEMMA SweepStaysSound ==
  ASSUME ControlInv, [Next]_vars, NEW r \in Registries, NEW n \in SweepRecord,
         sweep'[r] = n, n # NoSweep, Warranted(r, n)
  PROVE  SweepSound(r)'
<1>1. n.gen \in 0..MaxGen /\ n.known \in 0..MaxGen /\ n.gen \in Nat /\ n.known \in Nat
  BY ControlAssumption DEF SweepRecord
<1>2. n.pc \in Fencing /\ n.kind = "worker_death" =>
        n.by \in Registries /\ worker'[n.by].gen = n.gen
  BY WorkersAge DEF Warranted
<1>3. n.own \in OnOwnRecord => worker'[r].gen = rt'[r].gen /\ rt'[r].gen # 0
  BY OwnWorkerStays DEF Warranted
<1>4. n.pc \in Acting => row'.gen > n.gen /\ row'.owner # n.gen
  <2>1. n.pc \in Acting => n.gen # 0
    BY DEF Warranted, Acting, Fencing
  <2>2. row'.owner \in {0, row'.gen} /\ row'.gen \in Nat
    BY RowAfterStep
  <2>3. QED
    BY <1>1, <2>1, <2>2 DEF Warranted
<1>5. n.known # 0 => DiedAfter(n.known)
  BY <1>1, DeathsOutlast DEF Warranted
<1>6. QED
  BY <1>2, <1>3, <1>4, <1>5 DEF Warranted, SweepSound, HasDied, Gone, DiedAfter

\* A sweep that has not begun is sound.
LEMMA IdleIsSound ==
  ASSUME NEW r \in Registries, sweep'[r] = NoSweep
  PROVE  SweepSound(r)'
BY DEF SweepSound, NoSweep, Fencing, Proving, OnOwnRecord, Acting

\* A lease that is revoked before a step is revoked after it.
LEMMA RevokedStays ==
  ASSUME ControlInv, [Next]_vars, NEW g \in Nat, row.gen > g
  PROVE  row'.gen > g
BY RowAfterStep, RowFields

\* A sweep whose registry does not move it stays sound: at most its freshness
\* changes, when somebody is granted a lease.
LEMMA OtherSweep ==
  ASSUME ControlInv, [Next]_vars, NEW r \in Registries,
         NEW f \in BOOLEAN, sweep'[r] = [sweep[r] EXCEPT !.fresh = f]
  PROVE  SweepSound(r)'
<1> DEFINE n == sweep'[r]
<1>1. sweep[r] \in SweepRecord /\ sweep[r].gen \in Nat
  BY SweepFields
<1>2. /\ n \in SweepRecord
      /\ n.pc = sweep[r].pc
      /\ n.gen = sweep[r].gen
      /\ n.by = sweep[r].by
      /\ n.kind = sweep[r].kind
      /\ n.known = sweep[r].known
      /\ n.own = sweep[r].own
  BY <1>1 DEF SweepRecord
<1>3. SweepSound(r)
  BY SweepIsSound
<1>4. n.pc \in Acting => row'.gen > n.gen
  BY <1>1, <1>2, <1>3, RevokedStays DEF SweepSound
<1>5. n.pc \in Proving /\ n.kind = "worker_death" => DiedAfter(n.gen)
  <2>1. n.pc \in Proving => n.gen # 0
    BY <1>2, <1>3 DEF SweepSound, Proving, Fencing
  <2>2. QED
    BY <1>1, <1>2, <1>3, <2>1, DeathsOutlast DEF SweepSound
<1>6. CASE n = NoSweep
  BY <1>6, IdleIsSound
<1> HIDE DEF n
<1>7. CASE n # NoSweep
  <2>1. sweep'[r] = n
    BY DEF n
  <2>2. Warranted(r, n)
    BY <1>2, <1>3, <1>4, <1>5 DEF SweepSound, Warranted
  <2>3. QED
    BY <1>2, <1>7, <2>1, <2>2, SweepStaysSound
<1>8. QED
  BY <1>6, <1>7

SweepsStep ==
  /\ sweep' \in [Registries -> SweepRecord]
  /\ \A r \in Registries : SweepSound(r)'

\* A grant writes the freshness of a sweep at most.
LEMMA KeptSweep ==
  ASSUME ControlInv, [Next]_vars, NEW r \in Registries,
         sweep'[r] \in {sweep[r], Granted[r]}
  PROVE  SweepSound(r)'
<1>1. CASE sweep'[r] = sweep[r]
  <2>1. sweep[r] = [sweep[r] EXCEPT !.fresh = sweep[r].fresh]
    BY SweepFields DEF SweepRecord
  <2>2. sweep[r].fresh \in BOOLEAN
    BY SweepFields
  <2>3. QED
    BY <1>1, <2>1, <2>2, OtherSweep
<1>2. CASE sweep'[r] = Granted[r]
  <2> DEFINE f == ~Stalls /\ sweep[r].pc # "idle"
  <2>1. f \in BOOLEAN
    OBVIOUS
  <2>2. sweep'[r] = [sweep[r] EXCEPT !.fresh = f]
    BY <1>2 DEF Granted
  <2>3. QED
    BY <2>1, <2>2, OtherSweep
<1>3. QED
  BY <1>1, <1>2

\* No sweep moves, or one registry is granted a lease.
LEMMA SweepsStay ==
  ASSUME ControlInv, [Next]_vars, sweep' = sweep \/ sweep' = Granted
  PROVE  SweepsStep
BY Records, GrantedIsTyped, KeptSweep DEF SweepsStep

\* One sweep moves and stays sound.
LEMMA OneSweep ==
  ASSUME ControlInv, [Next]_vars, NEW r \in Registries, NEW n \in SweepRecord,
         \/ sweep' = [sweep EXCEPT ![r] = n]
         \/ sweep' = [Granted EXCEPT ![r] = n],
         sweep'[r] = n => SweepSound(r)'
  PROVE  SweepsStep
<1>1. sweep \in [Registries -> SweepRecord] /\ Granted \in [Registries -> SweepRecord]
  BY Records, GrantedIsTyped
<1>2. /\ sweep' \in [Registries -> SweepRecord]
      /\ sweep'[r] = n
      /\ \A s \in Registries : s # r => sweep'[s] \in {sweep[s], Granted[s]}
  BY <1>1
<1>3. QED
  BY <1>2, KeptSweep DEF SweepsStep

\* One sweep is replaced by a record that is warranted.
LEMMA MovedSweep ==
  ASSUME ControlInv, [Next]_vars, NEW r \in Registries, NEW n \in SweepRecord,
         \/ sweep' = [sweep EXCEPT ![r] = n]
         \/ sweep' = [Granted EXCEPT ![r] = n],
         n.pc # "idle", Warranted(r, n)
  PROVE  SweepsStep
<1>1. n # NoSweep
  BY DEF NoSweep
<1>2. sweep'[r] = n => SweepSound(r)'
  BY <1>1, SweepStaysSound
<1>3. QED
  BY <1>2, OneSweep

\* A sweep that ends.
LEMMA EndedSweep ==
  ASSUME ControlInv, [Next]_vars, NEW r \in Registries, SweepDone(r)
  PROVE  SweepsStep
<1>1. NoSweep \in SweepRecord
  BY ControlAssumption DEF NoSweep, SweepRecord, SweepPcs, ProofKinds
<1>2. sweep'[r] = NoSweep => SweepSound(r)'
  BY IdleIsSound
<1>3. QED
  BY <1>1, <1>2, OneSweep DEF SweepDone

\* The record that a sweep goes on to when it turns to its registry's own job.
LEMMA OwnCandidateFields ==
  ASSUME ControlInv, NEW r \in Registries, rt[r].gen # 0
  PROVE  /\ OwnCandidate(r) \in SweepRecord
         /\ OwnCandidate(r).pc = "authorize"
         /\ OwnCandidate(r).gen = rt[r].gen
         /\ OwnCandidate(r).by = r
         /\ OwnCandidate(r).kind = "worker_death"
         /\ OwnCandidate(r).known = sweep[r].known
         /\ OwnCandidate(r).own = "now"
<1>1. sweep[r] \in SweepRecord /\ rt[r].gen \in 0..MaxGen
  BY SweepFields, RecordFields
<1>2. /\ "authorize" \in SweepPcs
      /\ "worker_death" \in ProofKinds
      /\ 0 \in 0..MaxRev
  BY ControlAssumption DEF SweepPcs, ProofKinds
<1>3. QED
  BY <1>1, <1>2 DEF OwnCandidate, SweepRecord

\* On to this registry's own record, or to the end of the candidates.
LEMMA NextCandidateStep ==
  ASSUME ControlInv, [Next]_vars, NEW r \in Registries, NextCandidate(r)
  PROVE  SweepsStep
<1>1. sweep[r] \in SweepRecord /\ SweepSound(r)
  BY SweepIsSound, SweepFields
<1>2. CASE /\ sweep[r].own = "next" \/ HasIdentity(r)
           /\ sweep' = [sweep EXCEPT ![r] = OwnCandidate(r)]
  <2> DEFINE n == OwnCandidate(r)
  <2>1. rt[r].gen # 0 /\ worker[r].gen = rt[r].gen
    BY <1>2, OwnSweep DEF OnOwnRecord
  <2>2. /\ n \in SweepRecord
        /\ n.pc = "authorize"
        /\ n.gen = rt[r].gen
        /\ n.by = r
        /\ n.kind = "worker_death"
        /\ n.known = sweep[r].known
    BY <2>1, OwnCandidateFields
  <2>3. sweep' = [sweep EXCEPT ![r] = n]
    BY <1>2
  <2> HIDE DEF n
  <2>4. Warranted(r, n)
    BY <1>1, <2>1, <2>2 DEF Warranted, SweepSound, Proving, Acting
  <2>5. QED
    BY <2>2, <2>3, <2>4, MovedSweep
<1>3. CASE sweep' = [sweep EXCEPT ![r] = [sweep[r] EXCEPT !.pc = "load"]]
  <2> DEFINE n == [sweep[r] EXCEPT !.pc = "load"]
  <2>1. /\ n \in SweepRecord
        /\ n.pc = "load"
        /\ n.known = sweep[r].known
        /\ n.own = sweep[r].own
    BY <1>1 DEF SweepRecord, SweepPcs
  <2>2. sweep' = [sweep EXCEPT ![r] = n]
    BY <1>3
  <2> HIDE DEF n
  <2>3. Warranted(r, n)
    BY <1>1, <2>1 DEF Warranted, SweepSound, Fencing, Proving, Acting
  <2>4. QED
    BY <2>1, <2>2, <2>3, MovedSweep
<1>4. QED
  BY <1>2, <1>3 DEF NextCandidate

\* A sweep goes on to another point with the candidate it has.
LEMMA SweepToStep ==
  ASSUME ControlInv, [Next]_vars, NEW r \in Registries, NEW pc \in SweepPcs,
         NEW t \in 0..MaxRev,
         sweep' = [sweep EXCEPT ![r].pc = pc, ![r].token = t]
           \/ SweepTo(r, pc),
         pc # "idle",
         pc \in Fencing => /\ sweep[r].pc \in Fencing
                           /\ pc = "kill" => sweep[r].kind = "worker_death",
         pc = "ack" => sweep[r].known # 0,
         pc \in Proving /\ sweep[r].kind = "worker_death" => DiedAfter(sweep[r].gen),
         pc \in Acting => row'.gen > sweep[r].gen
  PROVE  SweepsStep
<1>1. sweep[r] \in SweepRecord /\ SweepSound(r) /\ sweep[r].token \in 0..MaxRev
  BY SweepIsSound, SweepFields
<1>2. PICK u \in 0..MaxRev :
        sweep' = [sweep EXCEPT ![r] = [sweep[r] EXCEPT !.pc = pc, !.token = u]]
  <2>1. sweep \in [Registries -> SweepRecord]
    BY Records
  <2>2. CASE sweep' = [sweep EXCEPT ![r].pc = pc, ![r].token = t]
    BY <2>1, <2>2
  <2>3. CASE SweepTo(r, pc)
    <3>1. [sweep[r] EXCEPT !.pc = pc]
            = [sweep[r] EXCEPT !.pc = pc, !.token = sweep[r].token]
      BY <1>1 DEF SweepRecord
    <3>2. sweep' = [sweep EXCEPT ![r] = [sweep[r] EXCEPT !.pc = pc]]
      BY <2>1, <2>3 DEF SweepTo
    <3>3. QED
      BY <1>1, <3>1, <3>2
  <2>4. QED
    BY <2>2, <2>3
<1> DEFINE n == [sweep[r] EXCEPT !.pc = pc, !.token = u]
<1>3. /\ n \in SweepRecord
      /\ n.pc = pc
      /\ n.gen = sweep[r].gen
      /\ n.by = sweep[r].by
      /\ n.kind = sweep[r].kind
      /\ n.known = sweep[r].known
      /\ n.own = sweep[r].own
  BY <1>1, <1>2 DEF SweepRecord
<1>4. sweep' = [sweep EXCEPT ![r] = n]
  BY <1>2
<1> HIDE DEF n
<1>5. Warranted(r, n)
  <2>1. pc = "kill" => pc \in Fencing
    BY DEF Fencing
  <2>2. QED
    BY <1>1, <1>3, <2>1 DEF Warranted, SweepSound
<1>6. QED
  BY <1>3, <1>4, <1>5, MovedSweep

\* A sweep goes on to a point that asks for nothing.
LEMMA SweepToPlainStep ==
  ASSUME ControlInv, [Next]_vars, NEW r \in Registries,
         NEW pc \in {"denied", "claim"}, SweepTo(r, pc)
  PROVE  SweepsStep
<1>1. pc \in SweepPcs /\ 0 \in 0..MaxRev
  BY ControlAssumption DEF SweepPcs
<1>2. pc \notin Fencing \cup Proving \cup Acting \cup {"idle", "ack"}
  BY DEF Fencing, Proving, Acting
<1>3. QED
  BY <1>1, <1>2, SweepToStep

\* The beginning of a sweep: what it remembers of the marker and of the death proof
\* is what they say.
LEMMA ScanMarkerSweep ==
  ASSUME ControlInv, [Next]_vars, NEW r \in Registries, ScanMarker(r)
  PROVE  SweepsStep
<1> DEFINE absent == marker.kind = "intent" /\ ~Running(marker.by)
           own    == CASE absent -> "later"
                       [] ~absent /\ ~HasIdentity(r) -> "no"
                       [] OTHER -> IF marker.by = r THEN "merged" ELSE "next"
           kind   == IF absent THEN "spawn_absent" ELSE "worker_death"
           seen   == marker.kind \in {"receipt", "cleanup"}
           found  == [pc |-> "authorize", gen |-> marker.gen, by |-> marker.by,
                      token |-> 0, known |-> deathProof, fresh |-> Fresh,
                      kind |-> kind, receipt |-> seen, own |-> own]
           denied == [found EXCEPT !.pc = "denied", !.own = "later"]
<1>1. /\ deathProof \in 0..MaxGen
      /\ deathProof # 0 => HasDied(deathProof)
  BY DEF ControlInv, TypeOK, DeathsHappened
<1>2. Fresh \in BOOLEAN
  BY DEF Fresh
<1>3. /\ marker.gen \in 0..MaxGen
      /\ marker.gen # 0
      /\ marker.by \in Registries
      /\ worker[marker.by].gen \in {0, marker.gen}
      /\ worker[marker.by].gen = 0 => marker.kind = "intent"
  BY DEF ControlInv, TypeOK, MarkerNamesWorker, ScanMarker
<1>4. kind = "worker_death" => worker[marker.by].gen = marker.gen
  <2>1. ASSUME worker[marker.by].gen = 0
        PROVE  kind # "worker_death"
    <3>1. worker[marker.by].st = "none"
      BY <1>3, <2>1 DEF ControlInv, WorkersNameLeases
    <3>2. absent
      BY <1>3, <2>1, <3>1 DEF Running
    <3>3. QED
      BY <3>2
  <2>2. QED
    BY <1>3, <2>1
<1>5. /\ own \in {"no", "merged", "later", "next"}
      /\ own \in OnOwnRecord => HasIdentity(r)
  BY DEF OnOwnRecord
<1>6. own \in OnOwnRecord => worker[r].gen = rt[r].gen /\ rt[r].gen # 0
  BY <1>5, OwnSweep
<1>7. kind \in ProofKinds \ {"none"} /\ seen \in BOOLEAN
  BY DEF ProofKinds
<1>8. sweep' \in {[sweep EXCEPT ![r] = found], [sweep EXCEPT ![r] = denied]}
  BY DEF ScanMarker
<1> HIDE DEF absent, own, kind, seen
<1>9. found \in SweepRecord
  BY <1>1, <1>2, <1>3, <1>5, <1>7, ControlAssumption DEF SweepRecord, SweepPcs
<1>10. denied \in SweepRecord
  BY <1>9 DEF SweepRecord, SweepPcs
<1>11. CASE sweep' = [sweep EXCEPT ![r] = found]
  <2>1. /\ found.pc = "authorize"
        /\ found.gen = marker.gen
        /\ found.by = marker.by
        /\ found.kind = kind
        /\ found.known = deathProof
        /\ found.own = own
    OBVIOUS
  <2> HIDE DEF found, denied
  <2>2. Warranted(r, found)
    BY <1>1, <1>3, <1>4, <1>6, <1>7, <2>1 DEF Warranted, Fencing, Proving, Acting
  <2>3. QED
    BY <1>9, <1>11, <2>1, <2>2, MovedSweep
<1>12. CASE sweep' = [sweep EXCEPT ![r] = denied]
  <2>1. /\ denied.pc = "denied"
        /\ denied.known = deathProof
        /\ denied.own = "later"
    OBVIOUS
  <2> HIDE DEF found, denied
  <2>2. Warranted(r, denied)
    BY <1>1, <2>1 DEF Warranted, Fencing, Proving, Acting, OnOwnRecord
  <2>3. QED
    BY <1>10, <1>12, <2>1, <2>2, MovedSweep
<1>13. QED
  BY <1>8, <1>11, <1>12

LEMMA ScanOwnSweep ==
  ASSUME ControlInv, [Next]_vars, NEW r \in Registries, ScanOwn(r)
  PROVE  SweepsStep
<1> DEFINE base == IF HasIdentity(r) THEN OwnCandidate(r)
                                     ELSE [NoSweep EXCEPT !.pc = "load"]
           n    == [base EXCEPT !.known = deathProof, !.fresh = Fresh]
<1>1. /\ deathProof \in 0..MaxGen
      /\ deathProof # 0 => HasDied(deathProof)
      /\ Fresh \in BOOLEAN
  BY DEF ControlInv, TypeOK, DeathsHappened, Fresh
<1>2. /\ base \in SweepRecord
      /\ base.pc \in {"authorize", "load"}
      /\ base.pc = "authorize" =>
           /\ base.gen # 0 /\ base.kind = "worker_death"
           /\ base.by \in Registries /\ worker[base.by].gen = base.gen
      /\ base.own \in OnOwnRecord => worker[r].gen = rt[r].gen /\ rt[r].gen # 0
  <2>1. CASE HasIdentity(r)
    <3>1. rt[r].gen # 0 /\ worker[r].gen = rt[r].gen
      BY <2>1, OwnSweep
    <3>2. base = OwnCandidate(r)
      BY <2>1
    <3> HIDE DEF base
    <3>3. QED
      BY <3>1, <3>2, OwnCandidateFields
  <2>2. CASE ~HasIdentity(r)
    <3>1. "load" \in SweepPcs /\ NoSweep \in SweepRecord
      BY ControlAssumption DEF NoSweep, SweepRecord, SweepPcs, ProofKinds
    <3>2. base = [NoSweep EXCEPT !.pc = "load"] /\ NoSweep.own = "no"
      BY <2>2 DEF NoSweep
    <3> HIDE DEF base
    <3>3. QED
      BY <3>1, <3>2 DEF SweepRecord, OnOwnRecord
  <2>3. QED
    BY <2>1, <2>2
<1>3. sweep' = [sweep EXCEPT ![r] = n]
  BY DEF ScanOwn
<1> HIDE DEF base
<1>4. /\ n \in SweepRecord
      /\ n.pc = base.pc
      /\ n.gen = base.gen
      /\ n.by = base.by
      /\ n.kind = base.kind
      /\ n.known = deathProof
      /\ n.own = base.own
  BY <1>1, <1>2 DEF SweepRecord
<1> HIDE DEF n
<1>5. Warranted(r, n)
  BY <1>1, <1>2, <1>4 DEF Warranted, Fencing, Proving, Acting
<1>6. QED
  BY <1>2, <1>3, <1>4, <1>5, MovedSweep

\* Once a fence over a generation is granted or joined, that generation is gone.
LEMMA FenceRevokes ==
  ASSUME RowSound, NEW g \in Nat, NEW r \in Registries,
         \/ ReapJoins(row, g, r) /\ row' = row
         \/ /\ ReapTakesOver(row, g) \/ ReapStarts(row, g)
            /\ row' = ReapAuthorized(row, g, r)
  PROVE  row'.gen > g
<1>1. CASE ReapJoins(row, g, r) /\ row' = row
  BY <1>1, RowColumns DEF ReapJoins, Targets, RowSound
<1>2. CASE /\ ReapTakesOver(row, g) \/ ReapStarts(row, g)
           /\ row' = ReapAuthorized(row, g, r)
  <2>1. row'.gen = IF Fenced(row) \/ CancelledGeneration(row, g)
                     THEN row.gen ELSE row.gen + 1
    BY <1>2 DEF ReapAuthorized, RowSound, RowType
  <2>2. row.gen = g \/ row.gen = g + 1
    BY <1>2 DEF ReapTakesOver, ReapStarts, CancelledGeneration
  <2>3. row.gen = g => ~Fenced(row) /\ ~CancelledGeneration(row, g)
    BY <1>2 DEF ReapTakesOver, ReapStarts, CancelledGeneration
  <2>4. QED
    BY <2>1, <2>2, <2>3, RowColumns
<1>3. QED
  BY <1>1, <1>2

\* authorize_orphan_reap.
LEMMA AuthorizeSweep ==
  ASSUME ControlInv, [Next]_vars, NEW r \in Registries, Authorize(r)
  PROVE  SweepsStep
<1> DEFINE g    == sweep[r].gen
           next == IF sweep[r].kind = "spawn_absent" THEN "record" ELSE "kill"
<1>1. sweep[r].pc \in Fencing /\ g \in Nat
  BY SweepFields DEF Authorize, Fencing
<1>2. /\ next \in SweepPcs
      /\ next \in {"kill", "record"}
      /\ next = "record" => sweep[r].kind # "worker_death"
      /\ next = "kill" => sweep[r].kind = "worker_death"
  BY <1>1, SweepFields DEF ControlInv, SweepNamesLease, SweepPcs, ProofKinds
<1>3. RowSound /\ RowInBounds
  BY RowFields
<1>4. ASSUME NEW t \in 0..MaxRev, row'.gen > g,
             sweep' = [sweep EXCEPT ![r].pc = next, ![r].token = t]
      PROVE  SweepsStep
  <2> HIDE DEF next
  <2>1. next # "idle" /\ next # "ack"
    BY <1>2
  <2>2. next \in Proving => sweep[r].kind # "worker_death"
    BY <1>2 DEF Proving
  <2>3. QED
    BY <1>1, <1>2, <1>4, <2>1, <2>2, SweepToStep
<1>5. CASE /\ ReapJoins(row, g, r)
           /\ sweep' = [sweep EXCEPT ![r].pc = next, ![r].token = row.reap.token]
           /\ UNCHANGED row
  <2>1. row.reap.token \in 0..MaxRev
    BY RowFields
  <2>2. row'.gen > g
    BY <1>1, <1>3, <1>5, FenceRevokes
  <2>3. QED
    BY <1>4, <1>5, <2>1, <2>2
<1>6. CASE /\ ReapTakesOver(row, g) \/ ReapStarts(row, g)
           /\ RevRoom
           /\ row' = ReapAuthorized(row, g, r)
           /\ sweep' = [sweep EXCEPT ![r].pc = next, ![r].token = row.rev + 1]
  <2>1. row.rev + 1 \in 0..MaxRev
    BY <1>6, RowFields, ControlAssumption DEF RevRoom
  <2>2. row'.gen > g
    BY <1>1, <1>3, <1>6, FenceRevokes
  <2>3. QED
    BY <1>4, <1>6, <2>1, <2>2
<1>7. CASE SweepTo(r, "denied")
  BY <1>7, SweepToPlainStep
<1>8. QED
  BY <1>5, <1>6, <1>7 DEF Authorize

\* The kill leaves evidence of a death, or the candidate is given up.
LEMMA KillSweep ==
  ASSUME ControlInv, [Next]_vars, NEW r \in Registries, Kill(r)
  PROVE  SweepsStep
<1> DEFINE w == sweep[r].by
<1>1. /\ sweep[r].pc \in Fencing
      /\ sweep[r].gen \in Nat
      /\ sweep[r].gen # 0
      /\ w \in Registries
      /\ worker[w].gen = sweep[r].gen
  BY SweepFields DEF Kill, Fencing, ControlInv, SweepNamesLease
<1>2. row'.gen > sweep[r].gen
  BY <1>1, RevokedStays DEF Kill, ControlInv, ReapedLeaseStaysRevoked
<1> HIDE DEF w
<1>3. CASE NextCandidate(r)
  BY <1>3, NextCandidateStep
<1>4. ASSUME SweepTo(r, "record"), worker'[w].gen = sweep[r].gen,
             worker'[w].st \in {"exited", "killed"}
      PROVE  SweepsStep
  <2>1. "record" \in SweepPcs /\ 0 \in 0..MaxRev
    BY ControlAssumption DEF SweepPcs
  <2>2. DiedAfter(sweep[r].gen)
    BY <1>1, <1>4 DEF DiedAfter
  <2>3. QED
    BY <1>1, <1>2, <1>4, <2>1, <2>2, SweepToStep
<1>5. CASE SweepTo(r, "record") /\ Killed(w)
  <2>1. worker'[w].gen = worker[w].gen /\ worker'[w].st = "killed"
    BY <1>1, <1>5, Records DEF Killed, WorkerRecord
  <2>2. QED
    BY <1>1, <1>4, <1>5, <2>1
<1>6. CASE ~Running(w) /\ SweepTo(r, "record") /\ UNCHANGED worker
  <2>1. worker[w].st # "none"
    BY <1>1 DEF ControlInv, WorkersNameLeases
  <2>2. worker[w].st \in {"exited", "killed"}
    BY <1>1, <1>6, <2>1, WorkerFields DEF Running
  <2>3. QED
    BY <1>1, <1>4, <1>6, <2>2
<1>7. QED
  BY <1>3, <1>5, <1>6 DEF Kill, KillFound, KillAbsent, w

\* record_orphan_reap_proof, complete_orphan_reap and what follows them.
LEMMA ProvingSweep ==
  ASSUME ControlInv, [Next]_vars, NEW r \in Registries,
         Record(r) \/ Complete(r) \/ Finish(r) \/ Denied(r)
  PROVE  SweepsStep
<1>1. CASE NextCandidate(r)
  BY <1>1, NextCandidateStep
<1>2. CASE SweepTo(r, "denied")
  BY <1>2, SweepToPlainStep
<1>3. ASSUME sweep[r].pc \in {"record", "complete"},
             NEW pc \in {"complete", "finish"}, SweepTo(r, pc)
      PROVE  SweepsStep
  <2>1. /\ sweep[r].pc \in Fencing
        /\ sweep[r].gen \in Nat
        /\ sweep[r].gen # 0
        /\ sweep[r].kind = "worker_death" => HasDied(sweep[r].gen)
        /\ row.gen > sweep[r].gen
    BY <1>3, SweepFields
       DEF ControlInv, SweepNamesLease, SweepHasEvidence, ReapedLeaseStaysRevoked,
           Fencing, Proving
  <2>2. row'.gen > sweep[r].gen
    BY <2>1, RevokedStays
  <2>3. sweep[r].kind = "worker_death" => DiedAfter(sweep[r].gen)
    BY <2>1, DeathsOutlast
  <2>4. pc \in SweepPcs /\ pc # "idle" /\ pc # "ack" /\ pc # "kill" /\ 0 \in 0..MaxRev
    BY ControlAssumption DEF SweepPcs
  <2>5. QED
    BY <1>3, <2>1, <2>2, <2>3, <2>4, SweepToStep
<1>4. CASE Record(r)
  BY <1>1, <1>2, <1>3, <1>4 DEF Record, Refused
<1>5. CASE Complete(r)
  BY <1>1, <1>2, <1>3, <1>5 DEF Complete, Refused
<1>6. CASE Finish(r) \/ Denied(r)
  BY <1>1, <1>6 DEF Finish, Denied
<1>7. QED
  BY <1>4, <1>5, <1>6

\* The death proofs are read again, and recover_durable starts.
LEMMA RecoverSweep ==
  ASSUME ControlInv, [Next]_vars, NEW r \in Registries,
         Load(r) \/ List(r) \/ Ack(r)
  PROVE  SweepsStep
<1>1. CASE SweepDone(r)
  BY <1>1, EndedSweep
<1>2. CASE Load(r)
  <2> DEFINE known == IF deathProof # 0 THEN deathProof ELSE sweep[r].known
             n     == [NoSweep EXCEPT !.pc = "list", !.fresh = sweep[r].fresh,
                                      !.known = known]
  <2>1. known \in 0..MaxGen /\ (known # 0 => HasDied(known))
    BY SweepFields DEF ControlInv, TypeOK, DeathsHappened
  <2>2. sweep[r].fresh \in BOOLEAN
    BY SweepFields
  <2>3. sweep' = [sweep EXCEPT ![r] = n]
    BY <1>2 DEF Load
  <2> HIDE DEF known
  <2>4. /\ n \in SweepRecord
        /\ n.pc = "list"
        /\ n.known = known
        /\ n.own = "no"
    <3>1. NoSweep \in SweepRecord /\ "list" \in SweepPcs
      BY ControlAssumption DEF NoSweep, SweepRecord, SweepPcs, ProofKinds
    <3>2. NoSweep.own = "no"
      BY DEF NoSweep
    <3>3. QED
      BY <2>1, <2>2, <3>1, <3>2 DEF SweepRecord
  <2> HIDE DEF n
  <2>5. Warranted(r, n)
    BY <2>1, <2>4 DEF Warranted, Fencing, Proving, Acting, OnOwnRecord
  <2>6. QED
    BY <2>3, <2>4, <2>5, MovedSweep
<1>3. CASE List(r)
  <2>1. CASE SweepTo(r, "claim")
    BY <2>1, SweepToPlainStep
  <2>2. CASE sweep[r].known # 0 /\ SweepTo(r, "ack")
    <3>1. 0 \in 0..MaxRev /\ "ack" \in SweepPcs
      BY ControlAssumption DEF SweepPcs
    <3>2. "ack" \notin Fencing \cup Proving \cup Acting \cup {"idle"}
      BY DEF Fencing, Proving, Acting
    <3>3. QED
      BY <2>2, <3>1, <3>2, SweepToStep
  <2>3. QED
    BY <1>1, <1>3, <2>1, <2>2 DEF List
<1>4. QED
  BY <1>1, <1>2, <1>3 DEF Ack

\* claim: the sweep keeps the lease it was granted, and the others go on.
LEMMA ClaimSweep ==
  ASSUME ControlInv, [Next]_vars, NEW r \in Registries, Claim(r)
  PROVE  SweepsStep
<1>1. CASE SweepDone(r)
  BY <1>1, EndedSweep
<1>2. CASE /\ RevRoom /\ GenRoom
           /\ sweep' = [Granted EXCEPT ![r].pc = "identify",
                                       ![r].gen = row.gen + 1,
                                       ![r].token = row.rev + 1]
  <2> DEFINE n == [Granted[r] EXCEPT !.pc = "identify", !.gen = row.gen + 1,
                                     !.token = row.rev + 1]
  <2>1. Granted \in [Registries -> SweepRecord]
    BY GrantedIsTyped
  <2>2. Granted[r].known = sweep[r].known /\ Granted[r].own = sweep[r].own
    BY SweepFields DEF Granted, SweepRecord
  <2>3. row.gen + 1 \in 0..MaxGen /\ row.rev + 1 \in 0..MaxRev
    BY <1>2, RowFields, ControlAssumption DEF RevRoom, GenRoom
  <2>4. "identify" \in SweepPcs /\ Granted[r] \in SweepRecord
    BY <2>1 DEF SweepPcs
  <2>5. sweep' = [Granted EXCEPT ![r] = n]
    BY <1>2, <2>1
  <2>6. /\ n \in SweepRecord
        /\ n.pc = "identify"
        /\ n.known = sweep[r].known
        /\ n.own = sweep[r].own
    BY <2>2, <2>3, <2>4 DEF SweepRecord
  <2> HIDE DEF n
  <2>7. Warranted(r, n)
    BY <2>6, SweepIsSound DEF Warranted, SweepSound, Fencing, Proving, Acting
  <2>8. QED
    BY <2>5, <2>6, <2>7, MovedSweep
<1>3. QED
  BY <1>1, <1>2 DEF Claim

\* After every step every sweep is typed and sound.
LEMMA SweepsMove ==
  ASSUME ControlInv, [Next]_vars
  PROVE  SweepsStep
<1>1. CASE sweep' = sweep \/ sweep' = Granted
  BY <1>1, SweepsStay
<1>2. ASSUME NEW r \in Registries, ProcessStep(r) \/ RunnerStep(r)
      PROVE  SweepsStep
  <2>1. CASE ProcessStep(r)
    BY <2>1, EndedSweep DEF ProcessStep, Crash, Suspend
  <2>2. CASE RunnerStep(r)
    BY <1>1, <2>2
       DEF RunnerStep, Create, AdmitNew, AdmitIdentity, StartOperation, Spawn,
           Collect, LocalCancel, Deadline, StopFor, Settle, HbRenew, HbLost,
           HbCancel, HbAck, RequestCancel
  <2>3. QED
    BY <1>2, <2>1, <2>2
<1>3. ASSUME NEW r \in Registries, SweepStep(r)
      PROVE  SweepsStep
  <2>1. CASE ClaimIdentity(r)
    BY <2>1, EndedSweep DEF ClaimIdentity
  <2>2. QED
    BY <1>3, <2>1, ScanMarkerSweep, ScanOwnSweep, AuthorizeSweep, KillSweep,
       ProvingSweep, RecoverSweep, ClaimSweep
       DEF SweepStep
<1>4. ASSUME NEW r \in Registries, WorkerStep(r)
      PROVE  SweepsStep
  BY <1>1, <1>4 DEF WorkerStep, WorkerBoots, WorkerExits, WorkerDies
<1>5. CASE LeaseExpires \/ ReapExpires \/ UNCHANGED vars
  BY <1>1, <1>5 DEF LeaseExpires, ReapExpires, vars
<1>6. QED
  BY <1>2, <1>3, <1>4, <1>5 DEF Next
-------------------------------------------------------------------------------
(* The proof on the row. *)

\* The fence keeps its proof and its target, has no proof of a death, or gets one
\* from the sweep that records it.
ReapMoves ==
  \/ row'.reap.proof = row.reap.proof /\ row'.reap.gen = row.reap.gen
  \/ row'.reap.proof # "worker_death"
  \/ \E r \in Registries : /\ sweep[r].pc = "record"
                           /\ sweep[r].kind = "worker_death"
                           /\ row'.reap.gen = sweep[r].gen

\* The transactions that a fence is not about.
LEMMA OtherColumns ==
  ASSUME RowSound, NEW s, NEW n,
         \/ row' \in {row, Created(row), Claimed(row), Renewed(row), Released(row),
                      Published(row, s, n), Cancelled(row), CancelRequested(row)}
         \/ LeaseExpires
  PROVE  ReapMoves
<1>1. row \in RowType(Registries)
  BY DEF RowSound
<1>2. CASE \/ row' \in {row, Created(row), Claimed(row), Renewed(row),
                        Released(row), Published(row, s, n)}
           \/ LeaseExpires
  <2>1. row'.reap = row.reap
    BY <1>1, <1>2
       DEF RowType, Created, Claimed, Renewed, Released, Published, LeaseExpires
  <2>2. QED
    BY <2>1 DEF ReapMoves
<1>3. CASE row' \in {Cancelled(row), CancelRequested(row)}
  <2>1. row' \in {row, [row EXCEPT !.state = "cancelled", !.rev = @ + 1],
                  Revoked(row)}
    BY <1>3 DEF Cancelled, CancelRequested
  <2>2. row'.reap = row.reap
    BY <1>1, <2>1 DEF RowType, Revoked
  <2>3. QED
    BY <2>2 DEF ReapMoves
<1>4. QED
  BY <1>2, <1>3

\* Every step moves the fence as ReapMoves says.
LEMMA ReapStep ==
  ASSUME ControlInv, [Next]_vars
  PROVE  ReapMoves
<1>0. RowSound /\ row \in RowType(Registries)
  BY RowFields
<1>1. ASSUME NEW r \in Registries, ProcessStep(r) \/ RunnerStep(r)
      PROVE  ReapMoves
  <2>1. \E s, n : row' \in {row, Created(row), Claimed(row), Renewed(row),
                            Released(row), Published(row, s, n), Cancelled(row),
                            CancelRequested(row)}
    BY <1>1
       DEF ProcessStep, RunnerStep, Crash, Suspend, Create, AdmitNew, AdmitIdentity,
           StartOperation, Spawn, Collect, LocalCancel, Deadline, StopFor, Settle,
           HbRenew, HbLost, HbCancel, HbAck, RequestCancel
  <2>2. QED
    BY <1>0, <2>1, OtherColumns
<1>2. ASSUME row' = Unfenced(row)
      PROVE  ReapMoves
  BY <1>0, <1>2 DEF Unfenced, NoReap, RowType, ReapMoves
<1>3. ASSUME NEW r \in Registries, SweepStep(r)
      PROVE  ReapMoves
  <2>1. CASE row' \in {row, Claimed(row), Cancelled(row)}
    BY <1>0, <2>1, OtherColumns
  <2>2. CASE Authorize(r)
    <3> DEFINE g == sweep[r].gen
    <3>1. CASE /\ ReapTakesOver(row, g) \/ ReapStarts(row, g)
               /\ row' = ReapAuthorized(row, g, r)
      <4>1. row'.reap.proof = row.reap.proof /\ row'.reap.gen = g
        BY <1>0, <3>1 DEF ReapAuthorized, RowType
      <4>2. CASE ReapTakesOver(row, g)
        BY <4>1, <4>2 DEF ReapTakesOver, Targets, ReapMoves
      <4>3. CASE ReapStarts(row, g)
        <5>1. row.reap.proof = "none"
          BY <1>0, <4>3 DEF ReapStarts, RowSound, NoReap
        <5>2. QED
          BY <4>1, <5>1 DEF ReapMoves
      <4>4. QED
        BY <3>1, <4>2, <4>3
    <3>2. QED
      BY <2>1, <2>2, <3>1 DEF Authorize
  <2>3. CASE Record(r)
    <3>1. CASE /\ ProofRecordable(row, sweep[r].gen, sweep[r].token)
               /\ row' = ProofRecorded(row, sweep[r].kind)
      <4>1. /\ row'.reap.proof = sweep[r].kind
            /\ row'.reap.gen = sweep[r].gen
        BY <1>0, <3>1 DEF ProofRecorded, ProofRecordable, Targets, RowType
      <4>2. QED
        BY <2>3, <4>1 DEF Record, ReapMoves
    <3>2. QED
      BY <2>1, <2>3, <3>1 DEF Record
  <2>4. CASE Complete(r)
    BY <1>2, <2>1, <2>4 DEF Complete
  <2>5. CASE Denied(r)
    <3>1. CASE Quarantinable(row) /\ row' = ReapQuarantined(row, r)
      <4>1. row.reap.proof = "none"
        BY <1>0, <3>1 DEF Quarantinable, RowSound, NoReap
      <4>2. row'.reap.proof = row.reap.proof
        BY <1>0, <3>1 DEF ReapQuarantined, RowType
      <4>3. QED
        BY <4>1, <4>2 DEF ReapMoves
    <3>2. QED
      BY <2>1, <2>5, <3>1 DEF Denied
  <2>6. CASE Load(r)
    BY <1>2, <2>1, <2>6 DEF Load
  <2>7. CASE ScanMarker(r) \/ ScanOwn(r) \/ Kill(r) \/ Finish(r) \/ List(r)
             \/ Ack(r) \/ Claim(r) \/ ClaimIdentity(r)
    BY <2>1, <2>7
       DEF ScanMarker, ScanOwn, Kill, Finish, List, Ack, Claim, ClaimIdentity
  <2>8. QED
    BY <1>3, <2>2, <2>3, <2>4, <2>5, <2>6, <2>7 DEF SweepStep
<1>4. ASSUME NEW r \in Registries, WorkerStep(r)
      PROVE  ReapMoves
  BY <1>4 DEF WorkerStep, WorkerBoots, WorkerExits, WorkerDies, ReapMoves
<1>5. CASE LeaseExpires
  BY <1>0, <1>5, OtherColumns
<1>6. CASE ReapExpires
  BY <1>0, <1>6 DEF ReapExpires, RowType, ReapMoves
<1>7. CASE UNCHANGED vars
  BY <1>7 DEF vars, ReapMoves
<1>8. QED
  BY <1>1, <1>3, <1>4, <1>5, <1>6, <1>7 DEF Next

\* Death evidence stays true, on disk, in memory and on the row.
LEMMA DeathProofStep ==
  ASSUME ControlInv, [Next]_vars
  PROVE  DeathsHappened' /\ deathProof' \in 0..MaxGen
<1>0. /\ deathProof \in 0..MaxGen
      /\ deathProof # 0 => HasDied(deathProof)
      /\ row.reap.proof = "worker_death" =>
           row.reap.gen # 0 /\ HasDied(row.reap.gen)
  BY DEF ControlInv, TypeOK, DeathsHappened
<1>1. ASSUME NEW r \in Registries, sweep[r].pc \in Proving,
             sweep[r].kind = "worker_death"
      PROVE  /\ sweep[r].gen \in 0..MaxGen
             /\ sweep[r].gen # 0
             /\ HasDied(sweep[r].gen)
  BY <1>1, SweepFields
     DEF ControlInv, SweepNamesLease, SweepHasEvidence, Proving, Fencing
<1>2. ASSUME NEW g \in 0..MaxGen, g # 0, HasDied(g)
      PROVE  DiedAfter(g)
  BY <1>2, DeathsOutlast, ControlAssumption
<1>3. /\ deathProof' \in 0..MaxGen
      /\ deathProof' # 0 => DiedAfter(deathProof')
  <2>1. CASE deathProof' \in {deathProof, 0}
    BY <1>0, <1>2, <2>1, ControlAssumption
  <2>2. ASSUME NEW r \in Registries, sweep[r].pc = "finish",
               sweep[r].kind = "worker_death", deathProof' = sweep[r].gen
        PROVE  deathProof' \in 0..MaxGen /\ DiedAfter(deathProof')
    BY <1>1, <1>2, <2>2 DEF Proving
  <2>3. QED
    BY <2>1, <2>2, FilesStep DEF FilesMove, ProofMoves
<1>4. \A r \in Registries : SweepSound(r)'
  BY SweepsMove DEF SweepsStep
<1>5. ASSUME row'.reap.proof = "worker_death"
      PROVE  row'.reap.gen # 0 /\ DiedAfter(row'.reap.gen)
  <2>1. CASE row'.reap.proof = row.reap.proof /\ row'.reap.gen = row.reap.gen
    <3>1. HasDied(row.reap.gen) /\ row.reap.gen # 0 /\ row.reap.gen \in Nat
      BY <1>0, <1>5, <2>1, RowFields
    <3>2. DiedAfter(row.reap.gen)
      BY <3>1, DeathsOutlast
    <3>3. QED
      BY <2>1, <3>1, <3>2
  <2>2. ASSUME NEW r \in Registries, sweep[r].pc = "record",
               sweep[r].kind = "worker_death", row'.reap.gen = sweep[r].gen
        PROVE  row'.reap.gen # 0 /\ DiedAfter(row'.reap.gen)
    BY <1>1, <1>2, <2>2 DEF Proving
  <2>3. QED
    BY <1>5, <2>1, <2>2, ReapStep DEF ReapMoves
<1>6. QED
  BY <1>3, <1>4, <1>5 DEF DeathsHappened, SweepSound, HasDied, Gone, DiedAfter
-------------------------------------------------------------------------------
(* The invariant, and what follows from it. *)

\* A job nobody created, with registries that have done nothing.
LEMMA ControlInit == Init => ControlInv
<1> SUFFICES ASSUME Init
             PROVE  ControlInv
  OBVIOUS
<1>1. StoreP!StoreInv
  <2>1. StoreP!Init
    BY DEF Init, StoreP!Init, NewRow, StoreP!NewRow, NoTarget, StoreP!NoTarget,
           NoReap, StoreP!NoReap
  <2>2. QED
    BY <2>1, StoreAssumptionHolds, StoreP!InvInit
<1>2. row \in RowType(Registries)
  BY <1>1, RowIsSound DEF RowSound
<1>3. /\ 0 \in 0..MaxGen /\ 0 \in 0..MaxRev /\ 0 \in Nat
      /\ "idle" \in SweepPcs /\ "none" \in ProofKinds /\ "none" \in RuntimePcs
  BY ControlAssumption DEF SweepPcs, ProofKinds, RuntimePcs
<1>4. TypeOK
  BY <1>2, <1>3 DEF Init, TypeOK, NoRuntime, NoWorker, NoMarker, NoSweep
<1>5. RowInBounds /\ DeadIsBlank
  BY ControlAssumption DEF Init, RowInBounds, NewRow, NoReap, DeadIsBlank
<1>6. /\ \A r \in Registries :
           /\ rt[r].pc = "none" /\ rt[r].gen = 0 /\ ~rt[r].own
           /\ rt[r].ident = "none"
           /\ rt[r] = [NoRuntime EXCEPT !.pc = rt[r].pc]
           /\ worker[r].st = "none" /\ worker[r].gen = 0
           /\ sweep[r].pc = "idle" /\ sweep[r].own = "no" /\ sweep[r].known = 0
      /\ marker.kind = "none"
      /\ deathProof = 0
      /\ row.gen = 0
      /\ row.reap.proof = "none"
  BY DEF Init, NewRow, NoReap, NoRuntime, NoWorker, NoSweep, NoMarker
<1>7. RecordsNameLeases /\ WorkersNameLeases /\ SettlingIsStopped
  <2>1. RecordsNameLeases
    BY <1>6 DEF RecordsNameLeases, Unleased
  <2>2. WorkersNameLeases
    <3>1. ASSUME NEW r \in Registries
          PROVE  /\ worker[r].st = "none" /\ worker[r].gen = 0
                 /\ row.gen = 0
                 /\ rt[r].ident = "none"
      BY <1>6
    <3>2. 0 <= 0
      OBVIOUS
    <3>3. QED
      BY <3>1, <3>2 DEF WorkersNameLeases
  <2>3. SettlingIsStopped
    BY <1>6 DEF SettlingIsStopped
  <2>4. QED
    BY <2>1, <2>2, <2>3
<1>8. GrantsUnique /\ ForeignWaits
  BY <1>6 DEF GrantsUnique, Grant, ForeignWaits, Foreign
<1>9. CopiesAreBehind /\ NoMisread
  BY <1>6 DEF CopiesAreBehind, Reading, Foreign, NoMisread
<1>10. MarkerNamesWorker /\ SweepNamesLease /\ SweepHasEvidence
         /\ ReapedLeaseStaysRevoked /\ DeathsHappened
  BY <1>6
     DEF MarkerNamesWorker, SweepNamesLease, SweepHasEvidence,
         ReapedLeaseStaysRevoked, DeathsHappened, Fencing, Proving, OnOwnRecord
<1>11. QED
  BY <1>1, <1>4, <1>5, <1>7, <1>8, <1>9, <1>10 DEF ControlInv

\* Every step, of whichever process, keeps the invariant.
LEMMA ControlStep == ControlInv /\ [Next]_vars => ControlInv'
<1> SUFFICES ASSUME ControlInv, [Next]_vars
             PROVE  ControlInv'
  OBVIOUS
<1>1. StoreP!StoreInv' /\ RowInBounds' /\ row' \in RowType(Registries)
  BY RowAfterStep DEF RowSound
<1>2. DeadIsBlank' /\ RecordsNameLeases' /\ WorkersNameLeases' /\ SettlingIsStopped'
  BY ProcessesDie, RecordsNameLeasesStep, WorkersNameLeasesStep, SettlingStep
<1>3. GrantsUnique' /\ ForeignWaits' /\ CopiesAreBehind' /\ NoMisread'
  BY GrantsUniqueStep, ForeignWaitsStep, CopiesAreBehindStep, NoMisreadStep
<1>4. MarkerNamesWorker' /\ DeathsHappened'
  BY MarkerStep, DeathProofStep
<1>5. SweepNamesLease' /\ SweepHasEvidence' /\ ReapedLeaseStaysRevoked'
  <2>1. (\A r \in Registries : SweepSound(r))'
    BY SweepsMove DEF SweepsStep
  <2>2. QED
    BY <2>1, SweepsAreSound, PTL
<1>6. TypeOK'
  BY <1>1, EachRecordMoves, WorkersMove, MarkerStep, DeathProofStep, SweepsMove,
     ProcessesDie
     DEF TypeOK, RuntimeRecord, WorkersStep, WorkerRecord, SweepsStep, SweepRecord,
         MarkerRecord
<1>7. QED
  BY <1>1, <1>2, <1>3, <1>4, <1>5, <1>6 DEF ControlInv

\* The invariant holds in every reachable state.
LEMMA ControlAlways == Spec => []ControlInv
BY ControlInit, ControlStep, PTL DEF Spec

\* Whatever the processes do, the row, the records, the files and the sweeps keep
\* their types.
THEOREM ControlTypeCorrect == Spec => []TypeOK
<1>1. ControlInv => TypeOK
  BY DEF ControlInv
<1>2. QED
  BY <1>1, ControlAlways, PTL

\* claim grants a lease generation to one registry only, however many run, crash,
\* stall and recover.  claim_with_identity reads the generation back after the claim
\* has been committed, and so can make a second registry go by it; but only when
\* processes stall or the job is being cancelled.
THEOREM OneLeaseHolder == Spec => []LeaseHolderUnique
<1>1. ASSUME ControlInv
      PROVE  LeaseHolderUnique
  <2>1. ASSUME NEW r \in Registries, NEW s \in Registries, r # s, rt[r].gen # 0,
               rt[r].gen = rt[s].gen
        PROVE  ~(rt[r].own /\ rt[s].own)
    BY <1>1, <2>1 DEF ControlInv, GrantsUnique, Grant
  <2>2. ASSUME NEW r \in Registries, NEW s \in Registries, r # s, rt[r].gen # 0,
               rt[r].gen = rt[s].gen
        PROVE  Stalls \/ row.cancelling
    BY <1>1, <2>1, <2>2 DEF ControlInv, NoMisread
  <2>3. \A r \in Registries : rt[r].gen <= row.gen
    BY <1>1 DEF ControlInv, RecordsNameLeases
  <2>4. QED
    BY <2>1, <2>2, <2>3 DEF LeaseHolderUnique
<1>2. QED
  BY <1>1, ControlAlways, PTL

\* A lease one of whose workers has ended is dead: while the job goes on, nobody
\* spawned another for it.
LEMMA DeathIsFinal ==
  ASSUME ControlInv, NEW g \in Nat, g # 0, HasDied(g)
  PROVE  Dead(g)
<1>1. PICK d \in Registries : worker[d].gen = g /\ Gone(d)
  BY DEF HasDied
<1>2. ASSUME NEW r \in Registries, worker[r].gen = g, Running(r), ~IsTerminal(row)
      PROVE  FALSE
  <2>1. r # d
    BY <1>1, <1>2 DEF Gone, Running
  <2>2. QED
    BY <1>1, <1>2, <2>1 DEF ControlInv, GrantsUnique
<1>3. QED
  BY <1>1, <1>2 DEF Dead

\* A death proof, wherever it is kept, names a worker that is gone, however late it
\* is read and whichever registry wrote it (_write_death_proof,
\* record_orphan_reap_proof).
THEOREM DeathProofsAreTrue == Spec => []DeathProofIsTrue
<1>1. ASSUME ControlInv
      PROVE  DeathProofIsTrue
  <2>1. deathProof \in Nat /\ row.reap.gen \in Nat
    BY <1>1, RowFields, ControlAssumption DEF ControlInv, TypeOK
  <2>2. ASSUME NEW r \in Registries
        PROVE  sweep[r].known \in Nat
    BY <1>1, SweepFields, ControlAssumption
  <2>3. QED
    BY <1>1, <2>1, <2>2, DeathIsFinal DEF ControlInv, DeathsHappened, DeathProofIsTrue
<1>2. QED
  BY <1>1, ControlAlways, PTL

\* A sweep that was authorized acts on a lease that nobody can use again
\* (authorize_orphan_reap, _discover_and_stop_orphan_workers).
THEOREM ReapedLeasesStayRevoked == Spec => []ReapedLeaseStaysRevoked
<1>1. ControlInv => ReapedLeaseStaysRevoked
  BY DEF ControlInv
<1>2. QED
  BY <1>1, ControlAlways, PTL
-------------------------------------------------------------------------------
(* Refinement. *)

\* The registries, workers and sweeps implement the store: every step they take is
\* one of its transactions, or leaves the row as it is.
THEOREM RegistriesImplementStore == Spec => ImplementsStore
<1>1. Init => Store!Init
  BY DEF Init, Store!Init, NewRow, Store!NewRow, NoTarget, Store!NoTarget, NoReap,
         Store!NoReap
<1>2. ControlInv /\ [Next]_vars => [row' # row => Store!Next]_row
  BY StepIsTransaction DEF RowKept
<1>3. QED
  BY <1>1, <1>2, ControlAlways, PTL DEF Spec, ImplementsStore

\* So what LiveJobStoreProofs proves of the store holds of the registries: a row is
\* never fenced and leased at once (FenceExcludesLease, live_planning_jobs.py:607).
THEOREM RegistriesKeepFence == Spec => []Store!FenceExcludesLease
<1>1. ControlInv => Store!FenceExcludesLease
  BY RowIsSound
     DEF ControlInv, RowSound, Store!FenceExcludesLease, Store!Fenced, Fenced
<1>2. QED
  BY <1>1, ControlAlways, PTL
-------------------------------------------------------------------------------
(* What a step may do. *)

\* Only the sweep itself leaves the point where it settles a cancellation, and it
\* settles by the proof that names the revoked lease.
LEMMA AckIsBacked ==
  ASSUME ControlInv, [Next]_vars, NEW r \in Registries, sweep[r].pc = "ack",
         sweep'[r].pc # "ack", row'.state # row.state
  PROVE  Dead(row.target.gen)
<1>0. row \in RowType(Registries) /\ sweep \in [Registries -> SweepRecord]
  BY RowFields, Records
<1>1. Released(row).state = row.state
  BY <1>0 DEF Released, RowType
<1>2. Granted[r].pc = sweep[r].pc
  BY <1>0 DEF Granted, SweepRecord
<1>3. CASE Ack(r)
  <2>1. ProofSettlesCancel(row, sweep[r].known)
    BY <1>3 DEF Ack
  <2>2. row.target.gen = sweep[r].known
    BY <2>1 DEF ProofSettlesCancel
  <2>3. sweep[r].known # 0 /\ sweep[r].known \in Nat
    BY SweepFields, ControlAssumption DEF ControlInv, SweepNamesLease
  <2>4. Dead(sweep[r].known)
    BY <2>3, DeathIsFinal DEF ControlInv, DeathsHappened
  <2>5. QED
    BY <2>2, <2>4
<1>4. ASSUME NEW s \in Registries, ProcessStep(s)
      PROVE  FALSE
  <2>1. row' \in {row, Released(row)}
    BY <1>4 DEF ProcessStep, Crash, Suspend
  <2>2. QED
    BY <1>1, <2>1
<1>5. ASSUME NEW s \in Registries, RunnerStep(s) \/ (SweepStep(s) /\ s # r)
      PROVE  FALSE
  <2>1. CASE RunnerStep(s)
    <3>1. sweep' = sweep \/ sweep' = Granted
      BY <2>1
         DEF RunnerStep, Create, AdmitNew, AdmitIdentity, StartOperation, Spawn,
             Collect, LocalCancel, Deadline, StopFor, Settle, HbRenew, HbLost,
             HbCancel, HbAck, RequestCancel
    <3>2. QED
      BY <1>2, <3>1
  <2>2. CASE SweepStep(s) /\ s # r
    <3>1. Mover(s)
      BY <2>2, ActorMoves
    <3>2. sweep'[r] \in {sweep[r], Granted[r]}
      BY <2>2, <3>1 DEF Mover
    <3>3. QED
      BY <1>2, <3>2
  <2>3. QED
    BY <1>5, <2>1, <2>2
<1>6. CASE SweepStep(r)
  BY <1>3, <1>6
     DEF SweepStep, ScanMarker, ScanOwn, Authorize, Kill, Record, Complete, Finish,
         Denied, Load, List, Claim, ClaimIdentity
<1>7. ASSUME NEW s \in Registries, WorkerStep(s)
      PROVE  FALSE
  BY <1>7 DEF WorkerStep, WorkerBoots, WorkerExits, WorkerDies
<1>8. CASE LeaseExpires \/ ReapExpires \/ UNCHANGED vars
  BY <1>8 DEF LeaseExpires, ReapExpires, vars
<1>9. QED
  BY <1>4, <1>5, <1>6, <1>7, <1>8 DEF Next

\* consume_orphan_death_proof, called by a recovery sweep, settles a cancellation
\* only when the worker whose lease was revoked is gone.
THEOREM CancelsAreProofBacked == Spec => ProofBackedCancel
<1>1. ControlInv /\ [Next]_vars
        => [\A r \in Registries :
              sweep[r].pc = "ack" /\ sweep'[r].pc # "ack" /\ row'.state # row.state
                => Dead(row.target.gen)]_vars
  BY AckIsBacked
<1>2. QED
  BY <1>1, ControlAlways, PTL DEF Spec, ProofBackedCancel

\* What _finish publishes is published over the end of the worker: a registry that
\* was granted the lease ran it itself, and one that goes by another's lease finds its
\* copy of the snapshot behind as soon as the lease has a worker.
LEMMA SettledIsStopped ==
  ASSUME ControlInv, NEW r \in Registries, rt[r].pc = "settling", CanPublish(r),
         NEW w \in Registries, worker[w].gen = row.owner
  PROVE  ~Running(w)
<1>1. /\ ~IsTerminal(row)
      /\ row.owner = rt[r].gen /\ row.gen = rt[r].gen
      /\ NextRev(r) > row.rev
  BY DEF CanPublish, Publishable, Holds
<1>2. rt[r].gen # 0
  BY LeasedGen, ControlAssumption DEF Gens
<1>3. CASE rt[r].own
  <2>1. Grant(r) = rt[r].gen
    BY <1>3 DEF Grant
  <2>2. w = r
    BY <1>1, <1>2, <2>1 DEF ControlInv, GrantsUnique
  <2>3. QED
    BY <2>2 DEF ControlInv, SettlingIsStopped
<1>4. CASE ~rt[r].own
  <2>1. Lead = 1
    BY <1>1, <1>2 DEF Lead, Started
  <2>2. row.rev >= rt[r].rev + Lead
    BY <1>1, <1>2, <1>4 DEF ControlInv, CopiesAreBehind, Foreign
  <2>3. NextRev(r) = rt[r].rev + 1
    BY <1>4 DEF NextRev
  <2>4. FALSE
    BY <1>1, <2>1, <2>2, <2>3, RecordFields, RowFields
  <2>5. QED
    BY <2>4
<1>5. QED
  BY <1>3, <1>4, RecordFields

\* Only _finish stores a result.
LEMMA ResultIsSettled ==
  ASSUME ControlInv, [Next]_vars, row.state \notin Terminal,
         row'.state \in {"succeeded", "failed"}
  PROVE  \A w \in Registries : worker[w].gen = row.owner => ~Running(w)
<1>0. row \in RowType(Registries)
  BY RowFields
<1> DEFINE Unresolved == {row.state, "queued", "running", "cancelled"}
<1>1. row'.state \notin Unresolved
  BY DEF Terminal
<1>2. /\ Created(row).state \in Unresolved
      /\ Claimed(row).state \in Unresolved
      /\ Renewed(row).state \in Unresolved
      /\ Released(row).state \in Unresolved
      /\ \A n : Published(row, "running", n).state \in Unresolved
      /\ Unfenced(row).state \in Unresolved
      /\ \A k \in ProofKinds : ProofRecorded(row, k).state \in Unresolved
      /\ \A g \in Nat, r \in Registries :
           /\ ReapAuthorized(row, g, r).state \in Unresolved
           /\ ReapQuarantined(row, r).state \in Unresolved
  BY <1>0
     DEF RowType, Created, Claimed, Renewed, Released, Published, Unfenced,
         ProofRecorded, ReapAuthorized, ReapQuarantined
<1>3. Cancelled(row).state \in Unresolved
  <2>1. CASE IsTerminal(row)
    BY <2>1 DEF Cancelled
  <2>2. CASE ~IsTerminal(row)
    <3>1. Cancelled(row) = [row EXCEPT !.state = "cancelled", !.rev = @ + 1]
      BY <2>2 DEF Cancelled
    <3>2. QED
      BY <1>0, <3>1 DEF RowType
  <2>3. QED
    BY <2>1, <2>2
<1>4. CancelRequested(row).state \in Unresolved
  <2>1. Revoked(row).state = row.state
    BY <1>0 DEF Revoked, RowType
  <2>2. QED
    BY <1>3, <2>1 DEF CancelRequested
<1>5. row.state \in Unresolved
  OBVIOUS
<1> HIDE DEF Unresolved
<1>6. row' # row
  BY <1>1, <1>5
<1>7. ASSUME NEW r \in Registries, ProcessStep(r) \/ RunnerStep(r)
      PROVE  \A w \in Registries : worker[w].gen = row.owner => ~Running(w)
  <2>1. CASE Settle(r)
    <3>1. rt[r].pc = "settling" /\ CanPublish(r)
      BY <1>6, <2>1 DEF Settle
    <3>2. QED
      BY <3>1, SettledIsStopped
  <2>2. CASE ~Settle(r)
    <3>1. \/ row' \in {row, Created(row), Claimed(row), Renewed(row), Released(row),
                       Cancelled(row), CancelRequested(row)}
          \/ \E n : row' = Published(row, "running", n)
      BY <1>7, <2>2
         DEF ProcessStep, RunnerStep, Crash, Suspend, Create, AdmitNew,
             AdmitIdentity, StartOperation, Spawn, Collect, LocalCancel, Deadline,
             StopFor, HbRenew, HbLost, HbCancel, HbAck, RequestCancel
    <3>2. QED
      BY <1>1, <1>2, <1>3, <1>4, <1>6, <3>1
  <2>3. QED
    BY <2>1, <2>2
<1>8. ASSUME NEW r \in Registries, SweepStep(r)
      PROVE  FALSE
  <2>1. sweep[r].gen \in Nat /\ sweep[r].kind \in ProofKinds
    BY SweepFields
  <2>2. row' \in {row, ReapAuthorized(row, sweep[r].gen, r),
                  ProofRecorded(row, sweep[r].kind), Unfenced(row),
                  ReapQuarantined(row, r), Cancelled(row), Claimed(row)}
    BY <1>8
       DEF SweepStep, ScanMarker, ScanOwn, Authorize, Kill, Record, Complete, Finish,
           Denied, Load, List, Ack, Claim, ClaimIdentity
  <2>3. QED
    BY <1>1, <1>2, <1>3, <1>6, <2>1, <2>2
<1>9. CASE LeaseExpires \/ ReapExpires
  <2>1. row'.state = row.state
    BY <1>0, <1>9 DEF LeaseExpires, ReapExpires, RowType
  <2>2. QED
    BY <1>1, <1>5, <2>1
<1>10. ASSUME NEW r \in Registries, WorkerStep(r)
      PROVE  FALSE
  BY <1>6, <1>10 DEF WorkerStep, WorkerBoots, WorkerExits, WorkerDies
<1>11. CASE UNCHANGED vars
  BY <1>6, <1>11 DEF vars
<1>12. QED
  BY <1>7, <1>8, <1>9, <1>10, <1>11 DEF Next

\* A result is stored only after the worker that produced it, or failed to, is gone
\* (_confirm_worker_group_exit before _finish).
THEOREM ResultsAfterDeath == Spec => ResultsFollowDeath
<1>1. ControlInv /\ [Next]_vars
        => [row.state \notin Terminal /\ row'.state \in {"succeeded", "failed"}
              => \A r \in Registries : worker[r].gen = row.owner => ~Running(r)]_vars
  BY ResultIsSettled
<1>2. QED
  BY <1>1, ControlAlways, PTL DEF Spec, ResultsFollowDeath
===============================================================================
