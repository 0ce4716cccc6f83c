----------------------------- MODULE LiveJobStore -----------------------------
(***************************************************************************)
(* What the durable live-job store promises whoever calls it, in whatever  *)
(* order: any transaction, with any lease generation or reap token, at any *)
(* time.  Nothing here assumes that registries or workers behave; stale    *)
(* processes that kept an old lease or an old token are part of the        *)
(* environment.  Source: persistence/live_planning_jobs.py.                *)
(*                                                                         *)
(* One job.  The rows of two jobs share no column and no transaction       *)
(* touches two of them.  A transaction that rolls back is a stuttering     *)
(* step and is left out.                                                   *)
(***************************************************************************)
EXTENDS LiveJobRow, Sequences

CONSTANTS
  Controllers,   \* the registries' reaper ids
  Pairs,         \* date pairs of the job
  Digests,       \* execution digests a pair result can have
  MaxGen,        \* bound: no transaction raises lease_generation past it
  MaxRev         \* bound: no transaction raises the revision past it

ASSUME StoreAssumption ==
  /\ MaxGen \in Nat
  /\ MaxRev \in Nat
  /\ Nobody \notin Controllers

VARIABLES
  row,      \* the LivePlanningJobRow
  stored    \* its LivePlanningPairResultRows, in the order they were inserted

vars == <<row, stored>>

PairResult == [pair : Pairs, digest : Digests, gen : Nat]

TypeOK ==
  /\ row \in RowType(Controllers)
  /\ stored \in Seq(PairResult)

Init ==
  /\ row = NewRow
  /\ stored = <<>>

Exists   == row.state # "absent"
RevRoom  == row.rev < MaxRev
GenRoom  == row.gen < MaxGen
Gens     == 1..MaxGen

Write(r) == row' = r /\ UNCHANGED stored
-------------------------------------------------------------------------------
Create ==
  /\ ~Exists
  /\ RevRoom
  /\ Write(Created(row))

Claim ==
  /\ Claimable(row)
  /\ RevRoom /\ GenRoom
  /\ Write(Claimed(row))

Renew(g) ==
  /\ Renewable(row, g)
  /\ Write(Renewed(row))

Release(g) ==
  /\ Holds(row, g)
  /\ Write(Released(row))

\* The holder chooses the revision: its own copy may be behind or ahead.
Publish(g, state, rev) ==
  /\ Exists
  /\ Publishable(row, g, rev)
  /\ Write(Published(row, state, rev))

AppendCheckpoint(g) ==
  /\ MayWrite(row, g)
  /\ RevRoom
  /\ Write(Checkpointed(row))

Settle(g, state) ==
  /\ MayWrite(row, g)
  /\ RevRoom
  /\ Write(Settled(row, state))

\* A pair that is already there is left alone, whatever its digest.
StorePair(g, p, d) ==
  /\ MayWrite(row, g)
  /\ \A i \in 1..Len(stored) : stored[i].pair # p
  /\ stored' = Append(stored, [pair |-> p, digest |-> d, gen |-> g])
  /\ UNCHANGED row
-------------------------------------------------------------------------------
Cancel ==
  /\ Exists /\ ~IsTerminal(row)
  /\ RevRoom
  /\ Write(Cancelled(row))

RequestCancel ==
  /\ Exists /\ ~IsTerminal(row)
  /\ RevRoom /\ GenRoom
  /\ Write(CancelRequested(row))

ConsumeDeathProof(g) ==
  /\ ProofSettlesCancel(row, g)
  /\ RevRoom
  /\ Write(Cancelled(row))
-------------------------------------------------------------------------------
Authorize(g, c) ==
  /\ ReapTakesOver(row, g) \/ ReapStarts(row, g)
  /\ RevRoom /\ GenRoom
  /\ Write(ReapAuthorized(row, g, c))

Quarantine(c) ==
  /\ Quarantinable(row)
  /\ RevRoom /\ GenRoom
  /\ Write(ReapQuarantined(row, c))

RecordProof(g, token, kind) ==
  /\ ProofRecordable(row, g, token)
  /\ Write(ProofRecorded(row, kind))

CompleteReap(g, token) ==
  /\ ReapCompletable(row, g, token)
  /\ Write(Unfenced(row))

ConsumeExpiredProof ==
  /\ ExpiredProofConsumable(row)
  /\ Write(Unfenced(row))
-------------------------------------------------------------------------------
\* Time: a deadline passes.
LeaseExpires ==
  /\ row.live
  /\ Write([row EXCEPT !.live = FALSE])

ReapExpires ==
  /\ row.reap.live
  /\ Write([row EXCEPT !.reap.live = FALSE])
-------------------------------------------------------------------------------
HolderStep(g) ==
  \/ Renew(g)
  \/ Release(g)
  \/ \E s \in Terminal \cup {"running"}, rev \in 1..MaxRev : Publish(g, s, rev)
  \/ AppendCheckpoint(g)
  \/ \E s \in Terminal : Settle(g, s)
  \/ \E p \in Pairs, d \in Digests : StorePair(g, p, d)

ReaperStep(g) ==
  \/ \E c \in Controllers : Authorize(g, c)
  \/ \E t \in 1..MaxRev, k \in ProofKinds \ {"none"} : RecordProof(g, t, k)
  \/ \E t \in 1..MaxRev : CompleteReap(g, t)

Next ==
  \/ Create
  \/ Claim
  \/ Cancel
  \/ RequestCancel
  \/ \E c \in Controllers : Quarantine(c)
  \/ ConsumeExpiredProof
  \/ LeaseExpires
  \/ ReapExpires
  \/ \E g \in Gens : HolderStep(g) \/ ReaperStep(g) \/ ConsumeDeathProof(g)

Spec == Init /\ [][Next]_vars
-------------------------------------------------------------------------------
\* A fence on the row and a lease on it exclude each other, and the fence is
\* over a generation that is already gone: between authorize_orphan_reap and
\* complete_orphan_reap nobody can claim, renew or write (the promise of the
\* authorize_orphan_reap docstring, live_planning_jobs.py:607).
FenceExcludesLease ==
  Fenced(row) => /\ row.owner = 0
                 /\ ~row.live
                 /\ row.reap.gen < row.gen

\* A new fence starts with no evidence: a death proof recorded for an earlier
\* worker can never complete the reaping of a later one.
FreshFenceHasNoProof ==
  [][~Fenced(row) /\ Fenced(row)' => row'.reap.proof = "none"]_vars

\* While a fence carries a proof, a takeover keeps the fence on the lease that
\* the proof is about.
ProofKeepsItsTarget ==
  [][row.reap.proof # "none" /\ Fenced(row)'
       => row'.reap.gen = row.reap.gen /\ row'.reap.owner = row.reap.owner]_vars

\* The outcome of a job, once stored, is the outcome for good, whatever stale
\* process still calls the store.
TerminalIsFinal ==
  [][IsTerminal(row) => row'.state = row.state]_vars

\* Whoever polls by revision misses nothing: no change of state, of the
\* cancellation flag or of the lease generation keeps the revision.
RevisionGrows ==
  [][/\ row'.rev >= row.rev
     /\ row'.gen >= row.gen
     /\ row'.rev = row.rev => /\ row'.state = row.state
                              /\ row'.cancelling = row.cancelling
                              /\ row'.gen = row.gen]_vars

\* A cancellation that was requested is never undone and never overtaken by a
\* late success or failure, even of a worker that claimed the row afterwards.
CancelIntentSticks ==
  [][row.cancelling /\ ~IsTerminal(row)
       => row'.cancelling /\ row'.state \in {row.state, "cancelled"}]_vars

\* No superseded worker adds a pair result behind its successor's back: the
\* stored results carry non-decreasing lease generations, none beyond the
\* row's, and one result per date pair.
PairResultsAscend ==
  /\ \A i, j \in 1..Len(stored) :
       i < j => /\ stored[i].gen <= stored[j].gen
                /\ stored[i].pair # stored[j].pair
  /\ \A i \in 1..Len(stored) : stored[i].gen <= row.gen
===============================================================================
