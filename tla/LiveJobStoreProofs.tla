-------------------------- MODULE LiveJobStoreProofs --------------------------
(***************************************************************************)
(* What LiveJobStore promises, proved for every set of controllers, date   *)
(* pairs and digests and for every bound.                                  *)
(*                                                                         *)
(* The safety properties are not inductive by themselves.  StoreInv adds   *)
(* what they rest on: a lease is always under the row's own generation, a  *)
(* row without a fence carries no trace of one, and a row that was never   *)
(* claimed has neither lease nor cancellation.                             *)
(***************************************************************************)
EXTENDS LiveJobStore, TLAPS

OwnerIsCurrent == row.owner \in {0, row.gen}

NoFenceNoTrace == ~Fenced(row) => row.reap = NoReap

UnclaimedIsBare ==
  /\ row.state \in {"absent", "queued"} =>
       /\ row.gen = 0
       /\ row.owner = 0
       /\ row.target = NoTarget
       /\ ~row.cancelling
  /\ row.state = "absent" => row.rev = 0

StoreInv ==
  /\ TypeOK
  /\ OwnerIsCurrent
  /\ NoFenceNoTrace
  /\ UnclaimedIsBare
  /\ FenceExcludesLease
-------------------------------------------------------------------------------
(* What the transactions make of the type of a row. *)

\* A created row is a row.
LEMMA CreatedType ==
  ASSUME NEW r \in RowType(Controllers)
  PROVE  Created(r) \in RowType(Controllers)
BY DEF RowType, Created, States, Terminal

\* A claimed row is a row.
LEMMA ClaimedType ==
  ASSUME NEW r \in RowType(Controllers)
  PROVE  Claimed(r) \in RowType(Controllers)
<1>1. /\ "running" \in States
      /\ r.rev + 1 \in Nat
      /\ r.gen + 1 \in Nat
  BY DEF RowType, States
<1>2. QED
  BY <1>1 DEF RowType, Claimed

\* Renewing, releasing or outliving a lease leaves a row.
LEMMA LeaseType ==
  ASSUME NEW r \in RowType(Controllers)
  PROVE  /\ Renewed(r) \in RowType(Controllers)
         /\ Released(r) \in RowType(Controllers)
         /\ [r EXCEPT !.live = FALSE] \in RowType(Controllers)
BY DEF RowType, Renewed, Released

\* Publishing a snapshot, a checkpoint or an outcome leaves a row.
LEMMA OutcomeType ==
  ASSUME NEW r \in RowType(Controllers), NEW s \in States, NEW n \in Nat
  PROVE  /\ Published(r, s, n) \in RowType(Controllers)
         /\ Checkpointed(r) \in RowType(Controllers)
         /\ Settled(r, s) \in RowType(Controllers)
<1>1. r.rev + 1 \in Nat
  BY DEF RowType
<1>2. Published(r, s, n) \in RowType(Controllers)
  BY DEF RowType, Published
<1>3. Checkpointed(r) \in RowType(Controllers)
  BY <1>1 DEF RowType, Checkpointed
<1>4. Settled(r, s) \in RowType(Controllers)
  BY <1>1 DEF RowType, Settled
<1>5. QED
  BY <1>2, <1>3, <1>4

\* A cancelled row is a row.
LEMMA CancelledType ==
  ASSUME NEW r \in RowType(Controllers)
  PROVE  Cancelled(r) \in RowType(Controllers)
<1>1. "cancelled" \in States /\ r.rev + 1 \in Nat
  BY DEF RowType, States, Terminal
<1>2. [r EXCEPT !.state = "cancelled", !.rev = @ + 1] \in RowType(Controllers)
  BY <1>1 DEF RowType
<1>3. QED
  BY <1>2 DEF Cancelled

\* A row whose lease a cancellation revoked is a row.
LEMMA RevokedType ==
  ASSUME NEW r \in RowType(Controllers)
  PROVE  Revoked(r) \in RowType(Controllers)
<1> DEFINE t == [owner |-> r.owner, gen |-> r.gen]
<1>1. r.rev + 1 \in Nat /\ r.gen + 1 \in Nat /\ 0 \in Nat
  BY DEF RowType
<1>2. t \in [owner : Nat, gen : Nat]
  BY DEF RowType
<1>3. QED
  BY <1>1, <1>2 DEF RowType, Revoked

\* Fencing a row, by authorization or quarantine, leaves a row.
LEMMA FenceType ==
  ASSUME NEW r \in RowType(Controllers), NEW g \in Nat, NEW c \in Controllers
  PROVE  /\ ReapAuthorized(r, g, c) \in RowType(Controllers)
         /\ ReapQuarantined(r, c) \in RowType(Controllers)
<1> DEFINE ReapColumns == [token : Nat, owner : Nat, gen : Nat,
                           controller : Controllers \cup {Nobody},
                           live : BOOLEAN, proof : ProofKinds]
           Fence(o, n)  == [token |-> r.rev + 1, owner |-> o, gen |-> n,
                           controller |-> c, live |-> TRUE,
                           proof |-> r.reap.proof]
           FencedRow(n, f) == [r EXCEPT !.rev = @ + 1, !.gen = n, !.owner = 0,
                                        !.live = FALSE, !.reap = f]
<1>1. /\ r.rev + 1 \in Nat
      /\ r.gen + 1 \in Nat
      /\ r.owner \in Nat
      /\ r.gen \in Nat
      /\ r.reap.proof \in ProofKinds
  BY DEF RowType
<1>2. ASSUME NEW o \in Nat, NEW n \in Nat
      PROVE  Fence(o, n) \in ReapColumns
  BY <1>1
<1>3. ASSUME NEW n \in Nat, NEW f \in ReapColumns
      PROVE  FencedRow(n, f) \in RowType(Controllers)
  BY <1>1 DEF RowType
<1>4. ReapQuarantined(r, c) = FencedRow(r.gen + 1, Fence(r.owner, r.gen))
  BY DEF ReapQuarantined
<1>5. PICK n \in Nat : ReapAuthorized(r, g, c) = FencedRow(n, Fence(g, g))
  <2>1. CASE Fenced(r) \/ CancelledGeneration(r, g)
    BY <1>1, <2>1 DEF ReapAuthorized
  <2>2. CASE ~(Fenced(r) \/ CancelledGeneration(r, g))
    BY <1>1, <2>2 DEF ReapAuthorized
  <2>3. QED
    BY <2>1, <2>2
<1> HIDE DEF ReapColumns, Fence, FencedRow
<1>6. QED
  BY <1>1, <1>2, <1>3, <1>4, <1>5

\* Recording a death proof, or the end of a fence's time, leaves a row.
LEMMA ProofType ==
  ASSUME NEW r \in RowType(Controllers), NEW k \in ProofKinds
  PROVE  /\ ProofRecorded(r, k) \in RowType(Controllers)
         /\ [r EXCEPT !.reap.live = FALSE] \in RowType(Controllers)
BY DEF RowType, ProofRecorded

\* A row whose fence is released is a row.
LEMMA UnfencedType ==
  ASSUME NEW r \in RowType(Controllers)
  PROVE  Unfenced(r) \in RowType(Controllers)
BY DEF RowType, Unfenced, NoReap, ProofKinds
-------------------------------------------------------------------------------
(* Type correctness. *)

\* Lease generations are natural numbers.
LEMMA GensAreNaturals == Gens \subseteq Nat
BY StoreAssumption DEF Gens

\* A row that does not exist yet is a row.
LEMMA TypeInit == StoreAssumption /\ Init => TypeOK
BY DEF Init, TypeOK, NewRow, NoReap, NoTarget, RowType, States, ProofKinds

\* Every transaction leaves a row and a list of pair results.
LEMMA TypeStep == TypeOK /\ [Next]_vars => TypeOK'
<1> SUFFICES ASSUME TypeOK, [Next]_vars
             PROVE  TypeOK'
  OBVIOUS
<1> USE DEF TypeOK, Write
<1>1. CASE UNCHANGED vars
  BY <1>1 DEF vars
<1>2. CASE Create
  BY <1>2, CreatedType DEF Create
<1>3. CASE Claim
  BY <1>3, ClaimedType DEF Claim
<1>4. CASE Cancel
  BY <1>4, CancelledType DEF Cancel
<1>5. CASE RequestCancel
  BY <1>5, CancelledType, RevokedType DEF RequestCancel, CancelRequested
<1>6. ASSUME NEW c \in Controllers, Quarantine(c)
      PROVE  TypeOK'
  <2>1. 0 \in Nat
    OBVIOUS
  <2>2. QED
    BY <1>6, <2>1, FenceType DEF Quarantine
<1>7. CASE ConsumeExpiredProof
  BY <1>7, UnfencedType DEF ConsumeExpiredProof
<1>8. CASE LeaseExpires
  BY <1>8, LeaseType DEF LeaseExpires
<1>9. CASE ReapExpires
  <2>1. "none" \in ProofKinds
    BY DEF ProofKinds
  <2>2. QED
    BY <1>9, <2>1, ProofType DEF ReapExpires
<1>10. ASSUME NEW g \in Gens, HolderStep(g)
       PROVE  TypeOK'
  <2>1. g \in Nat
    BY GensAreNaturals
  <2>2. ASSUME NEW s \in Terminal \cup {"running"}, NEW rev \in 1..MaxRev,
               Publish(g, s, rev)
        PROVE  TypeOK'
    <3>1. s \in States /\ rev \in Nat
      BY StoreAssumption DEF States
    <3>2. QED
      BY <2>2, <3>1, OutcomeType DEF Publish
  <2>3. ASSUME NEW s \in Terminal, Settle(g, s)
        PROVE  TypeOK'
    <3>1. s \in States /\ 0 \in Nat
      BY DEF States
    <3>2. QED
      BY <2>3, <3>1, OutcomeType DEF Settle
  <2>4. ASSUME NEW p \in Pairs, NEW d \in Digests, StorePair(g, p, d)
        PROVE  TypeOK'
    <3>1. [pair |-> p, digest |-> d, gen |-> g] \in PairResult
      BY <2>1 DEF PairResult
    <3>2. QED
      BY <2>4, <3>1 DEF StorePair
  <2>5. CASE AppendCheckpoint(g)
    <3>1. "running" \in States /\ 0 \in Nat
      BY DEF States
    <3>2. QED
      BY <2>5, <3>1, OutcomeType DEF AppendCheckpoint
  <2>6. CASE Renew(g) \/ Release(g)
    BY <2>6, LeaseType DEF Renew, Release
  <2>7. QED
    BY <1>10, <2>2, <2>3, <2>4, <2>5, <2>6 DEF HolderStep
<1>11. ASSUME NEW g \in Gens, ReaperStep(g)
       PROVE  TypeOK'
  <2>1. g \in Nat
    BY GensAreNaturals
  <2>2. ASSUME NEW c \in Controllers, Authorize(g, c)
        PROVE  TypeOK'
    BY <2>1, <2>2, FenceType DEF Authorize
  <2>3. ASSUME NEW t \in 1..MaxRev, NEW k \in ProofKinds \ {"none"},
               RecordProof(g, t, k)
        PROVE  TypeOK'
    BY <2>3, ProofType DEF RecordProof
  <2>4. ASSUME NEW t \in 1..MaxRev, CompleteReap(g, t)
        PROVE  TypeOK'
    BY <2>4, UnfencedType DEF CompleteReap
  <2>5. QED
    BY <1>11, <2>2, <2>3, <2>4 DEF ReaperStep
<1>12. ASSUME NEW g \in Gens, ConsumeDeathProof(g)
       PROVE  TypeOK'
  BY <1>12, CancelledType DEF ConsumeDeathProof
<1>13. QED
  BY <1>1, <1>2, <1>3, <1>4, <1>5, <1>6, <1>7, <1>8, <1>9, <1>10, <1>11, <1>12
     DEF Next

\* Whatever is called in whatever order, row and pair results keep their types.
THEOREM Typing == Spec => []TypeOK
<1>1. Init => TypeOK
  BY TypeInit, StoreAssumption
<1>2. QED
  BY <1>1, TypeStep, PTL DEF Spec
-------------------------------------------------------------------------------
(* The fence and the lease. *)

\* The inductive invariant holds of a row that does not exist yet.
LEMMA InvInit == Init => StoreInv
BY TypeInit, StoreAssumption
   DEF Init, StoreInv, OwnerIsCurrent, NoFenceNoTrace, UnclaimedIsBare,
       FenceExcludesLease, NewRow, NoReap, Fenced

\* Every transaction, whoever calls it, keeps the inductive invariant.
LEMMA InvStep == StoreInv /\ [Next]_vars => StoreInv'
<1> SUFFICES ASSUME StoreInv, [Next]_vars
             PROVE  /\ OwnerIsCurrent'
                    /\ NoFenceNoTrace'
                    /\ UnclaimedIsBare'
                    /\ FenceExcludesLease'
  BY TypeStep DEF StoreInv
<1> DEFINE Goal == OwnerIsCurrent /\ NoFenceNoTrace /\ UnclaimedIsBare
                     /\ FenceExcludesLease
<1>0. row \in RowType(Controllers)
  BY DEF StoreInv, TypeOK
<1> USE DEF StoreInv, OwnerIsCurrent, NoFenceNoTrace, UnclaimedIsBare,
            FenceExcludesLease, Write, RowType, Fenced, IsTerminal
<1>1. CASE UNCHANGED vars
  BY <1>1 DEF vars
<1>2. CASE Create
  BY <1>0, <1>2 DEF Create, Created, Exists
<1>3. CASE Claim
  BY <1>0, <1>3 DEF Claim, Claimable, Recoverable, Claimed
<1>4. CASE Cancel
  BY <1>0, <1>4 DEF Cancel, Cancelled, Exists
<1>5. CASE RequestCancel
  <2>1. CASE row' = Cancelled(row)
    BY <1>0, <1>5, <2>1 DEF RequestCancel, Cancelled, Exists
  <2>2. CASE ~NeverLeased(row) /\ row' = Revoked(row)
    <3>1. row.state \notin {"absent", "queued"}
      BY <1>5, <2>2 DEF RequestCancel, NeverLeased, Exists
    <3>2. QED
      BY <1>0, <2>2, <3>1 DEF Revoked
  <2>3. QED
    BY <1>5, <2>1, <2>2 DEF RequestCancel, CancelRequested
<1>6. ASSUME NEW c \in Controllers, Quarantine(c)
      PROVE  Goal'
  BY <1>0, <1>6 DEF Quarantine, Quarantinable, ReapQuarantined
<1>7. CASE ConsumeExpiredProof
  BY <1>0, <1>7 DEF ConsumeExpiredProof, ExpiredProofConsumable, Unfenced, NoReap
<1>8. CASE LeaseExpires
  BY <1>0, <1>8 DEF LeaseExpires
<1>9. CASE ReapExpires
  BY <1>0, <1>9 DEF ReapExpires, NoReap
<1>10. ASSUME NEW g \in Gens, HolderStep(g)
       PROVE  Goal'
  <2>1. g \in Nat \ {0}
    BY StoreAssumption DEF Gens
  <2>2. ASSUME NEW s \in Terminal \cup {"running"}, NEW rev \in 1..MaxRev,
               Publish(g, s, rev)
        PROVE  Goal'
    BY <1>0, <2>2 DEF Publish, Published, Publishable, Terminal
  <2>3. ASSUME NEW s \in Terminal, Settle(g, s)
        PROVE  Goal'
    BY <1>0, <2>3 DEF Settle, Settled, Terminal
  <2>4. ASSUME NEW p \in Pairs, NEW d \in Digests, StorePair(g, p, d)
        PROVE  Goal'
    BY <2>4 DEF StorePair
  <2>5. CASE AppendCheckpoint(g)
    BY <1>0, <2>5 DEF AppendCheckpoint, MayWrite, Checkpointed
  <2>6. CASE Renew(g)
    BY <1>0, <2>1, <2>6 DEF Renew, Renewable, Renewed, Holds
  <2>7. CASE Release(g)
    BY <1>0, <2>7 DEF Release, Released
  <2>8. QED
    BY <1>10, <2>2, <2>3, <2>4, <2>5, <2>6, <2>7 DEF HolderStep
<1>11. ASSUME NEW g \in Gens, ReaperStep(g)
       PROVE  Goal'
  <2>1. g \in Nat \ {0}
    BY StoreAssumption DEF Gens
  <2>2. ASSUME NEW c \in Controllers, Authorize(g, c)
        PROVE  Goal'
    BY <1>0, <2>1, <2>2
       DEF Authorize, ReapTakesOver, ReapStarts, Targets, CancelledGeneration,
           ReapAuthorized
  <2>3. ASSUME NEW t \in 1..MaxRev, NEW k \in ProofKinds \ {"none"},
               RecordProof(g, t, k)
        PROVE  Goal'
    BY <1>0, <2>3 DEF RecordProof, ProofRecordable, ProofRecorded
  <2>4. ASSUME NEW t \in 1..MaxRev, CompleteReap(g, t)
        PROVE  Goal'
    BY <1>0, <2>4 DEF CompleteReap, Unfenced, NoReap
  <2>5. QED
    BY <1>11, <2>2, <2>3, <2>4 DEF ReaperStep
<1>12. ASSUME NEW g \in Gens, ConsumeDeathProof(g)
       PROVE  Goal'
  BY <1>0, <1>12 DEF ConsumeDeathProof, ProofSettlesCancel, Cancelled
<1>13. QED
  BY <1>1, <1>2, <1>3, <1>4, <1>5, <1>6, <1>7, <1>8, <1>9, <1>10, <1>11, <1>12
     DEF Next

\* Whatever stale reaper or worker still calls the store, a row is never fenced
\* and leased at once, and a fence is over a generation that is gone.
THEOREM FenceOrLease == Spec => []FenceExcludesLease
<1>1. StoreInv => FenceExcludesLease
  BY DEF StoreInv
<1>2. QED
  BY InvInit, InvStep, <1>1, PTL DEF Spec
-------------------------------------------------------------------------------
(* What one step may do to the row.  The actions are those of the action   *)
(* properties of LiveJobStore.                                             *)

FenceStartsBare == ~Fenced(row) /\ Fenced(row)' => row'.reap.proof = "none"

FenceKeepsTarget ==
  row.reap.proof # "none" /\ Fenced(row)'
    => row'.reap.gen = row.reap.gen /\ row'.reap.owner = row.reap.owner

OutcomeStays == IsTerminal(row) => row'.state = row.state

IntentStays ==
  row.cancelling /\ ~IsTerminal(row)
    => row'.cancelling /\ row'.state \in {row.state, "cancelled"}

ChangeIsRevised ==
  /\ row'.rev >= row.rev
  /\ row'.gen >= row.gen
  /\ row'.rev = row.rev => /\ row'.state = row.state
                           /\ row'.cancelling = row.cancelling
                           /\ row'.gen = row.gen

RowPromise ==
  /\ FenceStartsBare
  /\ FenceKeepsTarget
  /\ OutcomeStays
  /\ IntentStays
  /\ ChangeIsRevised

\* From a row that satisfies the invariant, every transaction keeps to RowPromise.
LEMMA PromiseKept == StoreInv /\ [Next]_vars => RowPromise
<1> SUFFICES ASSUME StoreInv, [Next]_vars
             PROVE  RowPromise
  OBVIOUS
<1>0. row \in RowType(Controllers)
  BY DEF StoreInv, TypeOK
<1> USE DEF RowPromise, FenceStartsBare, FenceKeepsTarget, OutcomeStays,
            IntentStays, ChangeIsRevised, Write, RowType, Fenced, IsTerminal,
            Terminal
<1>1. CASE UNCHANGED row
  BY <1>0, <1>1
<1>2. CASE Create
  BY <1>0, <1>2 DEF StoreInv, UnclaimedIsBare, Create, Created, Exists
<1>3. CASE Claim
  BY <1>0, <1>3
     DEF StoreInv, UnclaimedIsBare, Claim, Claimable, Recoverable, Claimed
<1>. HIDE DEF RowPromise
<1>c. ASSUME row' = Cancelled(row)
      PROVE  RowPromise
  <2>1. CASE IsTerminal(row)
    BY <1>1, <1>c, <2>1 DEF Cancelled
  <2>2. CASE ~IsTerminal(row)
    <3>1. row' = [row EXCEPT !.state = "cancelled", !.rev = @ + 1]
      BY <1>c, <2>2 DEF Cancelled
    <3>2. QED
      BY <1>0, <2>2, <3>1 DEF RowPromise
  <2>3. QED
    BY <2>1, <2>2
<1>. USE DEF RowPromise
<1>4. CASE Cancel
  BY <1>4, <1>c DEF Cancel
<1>5. CASE RequestCancel
  <2>1. CASE row' = Cancelled(row)
    BY <1>c, <2>1
  <2>2. CASE row' = Revoked(row)
    <3>1. row'.cancelling
      BY <1>0, <2>2 DEF Revoked
    <3>2. /\ row'.state = row.state
          /\ row'.rev = row.rev + 1
          /\ row'.gen = row.gen + 1
          /\ row'.reap = row.reap
      BY <1>0, <2>2 DEF Revoked
    <3>3. IntentStays
      BY <3>1, <3>2, Zenon
    <3>4. FenceStartsBare /\ FenceKeepsTarget /\ OutcomeStays
      BY <3>2
    <3>5. ChangeIsRevised
      BY <1>0, <3>2
    <3>6. QED
      BY <3>3, <3>4, <3>5
  <2>3. QED
    BY <1>5, <2>1, <2>2 DEF RequestCancel, CancelRequested
<1>6. ASSUME NEW c \in Controllers, Quarantine(c)
      PROVE  RowPromise
  BY <1>0, <1>6
     DEF StoreInv, NoFenceNoTrace, NoReap, Quarantine, Quarantinable,
         ReapQuarantined
<1>7. CASE ConsumeExpiredProof
  BY <1>0, <1>7 DEF ConsumeExpiredProof, Unfenced, NoReap
<1>8. CASE LeaseExpires
  BY <1>0, <1>8 DEF LeaseExpires
<1>9. CASE ReapExpires
  BY <1>0, <1>9 DEF ReapExpires
<1>10. ASSUME NEW g \in Gens, HolderStep(g)
       PROVE  RowPromise
  <2>2. ASSUME NEW s \in Terminal \cup {"running"}, NEW rev \in 1..MaxRev,
               Publish(g, s, rev)
        PROVE  RowPromise
    <3>1. rev \in Nat /\ rev > row.rev
      BY <2>2, StoreAssumption DEF Publish, Publishable
    <3>2. QED
      BY <1>0, <2>2, <3>1 DEF Publish, Published, Publishable
  <2>3. ASSUME NEW s \in Terminal, Settle(g, s)
        PROVE  RowPromise
    BY <1>0, <2>3 DEF Settle, Settled, MayWrite
  <2>4. ASSUME NEW p \in Pairs, NEW d \in Digests, StorePair(g, p, d)
        PROVE  RowPromise
    BY <1>0, <1>1, <2>4 DEF StorePair
  <2>5. CASE AppendCheckpoint(g)
    BY <1>0, <2>5 DEF AppendCheckpoint, Checkpointed
  <2>6. CASE Renew(g)
    BY <1>0, <2>6 DEF Renew, Renewed
  <2>7. CASE Release(g)
    BY <1>0, <2>7 DEF Release, Released
  <2>8. QED
    BY <1>10, <2>2, <2>3, <2>4, <2>5, <2>6, <2>7 DEF HolderStep
<1>11. ASSUME NEW g \in Gens, ReaperStep(g)
       PROVE  RowPromise
  <2>1. g \in Nat
    BY GensAreNaturals
  <2>2. ASSUME NEW c \in Controllers, Authorize(g, c)
        PROVE  RowPromise
    BY <1>0, <2>1, <2>2
       DEF StoreInv, NoFenceNoTrace, NoReap, Authorize, ReapTakesOver,
           ReapStarts, Targets, CancelledGeneration, ReapAuthorized
  <2>3. ASSUME NEW t \in 1..MaxRev, NEW k \in ProofKinds \ {"none"},
               RecordProof(g, t, k)
        PROVE  RowPromise
    BY <1>0, <2>3 DEF RecordProof, ProofRecordable, ProofRecorded
  <2>4. ASSUME NEW t \in 1..MaxRev, CompleteReap(g, t)
        PROVE  RowPromise
    BY <1>0, <2>4 DEF CompleteReap, Unfenced, NoReap
  <2>5. QED
    BY <1>11, <2>2, <2>3, <2>4 DEF ReaperStep
<1>12. ASSUME NEW g \in Gens, ConsumeDeathProof(g)
       PROVE  RowPromise
  BY <1>12, <1>c DEF ConsumeDeathProof
<1>13. QED
  BY <1>1, <1>2, <1>3, <1>4, <1>5, <1>6, <1>7, <1>8, <1>9, <1>10, <1>11, <1>12
     DEF Next, vars

\* The inductive invariant holds in every reachable state.
LEMMA InvHolds == Spec => []StoreInv
BY InvInit, InvStep, PTL DEF Spec

\* A death proof recorded for one worker never completes the reaping of another:
\* a new fence starts without a proof.
THEOREM FencesStartBare == Spec => FreshFenceHasNoProof
<1>1. StoreInv /\ [Next]_vars
        => [~Fenced(row) /\ Fenced(row)' => row'.reap.proof = "none"]_vars
  BY PromiseKept DEF RowPromise, FenceStartsBare
<1>2. QED
  BY <1>1, InvHolds, PTL DEF Spec, FreshFenceHasNoProof

\* A takeover of an expired fence that carries a proof stays on the lease the proof
\* is about.
THEOREM ProofsKeepTheirTarget == Spec => ProofKeepsItsTarget
<1>1. StoreInv /\ [Next]_vars
        => [row.reap.proof # "none" /\ Fenced(row)'
              => row'.reap.gen = row.reap.gen
                   /\ row'.reap.owner = row.reap.owner]_vars
  BY PromiseKept DEF RowPromise, FenceKeepsTarget
<1>2. QED
  BY <1>1, InvHolds, PTL DEF Spec, ProofKeepsItsTarget

\* No call of any stale process changes a stored outcome.
THEOREM OutcomesAreFinal == Spec => TerminalIsFinal
<1>1. StoreInv /\ [Next]_vars
        => [IsTerminal(row) => row'.state = row.state]_vars
  BY PromiseKept DEF RowPromise, OutcomeStays
<1>2. QED
  BY <1>1, InvHolds, PTL DEF Spec, TerminalIsFinal

\* Polling by revision misses no change of state, cancellation or generation.
THEOREM RevisionsGrow == Spec => RevisionGrows
<1>1. StoreInv /\ [Next]_vars
        => [/\ row'.rev >= row.rev
            /\ row'.gen >= row.gen
            /\ row'.rev = row.rev => /\ row'.state = row.state
                                     /\ row'.cancelling = row.cancelling
                                     /\ row'.gen = row.gen]_vars
  BY PromiseKept DEF RowPromise, ChangeIsRevised
<1>2. QED
  BY <1>1, InvHolds, PTL DEF Spec, RevisionGrows

\* A cancellation once requested is not overtaken by a result.
THEOREM CancelIntentsStick == Spec => CancelIntentSticks
<1>1. StoreInv /\ [Next]_vars
        => [row.cancelling /\ ~IsTerminal(row)
              => row'.cancelling /\ row'.state \in {row.state, "cancelled"}]_vars
  BY PromiseKept DEF RowPromise, IntentStays
<1>2. QED
  BY <1>1, InvHolds, PTL DEF Spec, CancelIntentSticks
-------------------------------------------------------------------------------
(* Pair results. *)

\* A stored pair result goes behind those of the same or older leases.
LEMMA StorePairStep ==
  ASSUME TypeOK, PairResultsAscend, NEW g \in Gens, NEW p \in Pairs,
         NEW d \in Digests, StorePair(g, p, d)
  PROVE  PairResultsAscend'
<1> DEFINE new == [pair |-> p, digest |-> d, gen |-> g]
<1>1. /\ row' = row
      /\ row.gen = g
      /\ stored' = Append(stored, new)
      /\ \A i \in 1..Len(stored) : stored[i].pair # p
  BY DEF StorePair, MayWrite, Holds
<1>2. stored \in Seq(PairResult) /\ g \in Nat
  BY GensAreNaturals DEF TypeOK
<1>3. /\ Len(stored') = Len(stored) + 1
      /\ stored'[Len(stored) + 1] = new
      /\ \A i \in 1..Len(stored) : stored'[i] = stored[i]
  BY <1>1, <1>2
<1>4. \A i \in 1..Len(stored) : stored[i].gen <= g
  BY <1>1 DEF PairResultsAscend
<1>5. ASSUME NEW i \in 1..Len(stored'), NEW j \in 1..Len(stored'), i < j
      PROVE  /\ stored'[i].gen <= stored'[j].gen
             /\ stored'[i].pair # stored'[j].pair
  <2>1. Len(stored) \in Nat /\ i \in 1..Len(stored)
    BY <1>2, <1>3, <1>5
  <2>2. CASE j \in 1..Len(stored)
    BY <1>3, <1>5, <2>1, <2>2 DEF PairResultsAscend
  <2>3. CASE j = Len(stored) + 1
    BY <1>1, <1>3, <1>4, <2>1, <2>3
  <2>4. QED
    BY <1>3, <2>1, <2>2, <2>3
<1>6. ASSUME NEW i \in 1..Len(stored')
      PROVE  stored'[i].gen <= row'.gen
  <2>1. CASE i \in 1..Len(stored)
    BY <1>1, <1>3, <1>4, <2>1
  <2>2. CASE i = Len(stored) + 1
    BY <1>1, <1>2, <1>3, <2>2
  <2>3. QED
    BY <1>2, <1>3, <2>1, <2>2
<1>7. QED
  BY <1>5, <1>6 DEF PairResultsAscend

\* Every transaction keeps the pair results in order.
LEMMA PairsStep ==
  StoreInv /\ PairResultsAscend /\ [Next]_vars => PairResultsAscend'
<1> SUFFICES ASSUME StoreInv, PairResultsAscend, [Next]_vars
             PROVE  PairResultsAscend'
  OBVIOUS
<1>1. CASE UNCHANGED stored
  <2>1. row.gen \in Nat /\ row'.gen \in Nat /\ row'.gen >= row.gen
    BY PromiseKept, TypeStep
       DEF StoreInv, TypeOK, RowType, RowPromise, ChangeIsRevised
  <2>2. ASSUME NEW i \in 1..Len(stored)
        PROVE  stored[i].gen \in Nat /\ stored[i].gen <= row.gen
    <3>1. stored[i] \in PairResult
      BY DEF StoreInv, TypeOK
    <3>2. QED
      BY <3>1 DEF PairResult, PairResultsAscend
  <2>3. ASSUME NEW i \in 1..Len(stored)
        PROVE  stored[i].gen <= row'.gen
    BY <2>1, <2>2
  <2>4. QED
    BY <1>1, <2>3 DEF PairResultsAscend
<1>2. CASE \E g \in Gens, p \in Pairs, d \in Digests : StorePair(g, p, d)
  BY <1>2, StorePairStep DEF StoreInv
<1>3. QED
  BY <1>1, <1>2
     DEF Next, vars, HolderStep, ReaperStep, Write, Create, Claim, Cancel,
         RequestCancel, Quarantine, ConsumeExpiredProof, LeaseExpires,
         ReapExpires, Renew, Release, Publish, AppendCheckpoint, Settle,
         Authorize, RecordProof, CompleteReap, ConsumeDeathProof

\* Whatever superseded workers still send, the stored pair results ascend in lease
\* generation, and no date pair has two.
THEOREM PairResultsAreFenced == Spec => []PairResultsAscend
<1>1. Init => PairResultsAscend
  BY DEF Init, PairResultsAscend
<1>2. QED
  BY <1>1, PairsStep, InvHolds, PTL DEF Spec
===============================================================================
