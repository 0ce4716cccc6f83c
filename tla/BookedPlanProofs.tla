---------------------------- MODULE BookedPlanProofs ----------------------------
(***************************************************************************)
(* What BookedPlan promises, proved for every set of components and every  *)
(* bound.                                                                  *)
(*                                                                         *)
(* A blocked re-plan leaves a plan that lacks a booked component, and the  *)
(* next one starts from it; a write that fails leaves one run in the cache *)
(* and another on disk, and a restart makes it the run.  So each of the    *)
(* two keeps what is booked (Keeps), because what a re-plan read of the    *)
(* ledger covers every booking that still counts (GuardedCovers), and      *)
(* because a lifted protection is never put back (OverridesAgree).  Pages  *)
(* open in order because the hand-off on record is the last one issued for *)
(* its component (HandIsLatest), and because what has opened was filed     *)
(* before (OpenedIsFiled), so that a restart does not forget it.           *)
(***************************************************************************)
EXTENDS BookedPlan, TLAPS

\* All requests for a component were resolved together, or none of the oldest was.
OverridesAgree ==
  \A c \in Components : overrides[c] # <<>> /\ Head(overrides[c]) = "requested" =>
    \A i \in 1..Len(overrides[c]) : overrides[c][i] = "requested"

Counts(c) == ~Overridden(c) /\ c \notin exempt

\* What a re-plan read covers every booking that still counts.
GuardedCovers == replan # NoReplan => \A c \in facts : Counts(c) => c \in replan.guarded

\* A run that is accepted holds what is booked: of the cache's, AcceptedKeepsBooked.
Keeps(r) ==
  r.decision = "accept" =>
    \A c \in facts : Overridden(c) \/ c \in exempt \cup r.dropped \cup r.plan

PlanInv == TypeOK /\ OverridesAgree /\ GuardedCovers /\ Keeps(run) /\ Keeps(disk)

\* The hand-off on record for a component is the last one issued for it.
HandIsLatest ==
  \A c \in Components : hand[c] # 0 =>
    /\ issued[hand[c]].component = c
    /\ \A g \in 1..Len(issued) : issued[g].component = c => g <= hand[c]

\* What has opened a page is in handoffs.json, and opened it for its own query.
OpenedIsFiled ==
  \A i \in 1..Len(opened) : /\ opened[i].hand \in filed
                            /\ issued[opened[i].hand].query = opened[i].query

InOrder ==
  \A i, j \in 1..Len(opened) :
    i < j /\ issued[opened[i].hand].component = issued[opened[j].hand].component
      => opened[i].hand < opened[j].hand

HandInv == HandIsLatest /\ OpenedIsFiled /\ InOrder

ReplanType  == [kind : {"none", "event", "modify"},
                target : Components \cup {Nothing}, guarded : SUBSET Components]
RepriceType == [component : Components, query : Queries] \cup {NoReprice}
HandoffType == [component : Components, query : Queries, fresh : BOOLEAN]
OpenedType  == [hand : 1..Len(issued), query : Queries]

LEMMA SetupTyped ==
  ASSUME TypeOK
  PROVE  setup.components \subseteq Components /\ setup.queries \subseteq Queries
BY BookedAssumption DEF TypeOK

-------------------------------------------------------------------------------
(* The groups of steps, and what each leaves alone.                          *)

\* A step of the hand-offs changes no plan, no booking and no re-plan.
LEMMA HandoffFrame ==
  ASSUME HandoffStep
  PROVE  UNCHANGED <<run, disk, replan, facts, overrides, exempt, setup>>
BY DEF HandoffStep, RepriceBegin, RepriceIssues, RepriceKeeps, RepriceDone,
       Consume, HandoffExpires, RecordExpires, ledger

\* A re-plan changes neither the bookings nor the overrides nor any hand-off, and
\* every end of one forgets what it read.
LEMMA ReplanFrame ==
  ASSUME ReplanStep
  PROVE  /\ UNCHANGED <<facts, overrides, exempt, reprice, issued, hand, used, filed,
                        opened, setup>>
         /\ \/ replan' = NoReplan
            \/ \E kind \in {"event", "modify"}, c \in setup.components : Begin(kind, c)
BY DEF ReplanStep, Begin, End, EndWithout, EventBlocks, EventRepairs, EventReplans,
       ModifyLodging, ModifyDates, ledger, handoffs, marks

\* A step of the ledger changes nothing but the ledger.
LEMMA LedgerFrame ==
  ASSUME NEW c \in Components, LedgerStep(c)
  PROVE  UNCHANGED <<run, disk, replan, reprice, issued, hand, used, filed, opened, setup>>
BY DEF LedgerStep, Acknowledge, RequestOverride, ResolveOverride, handoffs, marks

-------------------------------------------------------------------------------
(* Types.                                                                    *)

LEMMA LedgerTypeStep ==
  ASSUME TypeOK, NEW c \in Components, LedgerStep(c)
  PROVE  /\ facts' \subseteq Components
         /\ overrides' \in [Components -> Seq({"requested", "applied", "rejected"})]
         /\ \A d \in Components : overrides'[d] # <<>> => d \in facts'
         /\ exempt' \subseteq Components
<1> DEFINE States == {"requested", "applied", "rejected"}
<1>1. /\ facts \subseteq Components /\ exempt \subseteq Components
      /\ overrides \in [Components -> Seq(States)]
      /\ \A d \in Components : overrides[d] # <<>> => d \in facts
  BY DEF TypeOK
<1>2. CASE Acknowledge(c)
  BY <1>1, <1>2 DEF Acknowledge
<1>3. CASE RequestOverride(c)
  <2>1. Append(overrides[c], "requested") \in Seq(States)
    BY <1>1
  <2>2. QED
    BY <1>1, <1>3, <2>1 DEF RequestOverride, MayOverride, Booked
<1>4. ASSUME NEW verdict \in {"applied", "rejected"}, ResolveOverride(c, verdict)
      PROVE  /\ facts' \subseteq Components /\ exempt' \subseteq Components
             /\ overrides' \in [Components -> Seq(States)]
             /\ \A d \in Components : overrides'[d] # <<>> => d \in facts'
  <2>1. [i \in 1..Len(overrides[c]) |-> verdict] \in Seq(States)
    BY <1>1
  <2>2. overrides' = [overrides EXCEPT ![c] = [i \in 1..Len(overrides[c]) |-> verdict]]
        /\ overrides[c] # <<>>
    BY <1>4 DEF ResolveOverride
  <2>3. QED
    BY <1>1, <1>4, <2>1, <2>2 DEF ResolveOverride
<1>5. QED
  BY <1>2, <1>3, <1>4 DEF LedgerStep

LEMMA ReplanTypeStep ==
  ASSUME TypeOK, ReplanStep
  PROVE  replan' \in ReplanType
<1>1. CASE replan' = NoReplan
  BY <1>1 DEF NoReplan, ReplanType
<1>2. ASSUME NEW kind \in {"event", "modify"}, NEW c \in setup.components, Begin(kind, c)
      PROVE  replan' \in ReplanType
  BY <1>2, SetupTyped DEF Begin, Guarded, ReplanType, TypeOK
<1>3. QED
  BY <1>1, <1>2, ReplanFrame

HandoffsTyped ==
  /\ reprice \in [Reprices -> RepriceType]
  /\ issued \in Seq(HandoffType)
  /\ hand \in [Components -> 0..Len(issued)]
  /\ used \subseteq 1..Len(issued) /\ filed \subseteq used
  /\ opened \in Seq(OpenedType)

\* What was issued stays: a hand-off only loses its freshness, and a new one is the
\* last.
LEMMA IssuedStays ==
  ASSUME TypeOK, HandoffStep \/ Restart
  PROVE  /\ issued' \in Seq(HandoffType) /\ Len(issued') >= Len(issued)
         /\ \A g \in 1..Len(issued) : /\ issued'[g].component = issued[g].component
                                      /\ issued'[g].query = issued[g].query
<1> DEFINE Goal == /\ issued' \in Seq(HandoffType) /\ Len(issued') >= Len(issued)
                   /\ \A g \in 1..Len(issued) :
                        /\ issued'[g].component = issued[g].component
                        /\ issued'[g].query = issued[g].query
<1>1. /\ issued \in Seq(HandoffType) /\ hand \in [Components -> 0..Len(issued)]
      /\ reprice \in [Reprices -> RepriceType] /\ setup.components \subseteq Components
  BY SetupTyped DEF TypeOK, HandoffType, RepriceType
<1>2. CASE issued' = issued
  BY <1>1, <1>2
<1>3. ASSUME NEW p \in Reprices, RepriceIssues(p)
      PROVE  Goal
  <2> DEFINE h == [component |-> reprice[p].component, query |-> reprice[p].query,
                   fresh |-> TRUE]
  <2>1. h \in HandoffType /\ issued' = Append(issued, h)
    BY <1>1, <1>3 DEF RepriceIssues, RepriceDone, RepriceType, HandoffType
  <2>2. QED
    <3> HIDE DEF h
    <3>1. QED
      BY <1>1, <2>1
<1>4. ASSUME NEW c \in setup.components, HandoffExpires(c)
      PROVE  Goal
  <2> DEFINE k == hand[c]
             h == [issued[k] EXCEPT !.fresh = FALSE]
  <2>1. k \in 1..Len(issued) /\ issued[k] \in HandoffType
    BY <1>1, <1>4 DEF HandoffExpires
  <2>2. /\ h \in HandoffType
        /\ h.component = issued[k].component /\ h.query = issued[k].query
    BY <2>1 DEF HandoffType
  <2>3. issued' = [issued EXCEPT ![k] = h]
    BY <1>4 DEF HandoffExpires
  <2>4. QED
    <3> HIDE DEF k, h
    <3>1. QED
      BY <1>1, <2>1, <2>2, <2>3
<1>5. QED
  <2>1. ASSUME NEW p \in Reprices, NEW c \in setup.components, RepriceBegin(p, c)
        PROVE  issued' = issued
    BY <2>1 DEF RepriceBegin, handoffs
  <2>2. ASSUME NEW p \in Reprices, RepriceKeeps(p)
        PROVE  issued' = issued
    BY <2>2 DEF RepriceKeeps
  <2>3. ASSUME NEW c \in setup.components, Consume(c) \/ RecordExpires(c)
        PROVE  issued' = issued
    BY <2>3 DEF Consume, RecordExpires
  <2>4. Restart => issued' = issued
    BY DEF Restart
  <2>5. QED
    BY <1>2, <1>3, <1>4, <2>1, <2>2, <2>3, <2>4 DEF HandoffStep

LEMMA HandoffTypeStep ==
  ASSUME TypeOK, HandoffStep \/ Restart
  PROVE  HandoffsTyped'
<1>1. HandoffsTyped /\ run \in Runs /\ setup.components \subseteq Components
  BY SetupTyped DEF TypeOK, HandoffsTyped, RepriceType, HandoffType, OpenedType
<1>2. NoReprice \in RepriceType
  BY DEF RepriceType
<1>3. /\ issued' \in Seq(HandoffType) /\ Len(issued') >= Len(issued)
      /\ Len(issued) \in Nat /\ Len(issued') \in Nat
  <2>1. issued \in Seq(HandoffType)
    BY <1>1 DEF HandoffsTyped
  <2>2. QED
    BY <2>1, IssuedStays
<1>4. /\ 1..Len(issued) \subseteq 1..Len(issued') /\ 0..Len(issued) \subseteq 0..Len(issued')
      /\ OpenedType \subseteq OpenedType'
  BY <1>3 DEF OpenedType
<1>5. ASSUME opened \in Seq(OpenedType), opened' = opened
      PROVE  opened' \in Seq(OpenedType')
  <2>1. \A i \in 1..Len(opened) : opened[i] \in OpenedType'
    BY <1>4, <1>5
  <2>2. QED
    BY <1>5, <2>1
<1>6. ASSUME NEW p \in Reprices, NEW c \in setup.components, RepriceBegin(p, c)
      PROVE  HandoffsTyped'
  <2>1. [component |-> c, query |-> run.query] \in RepriceType
    BY <1>1 DEF RepriceType, Runs
  <2>2. QED
    BY <1>1, <1>6, <2>1 DEF RepriceBegin, HandoffsTyped, handoffs, marks, OpenedType
<1>7. ASSUME NEW p \in Reprices, RepriceIssues(p)
      PROVE  HandoffsTyped'
  <2>1. reprice[p].component \in Components
    BY <1>1, <1>7 DEF RepriceIssues, RepriceDone, RepriceType, HandoffsTyped
  <2>2. hand' = [hand EXCEPT ![reprice[p].component] = Len(issued')]
        /\ hand' \in [Components -> 0..Len(issued')]
    BY <1>1, <1>3, <1>4, <1>7, <2>1 DEF RepriceIssues, HandoffsTyped
  <2>3. /\ reprice' \in [Reprices -> RepriceType]
        /\ UNCHANGED <<used, filed, opened>>
    BY <1>1, <1>2, <1>7 DEF RepriceIssues, RepriceDone, HandoffsTyped, marks
  <2>4. QED
    BY <1>1, <1>3, <1>4, <1>5, <2>2, <2>3 DEF HandoffsTyped
<1>8. ASSUME NEW p \in Reprices, RepriceKeeps(p)
      PROVE  HandoffsTyped'
  BY <1>1, <1>2, <1>8 DEF RepriceKeeps, RepriceDone, HandoffsTyped, marks, OpenedType
<1>9. ASSUME NEW c \in setup.components, Consume(c)
      PROVE  HandoffsTyped'
  <2>1. hand[c] \in 1..Len(issued)
    BY <1>1, <1>9 DEF Consume, HandoffsTyped
  <2>2. /\ UNCHANGED <<reprice, issued, hand>> /\ used' = used \cup {hand[c]}
        /\ \/ /\ filed' = used'
              /\ opened' = Append(opened, [hand |-> hand[c], query |-> run.query])
           \/ UNCHANGED <<filed, opened>>
    BY <1>9 DEF Consume
  <2>3. [hand |-> hand[c], query |-> run.query] \in OpenedType
    BY <1>1, <2>1 DEF OpenedType, Runs
  <2>4. opened \in Seq(OpenedType)
    BY <1>1 DEF HandoffsTyped
  <2>5. opened' \in Seq(OpenedType)
    BY <2>2, <2>3, <2>4
  <2>6. OpenedType' = OpenedType
    BY <2>2 DEF OpenedType
  <2>7. QED
    BY <1>1, <2>1, <2>2, <2>5, <2>6 DEF HandoffsTyped
<1>10. ASSUME NEW c \in setup.components, HandoffExpires(c)
       PROVE  HandoffsTyped'
  <2>1. UNCHANGED <<reprice, hand, used, filed, opened>>
    BY <1>10 DEF HandoffExpires, marks
  <2>2. \A d \in Components : hand'[d] \in 0..Len(issued')
    BY <1>1, <1>4, <2>1 DEF HandoffsTyped
  <2>3. QED
    BY <1>1, <1>3, <1>4, <1>5, <2>1, <2>2 DEF HandoffsTyped
<1>11. ASSUME NEW c \in setup.components, RecordExpires(c)
       PROVE  HandoffsTyped'
  BY <1>1, <1>11 DEF RecordExpires, HandoffsTyped, marks, OpenedType
<1>12. CASE Restart
  BY <1>1, <1>2, <1>12 DEF Restart, HandoffsTyped, OpenedType
<1>13. QED
  BY <1>6, <1>7, <1>8, <1>9, <1>10, <1>11, <1>12 DEF HandoffStep

-------------------------------------------------------------------------------
(* The overrides.                                                            *)

\* A request is appended, or all requests of a component get the same verdict, and
\* no protection that was lifted is put back.
LEMMA OverrideStep ==
  ASSUME TypeOK, OverridesAgree, NEW c \in Components, LedgerStep(c)
  PROVE  OverridesAgree' /\ \A d \in Components : Overridden(d) => Overridden(d)'
<1> DEFINE States == {"requested", "applied", "rejected"}
<1>1. overrides \in [Components -> Seq(States)]
  BY DEF TypeOK
<1>2. CASE Acknowledge(c)
  BY <1>2 DEF Acknowledge, OverridesAgree, Overridden
<1>3. CASE RequestOverride(c)
  <2> DEFINE old == overrides[c]
             new == Append(old, "requested")
  <2>1. overrides' = [overrides EXCEPT ![c] = new] /\ old \in Seq(States)
    BY <1>1, <1>3 DEF RequestOverride
  <2>2. /\ overrides'[c] = new
        /\ \A d \in Components \ {c} : overrides'[d] = overrides[d]
    BY <1>1, <2>1
  <2>3. /\ Len(new) = Len(old) + 1 /\ Len(old) \in Nat /\ new[Len(new)] = "requested"
        /\ \A i \in 1..Len(old) : new[i] = old[i]
    BY <2>1
  <2>4. ASSUME new # <<>>, Head(new) = "requested"
        PROVE  \A i \in 1..Len(new) : new[i] = "requested"
    <3>1. CASE old = <<>>
      BY <2>3, <3>1
    <3>2. CASE old # <<>>
      <4>1. Head(new) = Head(old)
        BY <2>1, <3>2
      <4>2. \A i \in 1..Len(old) : old[i] = "requested"
        BY <2>4, <3>2, <4>1 DEF OverridesAgree
      <4>3. QED
        BY <2>3, <4>2
    <3>3. QED
      BY <3>1, <3>2
  <2>5. OverridesAgree'
    BY <2>2, <2>4 DEF OverridesAgree
  <2>6. Overridden(c) => Overridden(c)'
    BY <2>2, <2>3 DEF Overridden
  <2>7. \A d \in Components \ {c} : Overridden(d) => Overridden(d)'
    BY <2>2 DEF Overridden
  <2>8. QED
    BY <2>5, <2>6, <2>7
<1>4. ASSUME NEW verdict \in {"applied", "rejected"}, ResolveOverride(c, verdict)
      PROVE  OverridesAgree' /\ \A d \in Components : Overridden(d) => Overridden(d)'
  <2> DEFINE old == overrides[c]
             new == [i \in 1..Len(old) |-> verdict]
  <2>1. /\ overrides' = [overrides EXCEPT ![c] = new] /\ old \in Seq(States)
        /\ old # <<>> /\ Head(old) = "requested"
    BY <1>1, <1>4 DEF ResolveOverride
  <2>2. /\ overrides'[c] = new
        /\ \A d \in Components \ {c} : overrides'[d] = overrides[d]
    BY <1>1, <2>1
  <2>3. Head(new) = verdict
    BY <2>1
  <2>4. ~Overridden(c)
    BY <2>1 DEF OverridesAgree, Overridden
  <2>5. OverridesAgree'
    BY <2>2, <2>3 DEF OverridesAgree
  <2>6. \A d \in Components \ {c} : Overridden(d) => Overridden(d)'
    BY <2>2 DEF Overridden
  <2>7. QED
    BY <2>4, <2>5, <2>6
<1>5. QED
  BY <1>2, <1>3, <1>4 DEF LedgerStep

-------------------------------------------------------------------------------
(* The plan.                                                                 *)

\* What a booking of the ledger's endpoints may disturb.
LEMMA LedgerKeeps ==
  ASSUME PlanInv, NEW c \in Components, LedgerStep(c)
  PROVE  GuardedCovers' /\ Keeps(run)' /\ Keeps(disk)'
<1>1. /\ \A d \in Components : Overridden(d) => Overridden(d)'
      /\ facts \subseteq Components
      /\ UNCHANGED <<run, disk, replan>>
  BY OverrideStep, LedgerFrame DEF PlanInv, TypeOK
<1>2. /\ exempt \subseteq exempt'
      /\ \/ facts' = facts
         \/ /\ facts' = facts \cup {c}
            /\ c \in exempt' \/ (c \in run.plan \cap disk.plan /\ replan = NoReplan)
  BY DEF LedgerStep, Acknowledge, RequestOverride, ResolveOverride
<1>3. \A d \in facts : Counts(d)' => Counts(d)
  BY <1>1, <1>2 DEF Counts
<1>4. GuardedCovers'
  BY <1>1, <1>2, <1>3 DEF PlanInv, GuardedCovers, Counts
<1>5. Keeps(run)'
  BY <1>1, <1>2 DEF PlanInv, Keeps
<1>6. Keeps(disk)'
  BY <1>1, <1>2 DEF PlanInv, Keeps
<1>7. QED
  BY <1>4, <1>5, <1>6

\* What a re-plan read is enough to tell whether a plan keeps what is booked.
LEMMA GuardedKept ==
  ASSUME PlanInv, replan # NoReplan, NEW r \in Runs,
         r.decision = "accept" => \A c \in replan.guarded : c \in r.plan
  PROVE  Keeps(r)
BY DEF PlanInv, GuardedCovers, Keeps, Counts

\* A re-plan ends with a run that is accepted only with what was booked, or it
\* leaves both runs as they are.
LEMMA ReplanEnds ==
  ASSUME PlanInv, ReplanStep
  PROVE  UNCHANGED <<run, disk>> \/ \E new \in Runs : End(new) /\ Keeps(new)
<1>1. /\ run \in Runs /\ facts \subseteq Components
      /\ setup.components \subseteq Components /\ setup.queries \subseteq Queries
  BY SetupTyped DEF PlanInv, TypeOK
<1>2. replan.kind # "none" => replan # NoReplan
  BY DEF NoReplan
<1>3. ASSUME NEW c \in setup.components
      PROVE  Repaired(c) \in SUBSET Components
  BY <1>1, <1>3 DEF Repaired, Runs
<1>4. CASE EventBlocks
  <2> DEFINE new == [run EXCEPT !.decision = "block"]
  <2>1. new \in Runs /\ new.decision = "block" /\ End(new)
    BY <1>1, <1>4 DEF Runs, EventBlocks
  <2>2. Keeps(new)
    BY <2>1 DEF Keeps
  <2>3. QED
    BY <2>1, <2>2
<1>5. ASSUME NEW c \in setup.components, NEW verified \in BOOLEAN, EventRepairs(c, verified)
      PROVE  \E new \in Runs : End(new) /\ Keeps(new)
  <2> DEFINE after == Repaired(c)
             good  == /\ verified
                      /\ Reverified(replan.guarded, run.plan, after)
                      /\ GateAllows(replan.guarded, run.plan, after)
             new   == [run EXCEPT !.plan = after, !.decision = Verdict(good)]
  <2>1. End(new) /\ replan # NoReplan
    BY <1>2, <1>5 DEF EventRepairs
  <2>2. Verdict(good) \in {"accept", "block"} /\ (Verdict(good) = "accept" => good)
    BY DEF Verdict
  <2>3. new \in Runs /\ new.plan = after /\ new.decision = Verdict(good)
    BY <1>1, <1>3, <2>2 DEF Runs
  <2>4. good => \A d \in replan.guarded : d \in after
    BY DEF Reverified
  <2>5. Keeps(new)
    <3> HIDE DEF new, good
    <3>1. new.decision = "accept" => \A d \in replan.guarded : d \in new.plan
      BY <2>2, <2>3, <2>4
    <3>2. QED
      BY <2>1, <2>3, <3>1, GuardedKept
  <2>6. QED
    BY <2>1, <2>3, <2>5
<1>6. ASSUME NEW c \in setup.components, ModifyLodging(c)
      PROVE  \E new \in Runs : End(new) /\ Keeps(new)
  <2> DEFINE new == [run EXCEPT !.plan = Repaired(c), !.decision = "accept"]
  <2>1. /\ End(new) /\ replan # NoReplan
        /\ \A d \in replan.guarded : d \in Repaired(c)
    BY <1>2, <1>6 DEF ModifyLodging, Reverified
  <2>2. new \in Runs /\ new.plan = Repaired(c)
    BY <1>1, <1>3 DEF Runs
  <2>3. Keeps(new)
    <3> HIDE DEF new
    <3>1. QED
      BY <2>1, <2>2, GuardedKept
  <2>4. QED
    BY <2>1, <2>2, <2>3
<1>7. ASSUME NEW r \in Runs, r.dropped = facts \ r.plan
      PROVE  Keeps(r)
  BY <1>7 DEF Keeps
<1>8. ASSUME NEW after \in SUBSET setup.components, NEW decision \in {"accept", "block"},
             EventReplans(after, decision)
      PROVE  \E new \in Runs : End(new) /\ Keeps(new)
  <2> DEFINE new == [run EXCEPT !.plan = after, !.decision = decision,
                                !.dropped = facts \ after]
  <2>1. new \in Runs /\ new.dropped = facts \ new.plan /\ End(new)
    BY <1>1, <1>8 DEF Runs, EventReplans
  <2>2. Keeps(new)
    BY <1>7, <2>1
  <2>3. QED
    BY <2>1, <2>2
<1>9. ASSUME NEW query \in setup.queries, NEW after \in SUBSET setup.components,
             ModifyDates(query, after)
      PROVE  \E new \in Runs : End(new) /\ Keeps(new)
  <2> DEFINE new == [plan |-> after, decision |-> "accept", query |-> query,
                     dropped |-> facts \ after]
  <2>1. new \in Runs /\ new.dropped = facts \ new.plan /\ End(new)
    BY <1>1, <1>9 DEF Runs, ModifyDates
  <2>2. Keeps(new)
    BY <1>7, <2>1
  <2>3. QED
    BY <2>1, <2>2
<1>10. ASSUME EndWithout \/ \E kind \in {"event", "modify"}, c \in setup.components : Begin(kind, c)
       PROVE  UNCHANGED <<run, disk>>
  BY <1>10 DEF EndWithout, Begin
<1>11. QED
  BY <1>4, <1>5, <1>6, <1>8, <1>9, <1>10 DEF ReplanStep

\* Whatever a re-plan makes of the plan, the run of the cache and the run on disk
\* are accepted only with what was booked.
LEMMA ReplanKeeps ==
  ASSUME PlanInv, ReplanStep
  PROVE  /\ run' \in Runs /\ disk' \in Runs
         /\ GuardedCovers' /\ Keeps(run)' /\ Keeps(disk)'
<1>1. /\ UNCHANGED <<facts, overrides, exempt>>
      /\ run \in Runs /\ disk \in Runs /\ Keeps(run) /\ Keeps(disk)
      /\ GuardedCovers
  BY ReplanFrame DEF PlanInv, TypeOK
<1>2. \A c : Overridden(c)' <=> Overridden(c)
  BY <1>1 DEF Overridden
<1>3. PICK r \in Runs, d \in Runs : run' = r /\ disk' = d /\ Keeps(r) /\ Keeps(d)
  <2>1. CASE UNCHANGED <<run, disk>>
    BY <1>1, <2>1
  <2>2. ASSUME NEW new \in Runs, End(new), Keeps(new)
        PROVE  \E r \in Runs, d \in Runs : run' = r /\ disk' = d /\ Keeps(r) /\ Keeps(d)
    BY <1>1, <2>2 DEF End
  <2>3. QED
    BY <2>1, <2>2, ReplanEnds
<1>4. Keeps(run)' /\ Keeps(disk)'
  BY <1>1, <1>2, <1>3 DEF Keeps
<1>5. GuardedCovers'
  <2>1. CASE replan' = NoReplan
    BY <2>1 DEF GuardedCovers
  <2>2. ASSUME NEW kind \in {"event", "modify"}, NEW c \in setup.components, Begin(kind, c)
        PROVE  GuardedCovers'
    <3>1. replan'.guarded = Guarded
      BY <2>2 DEF Begin
    <3>2. QED
      BY <1>1, <1>2, <3>1 DEF GuardedCovers, Guarded, Counts
  <2>3. QED
    BY <2>1, <2>2, ReplanFrame
<1>6. QED
  BY <1>3, <1>4, <1>5

LEMMA TypeStep ==
  ASSUME PlanInv, [Next]_vars
  PROVE  TypeOK'
<1>1. TypeOK /\ setup.components \subseteq Components
  BY SetupTyped DEF PlanInv
<1>2. ASSUME NEW c \in Components, LedgerStep(c)
      PROVE  TypeOK'
  BY <1>1, <1>2, LedgerFrame, LedgerTypeStep DEF TypeOK
<1>3. CASE ReplanStep
  <2>1. /\ run' \in Runs /\ disk' \in Runs /\ replan' \in ReplanType
        /\ UNCHANGED <<facts, overrides, exempt, reprice, issued, hand, used, filed,
                       opened, setup>>
    BY <1>1, <1>3, ReplanKeeps, ReplanTypeStep, ReplanFrame
  <2>2. QED
    BY <1>1, <2>1 DEF TypeOK, ReplanType
<1>4. CASE HandoffStep
  BY <1>1, <1>4, HandoffTypeStep, HandoffFrame
  DEF TypeOK, HandoffsTyped, RepriceType, HandoffType, OpenedType
<1>5. CASE Restart
  <2>1. HandoffsTyped'
    BY <1>1, <1>5, HandoffTypeStep
  <2>2. /\ run' = disk /\ disk' = disk /\ replan' = NoReplan
        /\ UNCHANGED <<facts, overrides, exempt, setup>>
    BY <1>5 DEF Restart, ledger
  <2>3. replan' \in ReplanType
    BY <2>2 DEF NoReplan, ReplanType
  <2>4. QED
    BY <1>1, <2>1, <2>2, <2>3
    DEF TypeOK, HandoffsTyped, RepriceType, HandoffType, OpenedType, ReplanType
<1>6. CASE Rewrite
  BY <1>1, <1>6 DEF Rewrite, TypeOK, ledger, handoffs, marks
<1>7. CASE UNCHANGED vars
  BY <1>1, <1>7 DEF TypeOK, vars, ledger, handoffs, marks
<1>8. QED
  BY <1>1, <1>2, <1>3, <1>4, <1>5, <1>6, <1>7 DEF Next

LEMMA PlanStep ==
  ASSUME PlanInv, [Next]_vars
  PROVE  PlanInv'
<1>1. TypeOK' /\ setup.components \subseteq Components
  BY TypeStep, SetupTyped DEF PlanInv
<1>2. ASSUME NEW c \in Components, LedgerStep(c)
      PROVE  PlanInv'
  BY <1>1, <1>2, OverrideStep, LedgerKeeps DEF PlanInv
<1>3. CASE ReplanStep
  <2>1. OverridesAgree'
    BY <1>3, ReplanFrame DEF PlanInv, OverridesAgree
  <2>2. QED
    BY <1>1, <1>3, <2>1, ReplanKeeps DEF PlanInv
<1>4. CASE HandoffStep \/ Restart \/ Rewrite \/ UNCHANGED vars
  <2>1. /\ UNCHANGED <<facts, overrides, exempt>>
        /\ replan' = replan \/ replan' = NoReplan
        /\ run' \in {run, disk} /\ disk' \in {run, disk}
    BY <1>4, HandoffFrame DEF Restart, Rewrite, vars, ledger
  <2>2. \A c : Overridden(c)' <=> Overridden(c)
    BY <2>1 DEF Overridden
  <2>3. Keeps(run)' /\ Keeps(disk)'
    BY <2>1, <2>2 DEF PlanInv, Keeps
  <2>4. OverridesAgree'
    BY <2>1 DEF PlanInv, OverridesAgree
  <2>5. GuardedCovers'
    BY <2>1, <2>2 DEF PlanInv, GuardedCovers, Counts
  <2>6. QED
    BY <1>1, <2>3, <2>4, <2>5 DEF PlanInv
<1>5. QED
  BY <1>1, <1>2, <1>3, <1>4 DEF Next

LEMMA PlanInit ==
  ASSUME Init
  PROVE  PlanInv
<1>1. /\ setup.components \subseteq Components /\ setup.queries \subseteq Queries
      /\ setup \in Setups
  BY BookedAssumption DEF Init
<1>2. run \in Runs /\ disk \in Runs
  BY <1>1 DEF Init, Runs
<1>3. TypeOK
  BY <1>1, <1>2 DEF Init, TypeOK, NoReplan
<1>4. OverridesAgree /\ GuardedCovers /\ Keeps(run) /\ Keeps(disk)
  BY DEF Init, OverridesAgree, GuardedCovers, Keeps
<1>5. QED
  BY <1>3, <1>4 DEF PlanInv

LEMMA PlanAlways == Spec => []PlanInv
BY PlanInit, PlanStep, PTL DEF Spec

-------------------------------------------------------------------------------
(* The hand-offs.                                                            *)

\* What all steps but the last three leave alone.
LEMMA OtherStep ==
  ASSUME [Next]_vars
  PROVE  \/ UNCHANGED <<issued, hand, filed, opened>>
         \/ \E p \in Reprices : RepriceIssues(p)
         \/ \E c \in setup.components :
              Consume(c) \/ HandoffExpires(c) \/ RecordExpires(c)
         \/ Restart
<1>1. ASSUME NEW c \in setup.components, LedgerStep(c)
      PROVE  UNCHANGED <<issued, hand, filed, opened>>
  BY <1>1 DEF LedgerStep, Acknowledge, RequestOverride, ResolveOverride, handoffs, marks
<1>2. ASSUME NEW p \in Reprices, RepriceKeeps(p)
      PROVE  UNCHANGED <<issued, hand, filed, opened>>
  BY <1>2 DEF RepriceKeeps, RepriceDone, marks
<1>3. ASSUME NEW p \in Reprices, NEW c \in setup.components, RepriceBegin(p, c)
      PROVE  UNCHANGED <<issued, hand, filed, opened>>
  BY <1>3 DEF RepriceBegin, handoffs, marks
<1>4. CASE ReplanStep \/ Rewrite \/ UNCHANGED vars
  BY <1>4, ReplanFrame DEF Rewrite, vars, handoffs, marks
<1>5. QED
  BY <1>1, <1>2, <1>3, <1>4 DEF Next, HandoffStep

\* What a step that opens nothing does to what has opened.
LEMMA OpenedStays ==
  ASSUME TypeOK, HandInv, HandoffStep \/ Restart, UNCHANGED <<filed, opened>>
  PROVE  OpenedIsFiled' /\ InOrder'
<1>1. opened \in Seq(OpenedType)
  BY DEF TypeOK, OpenedType
<1>2. \A i \in 1..Len(opened) :
        /\ opened[i].hand \in 1..Len(issued)
        /\ issued'[opened[i].hand].component = issued[opened[i].hand].component
        /\ issued'[opened[i].hand].query = issued[opened[i].hand].query
  <2>1. ASSUME NEW i \in 1..Len(opened)
        PROVE  opened[i].hand \in 1..Len(issued)
    <3>1. opened[i] \in OpenedType
      BY <1>1, <2>1
    <3>2. QED
      BY <3>1 DEF OpenedType
  <2>2. QED
    BY <2>1, IssuedStays
<1>3. OpenedIsFiled'
  BY <1>2 DEF HandInv, OpenedIsFiled
<1>4. InOrder'
  BY <1>2 DEF HandInv, InOrder
<1>5. QED
  BY <1>3, <1>4

\* A hand-off that opens its page is on record, so it is the last one, and it was not
\* used, so it is not one that has opened before.
LEMMA ConsumeKeeps ==
  ASSUME TypeOK, HandInv, NEW c \in Components, Consume(c)
  PROVE  HandInv'
<1> DEFINE h == hand[c]
           o == [hand |-> h, query |-> run.query]
<1>1. /\ opened \in Seq(OpenedType) /\ filed \subseteq used
      /\ hand \in [Components -> 0..Len(issued)] /\ issued \in Seq(HandoffType)
  BY DEF TypeOK, OpenedType, HandoffType
<1>2. /\ h \in 1..Len(issued) /\ h \notin used /\ issued[h].query = run.query
      /\ used' = used \cup {h} /\ UNCHANGED <<issued, hand>>
      /\ \/ filed' = used' /\ opened' = Append(opened, o)
         \/ UNCHANGED <<filed, opened>>
  BY <1>1 DEF Consume, BoundToRun, Usable
<1>3. HandIsLatest'
  BY <1>2 DEF HandInv, HandIsLatest
<1>4. CASE UNCHANGED <<filed, opened>>
  <2>1. OpenedIsFiled' /\ InOrder'
    BY <1>2, <1>4 DEF HandInv, OpenedIsFiled, InOrder
  <2>2. QED
    BY <1>3, <2>1 DEF HandInv
<1>5. CASE filed' = used' /\ opened' = Append(opened, o)
  <2> DEFINE n == Len(opened)
  <2>0. n \in Nat /\ o.hand = h /\ o.query = run.query
    BY <1>1
  <2>1. /\ Len(opened') = n + 1 /\ opened'[n + 1] = o
        /\ \A i \in 1..n : opened'[i] = opened[i]
    <3> HIDE DEF o
    <3>1. QED
      BY <1>1, <1>5
  <2>2. ASSUME NEW i \in 1..n
        PROVE  opened[i].hand \in 1..Len(issued) /\ opened[i].hand # h
    <3>1. opened[i] \in OpenedType
      BY <1>1
    <3>2. opened[i].hand \in filed
      BY DEF HandInv, OpenedIsFiled
    <3>3. QED
      BY <1>1, <1>2, <3>1, <3>2 DEF OpenedType
  <2>3. \A g \in 1..Len(issued) : issued[g].component = issued[h].component => g <= h
    BY <1>2 DEF HandInv, HandIsLatest
  <2>4. \A i \in 1..n : issued[opened[i].hand].component = issued[h].component =>
          opened[i].hand < h
    <3>1. Len(issued) \in Nat
      BY <1>1
    <3>2. QED
      BY <1>2, <2>2, <2>3, <3>1
  <2> HIDE DEF n, o, h
  <2>5. \A i \in 1..Len(opened') : i \in 1..n \/ i = n + 1
    BY <2>0, <2>1
  <2>6. OpenedIsFiled'
    <3>1. \A i \in 1..n : opened'[i].hand \in filed'
                          /\ issued'[opened'[i].hand].query = opened'[i].query
      BY <1>1, <1>2, <1>5, <2>1 DEF HandInv, OpenedIsFiled, n
    <3>2. opened'[n + 1].hand \in filed'
          /\ issued'[opened'[n + 1].hand].query = opened'[n + 1].query
      BY <1>2, <1>5, <2>0, <2>1
    <3>3. QED
      BY <2>5, <3>1, <3>2 DEF OpenedIsFiled
  <2>7. InOrder'
    <3> SUFFICES ASSUME NEW i \in 1..Len(opened'), NEW j \in 1..Len(opened'), i < j,
                        issued'[opened'[i].hand].component
                          = issued'[opened'[j].hand].component
                 PROVE  opened'[i].hand < opened'[j].hand
      BY DEF InOrder
    <3>1. i \in 1..n
      BY <2>0, <2>1
    <3>2. CASE j \in 1..n
      <4>1. i \in 1..Len(opened) /\ j \in 1..Len(opened)
        BY <3>1, <3>2 DEF n
      <4>2. issued[opened[i].hand].component = issued[opened[j].hand].component
        BY <1>2, <2>1, <3>1, <3>2
      <4>3. opened[i].hand < opened[j].hand
        BY <4>1, <4>2 DEF HandInv, InOrder
      <4>4. QED
        BY <2>1, <3>1, <3>2, <4>3
    <3>3. CASE j = n + 1
      <4>1. issued[opened[i].hand].component = issued[h].component
        BY <1>2, <2>0, <2>1, <3>1, <3>3
      <4>2. QED
        BY <2>0, <2>1, <2>4, <3>1, <3>3, <4>1
    <3>4. QED
      BY <2>5, <3>2, <3>3
  <2>8. QED
    BY <1>3, <2>6, <2>7 DEF HandInv
<1>6. QED
  BY <1>2, <1>4, <1>5

\* A re-price that issues a hand-off puts it on record as the last one.
LEMMA IssueKeeps ==
  ASSUME TypeOK, HandInv, NEW p \in Reprices, RepriceIssues(p)
  PROVE  HandInv'
<1> DEFINE c == reprice[p].component
           h == [component |-> c, query |-> reprice[p].query, fresh |-> TRUE]
           n == Len(issued)
<1>1. /\ issued \in Seq(HandoffType) /\ hand \in [Components -> 0..n] /\ n \in Nat
      /\ c \in Components /\ h.component = c
  BY DEF TypeOK, RepriceIssues, RepriceDone, HandoffType
<1>2. /\ issued' = Append(issued, h) /\ hand' = [hand EXCEPT ![c] = Len(issued')]
      /\ UNCHANGED <<filed, opened>>
  BY DEF RepriceIssues, RepriceDone, marks
<1>3. /\ Len(issued') = n + 1 /\ issued'[n + 1] = h
      /\ \A g \in 1..n : issued'[g] = issued[g]
  <2> HIDE DEF h
  <2>1. QED
    BY <1>1, <1>2
<1>4. OpenedIsFiled' /\ InOrder'
  BY <1>2, OpenedStays DEF HandoffStep
<1> HIDE DEF c, h, n
<1>5. HandIsLatest'
  <2> SUFFICES ASSUME NEW d \in Components, hand'[d] # 0
               PROVE  /\ issued'[hand'[d]].component = d
                      /\ \A g \in 1..Len(issued') : issued'[g].component = d => g <= hand'[d]
    BY DEF HandIsLatest
  <2>1. CASE d = c
    BY <1>1, <1>2, <1>3, <2>1
  <2>2. CASE d # c
    <3>1. hand'[d] = hand[d] /\ hand[d] \in 1..n
      BY <1>1, <1>2, <2>2
    <3>2. issued[hand[d]].component = d /\ \A g \in 1..n : issued[g].component = d => g <= hand[d]
      BY <3>1 DEF HandInv, HandIsLatest, n
    <3>3. QED
      BY <1>1, <1>3, <2>2, <3>1, <3>2
  <2>3. QED
    BY <2>1, <2>2
<1>6. QED
  BY <1>4, <1>5 DEF HandInv

LEMMA HandStep ==
  ASSUME TypeOK, HandInv, [Next]_vars
  PROVE  HandInv'
<1>1. CASE UNCHANGED <<issued, hand, filed, opened>>
  BY <1>1 DEF HandInv, HandIsLatest, OpenedIsFiled, InOrder
<1>2. ASSUME NEW p \in Reprices, RepriceIssues(p)
      PROVE  HandInv'
  BY <1>2, IssueKeeps
<1>3. ASSUME NEW c \in setup.components, Consume(c)
      PROVE  HandInv'
  BY <1>3, ConsumeKeeps, SetupTyped
<1>4. ASSUME NEW c \in setup.components, HandoffExpires(c)
      PROVE  HandInv'
  <2>1. UNCHANGED <<hand, filed, opened>> /\ Len(issued') = Len(issued)
    BY <1>4 DEF HandoffExpires, marks, TypeOK
  <2>2. /\ hand \in [Components -> 0..Len(issued)]
        /\ \A g \in 1..Len(issued) : issued'[g].component = issued[g].component
    BY <1>4, IssuedStays DEF TypeOK, HandoffStep
  <2>3. HandIsLatest'
    BY <2>1, <2>2 DEF HandInv, HandIsLatest
  <2>4. OpenedIsFiled' /\ InOrder'
    BY <1>4, <2>1, OpenedStays DEF HandoffStep
  <2>5. QED
    BY <2>3, <2>4 DEF HandInv
<1>5. ASSUME NEW c \in setup.components, RecordExpires(c)
      PROVE  HandInv'
  <2>1. UNCHANGED <<issued, filed, opened>> /\ hand' = [hand EXCEPT ![c] = 0]
        /\ hand \in [Components -> 0..Len(issued)]
    BY <1>5 DEF RecordExpires, marks, TypeOK
  <2>2. HandIsLatest'
    BY <2>1 DEF HandInv, HandIsLatest
  <2>3. QED
    BY <2>1, <2>2 DEF HandInv, OpenedIsFiled, InOrder
<1>6. CASE Restart
  <2>1. UNCHANGED <<issued, filed, opened>> /\ hand' = [d \in Components |-> 0]
    BY <1>6 DEF Restart
  <2>2. QED
    BY <2>1 DEF HandInv, HandIsLatest, OpenedIsFiled, InOrder
<1>7. QED
  BY <1>1, <1>2, <1>3, <1>4, <1>5, <1>6, OtherStep

LEMMA HandAlways == Spec => [](TypeOK /\ HandInv)
<1>1. Init => HandInv
  BY DEF Init, HandInv, HandIsLatest, OpenedIsFiled, InOrder
<1>2. PlanInv => TypeOK
  BY DEF PlanInv
<1>3. QED
  BY <1>1, <1>2, PlanAlways, HandStep, PTL DEF Spec

-------------------------------------------------------------------------------
(* The theorems.                                                             *)

\* The endpoints keep every field of the run, the ledger and the hand-offs in its
\* range: in particular only a booked component has override requests
\* (request_override), and every hand-off on record was issued.
THEOREM PlanTyped == Spec => []TypeOK
<1>1. PlanInv => TypeOK
  BY DEF PlanInv
<1>2. QED
  BY <1>1, PlanAlways, PTL

\* However many re-plans, blocked or not, follow a booking, no plan is accepted without
\* the component (_protected_components_preserved looks for it in the plan itself), and
\* no restart brings back one that was, whichever writes of the snapshot failed.
THEOREM BookedStaysInAccepted == Spec => []AcceptedKeepsBooked
<1>1. PlanInv => AcceptedKeepsBooked
  BY DEF PlanInv, Keeps, AcceptedKeepsBooked
<1>2. QED
  BY <1>1, PlanAlways, PTL

\* consume_handoff_endpoint opens the pages of a component in the order in which their
\* hand-offs were issued, each at most once and for the dates it was priced for, over
\* late re-prices, records that expire, writes that fail and restarts.
THEOREM OpensOnceAndBound == Spec => []OpensForward
<1>1. TypeOK /\ HandInv => OpensForward
  BY DEF TypeOK, HandInv, OpenedIsFiled, InOrder, OpensForward
<1>2. QED
  BY <1>1, HandAlways, PTL
===============================================================================
