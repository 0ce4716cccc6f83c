------------------------------- MODULE BookedPlan -------------------------------
(***************************************************************************)
(* The published plan of one run, the components of it that the user has   *)
(* booked, the re-plans that may not touch those, and the official pages   *)
(* that a fresh price opens.                                               *)
(* Source: platform/wiring_api.py, booking_gate.py, handoff.py, reprice.py, *)
(* persistence/booking_ledger.py and handoff_store.py, event re-planning   *)
(* and modification in agents/live_system.py, and their endpoints.         *)
(*                                                                         *)
(* A plan is the set of its components.  An endpoint of the ledger reads,  *)
(* changes and replaces the file without an await, so it is a step; a      *)
(* re-plan and a re-price read first, await for minutes and write then.    *)
(* The cache writes its runs to a snapshot, and a write that fails after   *)
(* the rename leaves on disk what the cache takes back.                    *)
(***************************************************************************)
EXTENDS Naturals, Sequences, FiniteSets

CONSTANTS
  Components,  \* component ids: one that is re-quoted has a new id
  Queries,     \* dates, travellers and rooms that a run is priced for
  Reprices,    \* requests that re-price a component
  Nothing,     \* no component, no query
  Setups       \* bounds: the components and queries there are, and how much is
               \* booked, overridden, re-priced at once, handed off

ASSUME BookedAssumption ==
  /\ Nothing \notin Components \cup Queries
  /\ Setups \subseteq [components : SUBSET Components, queries : SUBSET Queries,
                       bookings : Nat, overrides : Nat, reprices : Nat, handoffs : Nat]

VARIABLES
  run,        \* the run in the cache, with a history: the bookings that the
              \* search of everything it comes from has dropped
  disk,       \* the run in the cache's snapshot
  replan,     \* the request that holds the run's lock, and what it has read
  facts,      \* the components with a booking fact
  overrides,  \* component -> the states of its override requests, in order
  exempt,     \* history: bookings that no plan has to hold, see Acknowledge
  reprice,    \* request -> the component and the query it prices
  issued,     \* the hand-offs issued, by number
  hand,       \* component -> the hand-off on record for it, 0 if there is none
  used,       \* the hand-offs marked as used
  filed,      \* those of them in handoffs.json
  opened,     \* history: the hand-offs that opened a page, and for which query
  setup       \* the bounds of this behaviour

ledger   == <<facts, overrides, exempt>>
marks    == <<used, filed, opened>>
handoffs == <<issued, hand, marks>>
vars     == <<run, disk, replan, ledger, reprice, handoffs, setup>>

NoReplan  == [kind |-> "none", target |-> Nothing, guarded |-> {}]
NoReprice == [component |-> Nothing, query |-> Nothing]

Runs == [plan : SUBSET Components, decision : {"accept", "block"}, query : Queries,
         dropped : SUBSET Components]

TypeOK ==
  /\ run \in Runs /\ disk \in Runs
  /\ replan \in [kind : {"none", "event", "modify"},
                 target : Components \cup {Nothing}, guarded : SUBSET Components]
  /\ facts \subseteq Components
  /\ overrides \in [Components -> Seq({"requested", "applied", "rejected"})]
  /\ \A c \in Components : overrides[c] # <<>> => c \in facts
  /\ exempt \subseteq Components
  /\ reprice \in [Reprices -> [component : Components, query : Queries] \cup {NoReprice}]
  /\ issued \in Seq([component : Components, query : Queries, fresh : BOOLEAN])
  /\ hand \in [Components -> 0..Len(issued)]
  /\ used \subseteq 1..Len(issued) /\ filed \subseteq used
  /\ opened \in Seq([hand : 1..Len(issued), query : Queries])
  /\ setup \in Setups

\* A published run, with or without the gate's consent, and nothing booked yet.
Init ==
  /\ setup \in Setups
  /\ run \in [plan : SUBSET setup.components, decision : {"accept", "block"},
              query : setup.queries, dropped : {{}}]
  /\ run.plan = {} => run.decision = "block"
  /\ disk = run
  /\ replan = NoReplan
  /\ facts = {} /\ overrides = [c \in Components |-> <<>>] /\ exempt = {}
  /\ reprice = [p \in Reprices |-> NoReprice]
  /\ issued = <<>> /\ hand = [c \in Components |-> 0]
  /\ used = {} /\ filed = {} /\ opened = <<>>
-------------------------------------------------------------------------------
Booked(c)     == c \in facts
Overridden(c) == \E i \in 1..Len(overrides[c]) : overrides[c][i] = "applied"

\* What a re-plan that reads the ledger now must keep.
Guarded == {c \in facts : ~Overridden(c)}

\* The user says that a component is booked.  Nobody looks at the plan: a booking
\* of what is not in it, or one made while a re-plan is under way, is exempt, and
\* so is one that the run on disk, which a failed write has left, does not hold.
Acknowledge(c) ==
  /\ ~Booked(c)
  /\ Cardinality(facts) < setup.bookings
  /\ facts' = facts \cup {c}
  /\ exempt' = IF c \in run.plan \cap disk.plan /\ replan = NoReplan
                 THEN exempt ELSE exempt \cup {c}
  /\ UNCHANGED <<run, disk, replan, overrides, reprice, handoffs, setup>>

\* Mutant: an override of what is not booked.
MayOverrideAnything(c) == TRUE

MayOverride(c) == Booked(c)

RequestOverride(c) ==
  /\ MayOverride(c)
  /\ Len(overrides[c]) < setup.overrides
  /\ overrides' = [overrides EXCEPT ![c] = Append(@, "requested")]
  /\ UNCHANGED <<run, disk, replan, facts, exempt, reprice, handoffs, setup>>

\* Every request for a component has the same id: the first is looked at, and all
\* of them are resolved.
ResolveOverride(c, verdict) ==
  /\ overrides[c] # <<>>
  /\ Head(overrides[c]) = "requested"
  /\ overrides' = [overrides EXCEPT ![c] = [i \in 1..Len(@) |-> verdict]]
  /\ UNCHANGED <<run, disk, replan, facts, exempt, reprice, handoffs, setup>>
-------------------------------------------------------------------------------
\* The endpoints and the monitor: under the run's lock the ledger is read, and
\* then the re-plan takes minutes.
Begin(kind, c) ==
  /\ replan = NoReplan
  /\ c \in run.plan
  /\ replan' = [kind |-> kind, target |-> c, guarded |-> Guarded]
  /\ UNCHANGED <<run, disk, ledger, reprice, handoffs, setup>>

\* It ends with the run it puts into the cache and on disk.  The write may rename
\* the snapshot and then fail: the cache takes its run back, the disk does not.
End(new) ==
  /\ run' \in {new, run}
  /\ disk' = new
  /\ replan' = NoReplan
  /\ UNCHANGED <<ledger, reprice, handoffs, setup>>

\* Or with what was there: it raises, times out, the run has expired, the offer is
\* as it was, nothing qualifies, or the write fails before the rename.
EndWithout ==
  /\ replan # NoReplan
  /\ replan' = NoReplan
  /\ UNCHANGED <<run, disk, ledger, reprice, handoffs, setup>>

\* The cache writes its runs again, for another run that is stored, used or expired.
Rewrite ==
  /\ disk # run
  /\ disk' = run
  /\ UNCHANGED <<run, replan, ledger, reprice, handoffs, setup>>

Repaired(c) == (run.plan \ {replan.target}) \cup {c}

\* Mutant: only what this very repair removed is looked at.
ReverifiedByDiff(guarded, before, after) == \A c \in guarded : c \notin before \ after

\* The re-verifier's check of protected components, and the gate's.
Reverified(guarded, before, after) ==
  \A c \in guarded : c \notin before \ after /\ c \in after
GateAllows(guarded, before, after) == guarded \cap (before \ after) = {}

Verdict(passes) == IF passes THEN "accept" ELSE "block"

\* Nothing replaces the target, or the agents or the budget ask for the user: the
\* plan stays and its decision does not.
EventBlocks ==
  /\ replan.kind = "event"
  /\ End([run EXCEPT !.decision = "block"])

\* A local repair.  Blocked or not, the cache gets the repaired plan.
EventRepairs(c, verified) ==
  /\ replan.kind = "event"
  /\ c \notin run.plan
  /\ LET after == Repaired(c) IN
       End([run EXCEPT !.plan = after,
                       !.decision = Verdict(/\ verified
                                            /\ Reverified(replan.guarded, run.plan, after)
                                            /\ GateAllows(replan.guarded, run.plan, after))])

\* Everything is searched again.  The gate marks the answer to the caller, but
\* the cache gets the new run as it is.
EventReplans(after, decision) ==
  /\ replan.kind = "event"
  /\ after = {} => decision = "block"
  /\ End([run EXCEPT !.plan = after, !.decision = decision, !.dropped = facts \ after])

\* The user asks for other lodging: published if both verifiers accept.
ModifyLodging(c) ==
  /\ replan.kind = "modify"
  /\ c \notin run.plan
  /\ Reverified(replan.guarded, run.plan, Repaired(c))
  /\ End([run EXCEPT !.plan = Repaired(c), !.decision = "accept"])

\* The user asks for other dates: everything is searched again, and the ledger is
\* not looked at.
ModifyDates(query, after) ==
  /\ replan.kind = "modify"
  /\ after # {}
  /\ End([plan |-> after, decision |-> "accept", query |-> query,
          dropped |-> facts \ after])
-------------------------------------------------------------------------------
RepriceBegin(p, c) ==
  /\ reprice[p] = NoReprice
  /\ Cardinality({o \in Reprices : reprice[o] # NoReprice}) < setup.reprices
  /\ c \in run.plan
  /\ reprice' = [reprice EXCEPT ![p] = [component |-> c, query |-> run.query]]
  /\ UNCHANGED <<run, disk, replan, ledger, handoffs, setup>>

RepriceDone(p) ==
  /\ reprice[p] # NoReprice
  /\ reprice' = [reprice EXCEPT ![p] = NoReprice]
  /\ UNCHANGED <<run, disk, replan, ledger, marks, setup>>

\* The price is as it was and the provider has a stable page: put stores the
\* hand-off, whatever the run and the store say meanwhile.
RepriceIssues(p) ==
  LET c == reprice[p].component IN
  /\ RepriceDone(p)
  /\ Len(issued) < setup.handoffs
  /\ issued' = Append(issued, [component |-> c, query |-> reprice[p].query,
                               fresh |-> TRUE])
  /\ hand' = [hand EXCEPT ![c] = Len(issued')]

\* The price has changed or is not found, there is no stable page, or no source: at
\* most a receipt is put, and put keeps the hand-off that was there.
RepriceKeeps(p) == RepriceDone(p) /\ UNCHANGED <<issued, hand>>

BoundToRun(h) == issued[h].query = run.query

\* Mutant: it opens as long as it is fresh.
OpensWhileFresh(h) == issued[h].fresh

Usable(h) == issued[h].fresh /\ h \notin used

\* mark_handoff_used marks first and writes the file then.  When that fails the
\* request does, and nothing opens; the mark stays until the process ends.
Consume(c) ==
  LET h == hand[c] IN
  /\ h # 0
  /\ BoundToRun(h)
  /\ Usable(h)
  /\ used' = used \cup {h}
  /\ \/ filed' = used' /\ opened' = Append(opened, [hand |-> h, query |-> run.query])
     \/ UNCHANGED <<filed, opened>>
  /\ UNCHANGED <<run, disk, replan, ledger, reprice, issued, hand, setup>>

\* Five minutes pass for a hand-off on record, an hour for the record.
HandoffExpires(c) ==
  /\ hand[c] # 0
  /\ issued[hand[c]].fresh
  /\ issued' = [issued EXCEPT ![hand[c]].fresh = FALSE]
  /\ UNCHANGED <<run, disk, replan, ledger, reprice, hand, marks, setup>>

RecordExpires(c) ==
  /\ hand[c] # 0
  /\ hand' = [hand EXCEPT ![c] = 0]
  /\ UNCHANGED <<run, disk, replan, ledger, reprice, issued, marks, setup>>

\* The process is started again: the ledger, the snapshot and the filed hand-offs
\* are on disk, the rest is gone.
Restart ==
  /\ run' = disk
  /\ used' = filed
  /\ replan' = NoReplan
  /\ reprice' = [p \in Reprices |-> NoReprice]
  /\ hand' = [c \in Components |-> 0]
  /\ UNCHANGED <<disk, ledger, issued, filed, opened, setup>>
-------------------------------------------------------------------------------
LedgerStep(c) ==
  \/ Acknowledge(c) \/ RequestOverride(c)
  \/ \E verdict \in {"applied", "rejected"} : ResolveOverride(c, verdict)

ReplanStep ==
  \/ \E kind \in {"event", "modify"}, c \in setup.components : Begin(kind, c)
  \/ EndWithout \/ EventBlocks
  \/ \E c \in setup.components : \/ ModifyLodging(c)
                                 \/ \E verified \in BOOLEAN : EventRepairs(c, verified)
  \/ \E after \in SUBSET setup.components :
       \/ \E decision \in {"accept", "block"} : EventReplans(after, decision)
       \/ \E query \in setup.queries : ModifyDates(query, after)

HandoffStep ==
  \/ \E p \in Reprices :
       \/ \E c \in setup.components : RepriceBegin(p, c)
       \/ RepriceIssues(p) \/ RepriceKeeps(p)
  \/ \E c \in setup.components : Consume(c) \/ HandoffExpires(c) \/ RecordExpires(c)

Next ==
  \/ \E c \in setup.components : LedgerStep(c)
  \/ ReplanStep \/ Rewrite \/ HandoffStep \/ Restart

Spec == Init /\ [][Next]_vars
-------------------------------------------------------------------------------
\* A plan that is offered as accepted holds every component the user booked,
\* however many re-plans came in between, whichever of them were blocked or failed
\* to be written, and over restarts.  Not so for one whose protection the user
\* lifted, one its search of everything dropped, and an exempt one: booked outside
\* the plan, during a re-plan, or while the disk held a run without it.
AcceptedKeepsBooked ==
  run.decision = "accept" =>
    \A c \in facts : Overridden(c) \/ c \in exempt \cup run.dropped \cup run.plan

\* The official pages of a component open in the order of their hand-offs: none
\* opens twice, none after a later price has opened one, and what has opened is
\* known as used, over records that expire, late re-prices, files that cannot be
\* written and restarts.  Each opens for the dates its price was confirmed for.
OpensForward ==
  /\ \A i \in 1..Len(opened) : /\ opened[i].hand \in used
                               /\ issued[opened[i].hand].query = opened[i].query
  /\ \A i, j \in 1..Len(opened) :
       i < j /\ issued[opened[i].hand].component = issued[opened[j].hand].component
         => opened[i].hand < opened[j].hand

\* live_system.py:5289: a repaired or globally re-planned package may never remove
\* or change a protected component unless an explicit override has been applied;
\* a blocked event enters the user-handling state.
EventKeepsBooked ==
  [][replan.kind = "event" =>
       \/ run'.decision = "block"
       \/ replan.guarded \cap run.plan \subseteq run'.plan]_vars
===============================================================================
