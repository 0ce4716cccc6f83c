------------------------------ MODULE BrowserTasks ------------------------------
(***************************************************************************)
(* The durable browser task store, the bridge calls that use it and the    *)
(* companion that executes its leases.                                     *)
(* Source: persistence/browser_tasks.py, the durable paths of              *)
(* providers/browser_bridge.py, the waiters of agents/live_system.py, the  *)
(* poll and the executions of the companion's background.js, and the       *)
(* formal ledger's ensure_browser_complete.                                *)
(*                                                                         *)
(* An acquisition row is the work; a consumer row is one request for it.   *)
(* All submissions ask for the same thing: one fingerprint, one partition, *)
(* so a row stands for the subject its completion has in the ledger.  A    *)
(* transaction of the store is a step; what a handler does in several      *)
(* transactions is several steps, and a crash may come between any two.    *)
(* A renewal moves the end of a live lease and never past the attempt's    *)
(* deadline: a live lease stays live until time ends it.  The owner, the   *)
(* token and the session of a lease are written and forgotten with it.     *)
(***************************************************************************)
EXTENDS Naturals, FiniteSets

CONSTANTS
  MaxRows,         \* bound: acquisition rows
  MaxConsumers,    \* bound: submissions
  Handlers,        \* complete calls the bridge serves at once
  Publisher,       \* the pass of publish_pending_completions
  None,            \* no completion is frozen
  Setups           \* what a behaviour asks for, and how much may go wrong in it

Setup == [formal   : BOOLEAN,           \* do the requests carry a capability?
          attempts : Nat \ {0},         \* BrowserTaskSubmission.max_attempts
          rows     : 1..MaxRows,        \* bound: acquisition rows used
          consumers : 1..MaxConsumers,  \* bound: submissions
          handlers : SUBSET Handlers,   \* bound: complete calls at once
          restarts : Nat,               \* bound: restarts of the service worker
          crashes  : Nat]               \* bound: handlers that die on the way

ASSUME BrowserAssumption ==
  /\ MaxRows \in Nat /\ MaxConsumers \in Nat
  /\ Publisher \notin Handlers
  /\ Setups \subseteq Setup

VARIABLES
  row,        \* the acquisition rows
  consumer,   \* the consumer rows, by created_at and id, and who waits on them
  inserting,  \* submissions that found no row to join, and have inserted nothing
  session,    \* the runtime its CompanionSessionRow knows; 0: there is none
  runtime,    \* the instance number of its service worker
  jobs,       \* the leases it executes, or whose result is on its way
  call,       \* what each handler of the bridge knows
  ledger,     \* browser_complete events of the formal source
  setup,      \* never changes
  spent       \* restarts and crashes so far

vars == <<row, consumer, inserting, session, runtime, jobs, call, ledger,
          setup, spent>>

Rows      == 1..MaxRows
Consumers == 1..MaxConsumers
Calls     == Handlers \cup {Publisher}
Outcomes  == {"succeeded", "failed"}    \* blocked is failed here
Terminal  == {"succeeded", "failed", "cancelled"}
Pending   == {"queued", "claimed"}
Open      == Pending \cup {"completing"}

\* What one complete call freezes.  The instant in the snapshot makes two calls
\* for one claim differ.
Digests   == [row : Rows, gen : Nat, by : Handlers, outcome : Outcomes]
Jobs      == [row : Rows, pub : Consumers, gen : Nat, run : Nat]

\* A column that is NULL holds no snapshot.
ASSUME NoneAssumption == None \notin Digests
-------------------------------------------------------------------------------
NoRow == [state |-> "absent", reuse |-> FALSE, key |-> FALSE, pub |-> 0,
          refs |-> 0, gen |-> 0, lease |-> "null", sess |-> 0,
          attempts |-> 0, frozen |-> None, published |-> None]

IdleCall == [pc |-> "idle", digest |-> None, sess |-> 0]

TypeOK ==
  /\ row \in [Rows -> [state : {"absent"} \cup Open \cup Terminal,
                       reuse : BOOLEAN, key : BOOLEAN,
                       pub : 0..MaxConsumers, refs : Nat, gen : Nat,
                       lease : {"null", "live", "past"}, sess : Nat,
                       attempts : Nat,
                       frozen : Digests \cup {None},
                       published : Digests \cup {None}]]
  /\ consumer \in [Consumers -> [state : {"absent", "active", "cancelled"},
                                 row : 0..MaxRows, primary : BOOLEAN,
                                 handle : 0..MaxConsumers, waits : BOOLEAN]]
  /\ inserting \subseteq Consumers
  /\ session \in Nat
  /\ runtime \in Nat
  /\ jobs \subseteq Jobs
  /\ call \in [Calls -> [pc : {"idle", "read", "prepared", "recorded"},
                         digest : Digests \cup {None}, sess : Nat]]
  /\ ledger \subseteq Digests
  /\ setup \in Setups
  /\ spent \in [restarts : 0..setup.restarts, crashes : 0..setup.crashes]

NoConsumer == [state |-> "absent", row |-> 0, primary |-> FALSE,
               handle |-> 0, waits |-> FALSE]

Init ==
  /\ row = [r \in Rows |-> NoRow]
  /\ consumer = [c \in Consumers |-> NoConsumer]
  /\ inserting = {}
  /\ session = 0 /\ runtime = 1 /\ jobs = {} /\ ledger = {}
  /\ call = [k \in Calls |-> IdleCall]
  /\ setup \in Setups
  /\ spent = [restarts |-> 0, crashes |-> 0]

Is(r, states) == row[r].state \in states
Absent(c)     == consumer[c].state = "absent"
Active(r)     == {c \in Consumers : consumer[c].state = "active" /\ consumer[c].row = r}
Oldest(S)     == CHOOSE c \in S : \A d \in S : c <= d
Waits(c)      == consumer[c].waits
-------------------------------------------------------------------------------
(* submit_consumer.  Consumer ids are fresh, so no submission is a replay.   *)

\* `now`, the created_at of the consumer to be, is read after the lookup: it
\* comes after every submission that has read its own.
Numbered(c)     == ~Absent(c) \/ c \in inserting
NextConsumer(c) == /\ c <= setup.consumers
                   /\ \A d \in c..MaxConsumers : ~Numbered(d)
                   /\ c > 1 => Numbered(c - 1)

\* The consumer is the primary of a row without active consumers.
AddConsumer(c, r, handle) ==
  consumer' = [consumer EXCEPT ![c] =
    [state |-> "active", row |-> r, primary |-> Active(r) = {},
     handle |-> handle, waits |-> TRUE]]

InsertRow(c, r, reuse) ==
  /\ r <= setup.rows /\ Is(r, {"absent"}) /\ \A q \in 1..(r - 1) : ~Is(q, {"absent"})
  /\ row' = [row EXCEPT ![r] = [NoRow EXCEPT !.state = "queued", !.reuse = reuse,
                                             !.key = reuse, !.pub = c, !.refs = 1]]
  /\ AddConsumer(c, r, c)

JoinRow(c, r) ==
  /\ row' = [row EXCEPT ![r].refs = @ + 1]
  /\ AddConsumer(c, r, row[r].pub)

\* force_fresh, or no permission to reuse.
SubmitFresh(c) ==
  /\ NextConsumer(c)
  /\ \E r \in Rows : InsertRow(c, r, FALSE)
  /\ UNCHANGED <<inserting, session, runtime, jobs, call, ledger, setup, spent>>

\* The row updated last among those of the request, whichever that is: join it
\* while it is pending; take its quotes if they are fresh and the request is not
\* formal.
SubmitJoin(c) ==
  /\ NextConsumer(c)
  /\ \E r \in Rows :
       \/ Is(r, Pending) /\ JoinRow(c, r)
       \/ Is(r, {"succeeded"}) /\ ~setup.formal /\ AddConsumer(c, r, c) /\ UNCHANGED row
  /\ UNCHANGED <<inserting, session, runtime, jobs, call, ledger, setup, spent>>

\* There was none, or its quotes are no use: the transaction reads `now` and goes
\* on to insert.
SubmitLook(c) ==
  /\ NextConsumer(c)
  /\ \/ \A r \in Rows : ~Is(r, Pending \cup {"succeeded"})
     \/ \E r \in Rows : Is(r, {"succeeded"})
  /\ inserting' = inserting \cup {c}
  /\ UNCHANGED <<row, consumer, session, runtime, jobs, call, ledger, setup,
                 spent>>

\* The unique index may find a row inserted meanwhile: join it if it is pending,
\* with the created_at read before, which may be earlier than that of the row's
\* primary; if it is completing the second insert fails as well, and with it the
\* submission.
SubmitInsert(c) ==
  /\ c \in inserting
  /\ inserting' = inserting \ {c}
  /\ \/ /\ \A r \in Rows : ~row[r].key
        /\ \E r \in Rows : InsertRow(c, r, TRUE)
     \/ \E r \in Rows : row[r].key /\ Is(r, Pending) /\ JoinRow(c, r)
     \/ /\ \E r \in Rows : row[r].key /\ ~Is(r, Pending)
        /\ UNCHANGED <<row, consumer>>
  /\ UNCHANGED <<session, runtime, jobs, call, ledger, setup, spent>>
-------------------------------------------------------------------------------
(* The waiters: wait_many polls, a timeout or a circuit cancels the handle.  *)

\* get_consumer: a claim whose lease has ended goes back, or fails.
Expired(r) == Is(r, {"claimed"}) /\ row[r].lease # "live"

\* Mutant: a task without attempts left fails and keeps its key.
ReclaimedKeyed(r) ==
  [row[r] EXCEPT !.state = IF row[r].attempts >= setup.attempts THEN "failed"
                                                                ELSE "queued",
                 !.lease = "null", !.sess = 0]

Reclaimed(r) ==
  IF row[r].attempts >= setup.attempts
    THEN [row[r] EXCEPT !.state = "failed", !.key = FALSE, !.lease = "null",
                        !.sess = 0]
    ELSE [row[r] EXCEPT !.state = "queued", !.lease = "null", !.sess = 0]

Poll(c) ==
  /\ Waits(c)
  /\ LET r == consumer[consumer[c].handle].row IN
       Expired(r) /\ row' = [row EXCEPT ![r] = Reclaimed(r)]
  /\ UNCHANGED <<consumer, inserting, session, runtime, jobs, call, ledger,
                 setup, spent>>

\* cancel_consumer.  Cancelling a handle again takes the oldest reference left.
CancelTarget(h) ==
  LET r == consumer[h].row IN
  IF consumer[h].state # "active" /\ Is(r, Pending) THEN Oldest(Active(r)) ELSE h

\* Mutants: a row that is not pending loses a reference all the same; the last
\* consumer of a row that ended cancels it.
CancelledRowUncounted(r, last) ==
  IF last
    THEN [row[r] EXCEPT !.state = IF @ \in Pending THEN "cancelled" ELSE @,
                        !.gen = @ + 1, !.lease = "null", !.key = FALSE,
                        !.pub = 0, !.refs = 0, !.sess = 0]
    ELSE [row[r] EXCEPT !.refs = @ - 1]

CancelledRowAlways(r, last) ==
  IF last
    THEN [row[r] EXCEPT !.state = "cancelled", !.gen = @ + 1, !.lease = "null",
                        !.key = FALSE, !.pub = 0, !.refs = 0, !.sess = 0]
    ELSE [row[r] EXCEPT !.refs = IF Is(r, Pending) /\ @ > 0 THEN @ - 1 ELSE @]

\* The last consumer takes the row with it.
CancelledRow(r, last) ==
  IF last
    THEN [row[r] EXCEPT !.state = IF @ \in Pending THEN "cancelled" ELSE @,
                        !.gen = @ + 1, !.lease = "null", !.key = FALSE,
                        !.pub = 0, !.refs = 0, !.sess = 0]
    ELSE [row[r] EXCEPT !.refs = IF Is(r, Pending) /\ @ > 0 THEN @ - 1 ELSE @]

\* Mutant: nobody is promoted.
CancelledConsumersUnpromoted(t, left) ==
  [consumer EXCEPT ![t] = [@ EXCEPT !.state = "cancelled", !.primary = FALSE]]

\* Of those left the oldest becomes primary, besides the one there may be.
CancelledConsumers(t, left) ==
  [c \in Consumers |->
    IF c = t THEN [consumer[c] EXCEPT !.state = "cancelled", !.primary = FALSE]
    ELSE IF left # {} /\ c = Oldest(left) THEN [consumer[c] EXCEPT !.primary = TRUE]
    ELSE consumer[c]]

\* The caller of c cancels, once, after a timeout or when a circuit of its run
\* opens: by its handle, the public id the bridge gave it, or by its own consumer
\* id, which a caller of the store holds.  A completing row without consumers would
\* be no BrowserTaskState: the transaction rolls back.
Cancel(c) ==
  /\ Waits(c)
  /\ \E h \in {c, consumer[c].handle} :
       LET r    == consumer[h].row
           t    == CancelTarget(h)
           left == Active(r) \ {t}
       IN IF left = {} /\ Is(r, {"completing"})
            THEN /\ consumer' = [consumer EXCEPT ![c].waits = FALSE]
                 /\ UNCHANGED row
            ELSE /\ row' = [row EXCEPT ![r] = CancelledRow(r, left = {})]
                 /\ consumer' = [CancelledConsumers(t, left) EXCEPT ![c].waits = FALSE]
  /\ UNCHANGED <<inserting, session, runtime, jobs, call, ledger, setup, spent>>

\* The waiter leaves the store alone: it has its answer, or its run died.
WaiterLeaves(c) ==
  /\ Waits(c)
  /\ consumer' = [consumer EXCEPT ![c].waits = FALSE]
  /\ UNCHANGED <<row, inserting, session, runtime, jobs, call, ledger, setup,
                 spent>>
-------------------------------------------------------------------------------
(* The companion's requests.                                                 *)

\* upsert_companion_session: another runtime is another session generation, so
\* the runtime stands for the generation.
Heartbeat ==
  /\ session' = runtime
  /\ UNCHANGED <<row, consumer, inserting, runtime, jobs, call, ledger, setup, spent>>

\* Mutant: only a waiter's look puts an abandoned lease back.
ClaimableQueued(r) == Is(r, {"queued"})

Claimable(r) ==
  \/ Is(r, {"queued"})
  \/ Is(r, {"claimed"}) /\ row[r].lease = "past"

\* claim_acquisitions: a new generation and token, or no attempt left.
Exhausted(r) == Is(r, {"claimed"}) /\ row[r].attempts >= setup.attempts

Claimed(r) ==
  IF Exhausted(r)
    THEN [row[r] EXCEPT !.state = "failed", !.key = FALSE, !.lease = "null",
                        !.sess = 0]
    ELSE [row[r] EXCEPT !.state = "claimed", !.gen = @ + 1, !.lease = "live",
                        !.attempts = @ + 1, !.sess = runtime]

\* The companion drops a lease for a task it still executes.
Executing(pub) == \E j \in jobs : j.pub = pub /\ j.run = runtime

Started(r) ==
  IF Exhausted(r) \/ Executing(row[r].pub) THEN {}
  ELSE {[row |-> r, pub |-> row[r].pub, gen |-> row[r].gen + 1, run |-> runtime]}

\* One row a poll takes: any, as providers, scopes, rotation, the lease limit and
\* the one lodging of Qunar let through.  What a poll takes besides is another
\* step.  A lost response leaves the lease with nobody.
Claim(r, heard) ==
  /\ Claimable(r) /\ \E c \in Active(r) : consumer[c].primary
  /\ session' = runtime
  /\ row' = [row EXCEPT ![r] = Claimed(r)]
  /\ jobs' = IF heard THEN jobs \cup Started(r) ELSE jobs
  /\ UNCHANGED <<consumer, inserting, runtime, call, ledger, setup, spent>>

\* executeLease ends: answered, its post lost, or its own look at the lease status
\* said that the task was cancelled.
Ended(j) ==
  /\ jobs' = jobs \ {j}
  /\ UNCHANGED <<row, consumer, inserting, session, runtime, call, ledger, setup,
                 spent>>

\* The service worker dies and comes back as a new instance; of its executions
\* only what it posted can still arrive.
Restart ==
  /\ spent.restarts < setup.restarts
  /\ spent' = [spent EXCEPT !.restarts = @ + 1]
  /\ runtime' = runtime + 1
  /\ jobs' \in SUBSET jobs
  /\ UNCHANGED <<row, consumer, inserting, session, call, ledger, setup>>
-------------------------------------------------------------------------------
(* Time.                                                                     *)

LeaseEnds(r) ==
  /\ row[r].lease = "live"
  /\ row' = [row EXCEPT ![r].lease = "past"]
  /\ UNCHANGED <<consumer, inserting, session, runtime, jobs, call, ledger,
                 setup, spent>>

-------------------------------------------------------------------------------
(* The bridge: complete, and the publisher.                                  *)

Goto(k, pc) == call' = [call EXCEPT ![k].pc = pc]
Ends(k)     == call' = [call EXCEPT ![k] = IdleCall]
StoreKept   == UNCHANGED <<row, consumer, inserting, session, runtime, jobs,
                           setup, spent>>

Completing(r) == Is(r, {"completing"})
LeaseOwned(r, gen) == row[r].lease # "null" /\ row[r].gen = gen

\* get_claim_lease, by public id and token: a completing row needs no lease and no
\* session any more.
Authorized(j) ==
  /\ row[j.row].pub = j.pub /\ LeaseOwned(j.row, j.gen)
  /\ \/ Completing(j.row)
     \/ /\ Is(j.row, {"claimed"}) /\ row[j.row].lease = "live"
        /\ session = row[j.row].sess

\* The reads of complete.  What get_pending_completion finds frozen this call goes
\* on with, if it is a retry of the same completion.  The attestation of a formal
\* task must come from the runtime of the session.
Read(k, j, outcome) ==
  /\ k \in setup.handlers /\ call[k].pc = "idle"
  /\ Authorized(j)
  /\ LET f == row[j.row].frozen
         d == [row |-> j.row, gen |-> j.gen, by |-> k, outcome |-> outcome]
     IN /\ IF Completing(j.row) THEN f.gen = d.gen /\ f.outcome = d.outcome
                                ELSE setup.formal => session = j.run
        /\ call' = [call EXCEPT ![k] =
             [pc |-> "read", sess |-> row[j.row].sess,
              digest |-> IF Completing(j.row) THEN f ELSE d]]
  /\ UNCHANGED ledger /\ StoreKept

\* prepare_acquisition_completion.
Freezable(k) ==
  LET d == call[k].digest IN
  /\ Is(d.row, {"claimed"}) /\ row[d.row].lease = "live"
  /\ row[d.row].sess = call[k].sess /\ session = call[k].sess

\* Mutant: any completion of the claim is a retry of the frozen one.
FrozenAny(k) == Completing(call[k].digest.row)

\* The exact retry of what is frozen.
Frozen(k) == LET d == call[k].digest IN Completing(d.row) /\ row[d.row].frozen = d

Prepare(k) ==
  /\ call[k].pc = "read"
  /\ LET d == call[k].digest
         owned == LeaseOwned(d.row, d.gen)
     IN \/ /\ owned /\ Freezable(k)
           /\ row' = [row EXCEPT ![d.row].state = "completing", ![d.row].frozen = d]
           /\ Goto(k, "prepared")
        \/ /\ owned /\ Frozen(k)
           /\ Goto(k, "prepared") /\ UNCHANGED row
        \/ /\ ~(owned /\ (Freezable(k) \/ Frozen(k)))
           /\ Ends(k) /\ UNCHANGED row
  /\ UNCHANGED <<consumer, inserting, session, runtime, jobs, ledger, setup, spent>>

\* list_pending_completions: the publisher takes up what is frozen.
Publish(r) ==
  /\ call[Publisher].pc = "idle"
  /\ Completing(r)
  /\ call' = [call EXCEPT ![Publisher] = [IdleCall EXCEPT !.pc = "prepared",
                                                          !.digest = row[r].frozen]]
  /\ UNCHANGED ledger /\ StoreKept

\* _record_formal_completion and ensure_browser_complete: an exact retry is
\* accepted, a different story is not.
Told(r) == {e \in ledger : e.row = r}

Record(k) ==
  /\ call[k].pc = "prepared"
  /\ LET d == call[k].digest IN
       \/ ~setup.formal /\ Goto(k, "recorded") /\ UNCHANGED ledger
       \/ /\ setup.formal /\ Told(d.row) \subseteq {d}
          /\ ledger' = ledger \cup {d} /\ Goto(k, "recorded")
       \/ /\ setup.formal /\ ~(Told(d.row) \subseteq {d})
          /\ Ends(k) /\ UNCHANGED ledger
  /\ StoreKept

\* finalize_acquisition_completion; a handler that comes second finds it done.
Published(d) ==
  [row[d.row] EXCEPT !.state = row[d.row].frozen.outcome, !.key = FALSE, !.refs = 0,
                     !.lease = "null", !.sess = 0, !.published = d]

Finalize(k) ==
  /\ call[k].pc = "recorded"
  /\ LET d == call[k].digest IN
       row' = IF Completing(d.row) /\ row[d.row].frozen = d
                THEN [row EXCEPT ![d.row] = Published(d)] ELSE row
  /\ Ends(k)
  /\ UNCHANGED <<consumer, inserting, session, runtime, jobs, ledger, setup, spent>>

\* The API process dies, or the request is cut: a handler stops between two steps.
HandlerDies(k) ==
  /\ call[k].pc # "idle"
  /\ spent.crashes < setup.crashes
  /\ spent' = [spent EXCEPT !.crashes = @ + 1]
  /\ Ends(k)
  /\ UNCHANGED <<row, consumer, inserting, session, runtime, jobs, ledger, setup>>
-------------------------------------------------------------------------------
Submit(c) == SubmitFresh(c) \/ SubmitJoin(c) \/ SubmitLook(c) \/ SubmitInsert(c)

Next ==
  \/ \E c \in Consumers : Submit(c)
  \/ \E c \in Consumers : Poll(c) \/ Cancel(c) \/ WaiterLeaves(c)
  \/ Heartbeat
  \/ \E r \in Rows, heard \in BOOLEAN : Claim(r, heard)
  \/ \E j \in jobs : Ended(j)
  \/ Restart
  \/ \E r \in Rows : LeaseEnds(r)
  \/ \E k \in Handlers, j \in jobs, o \in Outcomes : Read(k, j, o)
  \/ \E k \in Handlers : Prepare(k)
  \/ \E r \in Rows : Publish(r)
  \/ \E k \in Calls : Record(k) \/ Finalize(k) \/ HandlerDies(k)

\* The companion polls, a renewal ends at the attempt's deadline, and the
\* publisher runs every five seconds.
Fairness ==
  /\ \A r \in Rows : WF_vars(\E heard \in BOOLEAN : Claim(r, heard))
                     /\ WF_vars(LeaseEnds(r)) /\ WF_vars(Publish(r))
  /\ WF_vars(Record(Publisher) \/ Finalize(Publisher))

Spec == Init /\ [][Next]_vars /\ Fairness
-------------------------------------------------------------------------------
\* A pending row is held by exactly its references, and its task has a public id:
\* otherwise a cancellation ends work others wait for, or nobody is left to end it.
\* A primary is among them: without one no companion may claim the row.
PendingRowIsHeld ==
  \A r \in Rows : Is(r, Pending) =>
    /\ row[r].pub \in Consumers
    /\ row[r].refs = Cardinality(Active(r))
    /\ \E c \in Active(r) : consumer[c].primary

\* The unique key is held by the reusable work that is open, through its
\* completion, and by that alone: so there is at most one such row.
KeyGuardsOpenWork ==
  /\ \A r \in Rows : row[r].key <=> row[r].reuse /\ Is(r, Open)
  /\ \A q, r \in Rows : row[q].key /\ row[r].key => q = r

\* The formal source tells one story of a task, the frozen one, and nothing
\* formal is published that it does not tell.
OneStory ==
  /\ \A d \in ledger : row[d.row].frozen = d
  /\ \A r \in Rows : row[r].published # None =>
       /\ row[r].published = row[r].frozen
       /\ setup.formal => row[r].published \in ledger

\* What a waiter was told stays so: a row that ended keeps its state and its
\* result, and a frozen completion never changes or is dropped.
ResultIsFinal ==
  [][\A r \in Rows :
       /\ Is(r, Terminal) => row'[r].state = row[r].state
                             /\ row'[r].published = row[r].published
       /\ Completing(r) => row'[r].frozen = row[r].frozen
                           /\ row'[r].state \in {"completing", row[r].frozen.outcome}]_vars

\* Every acquisition ends: leases that nobody executes run out of attempts, and
\* what a handler froze before it died is published.
AcquisitionEnds == \A r \in Rows : Is(r, Open) ~> ~Is(r, Open)
===============================================================================
