--------------------------- MODULE BrowserTasksProofs ---------------------------
(***************************************************************************)
(* What BrowserTasks promises, proved for every number of rows,            *)
(* submissions and handlers and for every setup.                           *)
(*                                                                         *)
(* A completion is frozen while its row is claimed and never before        *)
(* (NotFrozenEarly); nothing replaces it; and a call that is past Prepare  *)
(* carries the one its row has (CallsCarryFrozen).  So whatever is told to *)
(* the formal source, and whatever is published, is that one.  A pending   *)
(* row counts its active consumers: a submission that looked and has not   *)
(* inserted is no consumer yet (InsertersAreNew), and a handle leads to    *)
(* the row it was made for (HandlesLead), so that a cancellation takes a   *)
(* reference of that row.                                                  *)
(***************************************************************************)
EXTENDS BrowserTasks, FiniteSetTheorems, TLAPS

\* Nothing is frozen or published of a row that still waits for its completion.
NotFrozenEarly ==
  \A r \in Rows : Is(r, {"absent"} \cup Pending) =>
    row[r].frozen = None /\ row[r].published = None

\* What is frozen is a completion of the row itself, and a completing row has one.
FrozenIsOwn ==
  /\ \A r \in Rows : row[r].frozen # None => row[r].frozen.row = r
  /\ \A r \in Rows : Completing(r) => row[r].frozen # None

\* A call that was let through Prepare, and the publisher, carry the frozen
\* completion; one that recorded it has told it.
CallsCarryFrozen ==
  \A k \in Calls :
    LET d == call[k].digest IN
    /\ call[k].pc # "idle" => d # None
    /\ call[k].pc \in {"prepared", "recorded"} => row[d.row].frozen = d
    /\ call[k].pc = "recorded" /\ setup.formal => d \in ledger

\* A submission that has inserted nothing yet has no consumer row.
InsertersAreNew == \A c \in inserting : Absent(c)

\* A consumer belongs to a row that is there, and its handle is a consumer of the
\* same row, as is the public id of the row's task.
HandlesLead ==
  /\ \A c \in Consumers : ~Absent(c) =>
       /\ consumer[c].row \in Rows /\ ~Is(consumer[c].row, {"absent"})
       /\ consumer[c].handle \in Consumers /\ ~Absent(consumer[c].handle)
       /\ consumer[consumer[c].handle].row = consumer[c].row
  /\ \A c \in Consumers : Absent(c) => ~consumer[c].waits
  /\ \A r \in Rows : row[r].pub # 0 =>
       ~Absent(row[r].pub) /\ consumer[row[r].pub].row = r

TasksInv ==
  /\ TypeOK
  /\ NotFrozenEarly
  /\ FrozenIsOwn
  /\ CallsCarryFrozen
  /\ OneStory
  /\ KeyGuardsOpenWork
  /\ InsertersAreNew
  /\ HandlesLead
  /\ PendingRowIsHeld

-------------------------------------------------------------------------------
(* The oldest of a set of consumers.                                         *)

\* A finite set of numbers that is not empty has a least one: of the segments below
\* its members one has no smaller segment in it.
LEMMA LeastExists ==
  ASSUME NEW S, S \subseteq Nat, IsFiniteSet(S), S # {}
  PROVE  \E m \in S : \A d \in S : m <= d
<1> DEFINE Below(m) == {d \in S : d < m}
           Segments == {Below(m) : m \in S}
<1>1. Segments # {} /\ Segments \subseteq FiniteSubsetsOf(S)
  <2>1. ASSUME NEW m \in S PROVE Below(m) \in SUBSET S /\ IsFiniteSet(Below(m))
    BY FS_Subset
  <2>2. QED
    BY <2>1 DEF FiniteSubsetsOf
<1>2. \E x \in Segments : \A y \in Segments : <<y, x>> \notin StrictSubsetOrdering(S)
  <2>. HIDE DEF Segments
  <2>1. QED
    BY <1>1, FS_StrictSubsetOrderingWellFounded, WFMin
<1>3. PICK m \in S : \A d \in S : <<Below(d), Below(m)>> \notin StrictSubsetOrdering(S)
  BY <1>2
<1>4. ASSUME NEW d \in S, ~(m <= d) PROVE FALSE
  <2>0. d < m /\ d \in Nat /\ m \in Nat /\ \A e \in S : e \in Nat
    BY <1>4
  <2>a. \A e \in S : e < d => e < m
    BY <2>0
  <2>b. Below(d) \subseteq Below(m)
    BY <2>a
  <2>c. d \in Below(m)
    BY <2>0
  <2>d. d \notin Below(d)
    BY <2>0
  <2>1. Below(d) \subseteq Below(m) /\ d \in Below(m) /\ d \notin Below(d)
    BY <2>b, <2>c, <2>d
  <2>2. <<Below(d), Below(m)>> \in StrictSubsetOrdering(S)
    BY <2>1 DEF StrictSubsetOrdering
  <2>3. QED
    BY <1>3, <2>2
<1>5. QED
  BY <1>4

LEMMA OldestIs ==
  ASSUME NEW S, S \subseteq Consumers, S # {}
  PROVE  Oldest(S) \in S /\ \A d \in S : Oldest(S) <= d
<1>1. IsFiniteSet(Consumers) /\ Consumers \subseteq Nat
  BY BrowserAssumption, FS_Interval DEF Consumers
<1>2. IsFiniteSet(S) /\ S \subseteq Nat
  BY <1>1, FS_Subset
<1>3. QED
  BY <1>2, LeastExists DEF Oldest
-------------------------------------------------------------------------------
(* Types, and what the operators do to a row, field by field.                *)

RowType == [state : {"absent"} \cup Open \cup Terminal,
            reuse : BOOLEAN, key : BOOLEAN,
            pub : 0..MaxConsumers, refs : Nat, gen : Nat,
            lease : {"null", "live", "past"}, sess : Nat,
            attempts : Nat,
            frozen : Digests \cup {None},
            published : Digests \cup {None}]

ConsumerType == [state : {"absent", "active", "cancelled"},
                 row : 0..MaxRows, primary : BOOLEAN,
                 handle : 0..MaxConsumers, waits : BOOLEAN]

CallType == [pc : {"idle", "read", "prepared", "recorded"},
             digest : Digests \cup {None}, sess : Nat]

SpentType == [restarts : 0..setup.restarts, crashes : 0..setup.crashes]

LEMMA Typed == TypeOK <=> /\ row \in [Rows -> RowType]
                          /\ consumer \in [Consumers -> ConsumerType]
                          /\ inserting \subseteq Consumers
                          /\ session \in Nat
                          /\ runtime \in Nat
                          /\ jobs \subseteq Jobs
                          /\ call \in [Calls -> CallType]
                          /\ ledger \subseteq Digests
                          /\ setup \in Setups
                          /\ spent \in SpentType
BY DEF TypeOK, RowType, ConsumerType, CallType, SpentType

LEMMA SetupTyped ==
  ASSUME setup \in Setups
  PROVE  /\ setup.formal \in BOOLEAN /\ setup.attempts \in Nat /\ setup.rows \in 1..MaxRows
         /\ setup.handlers \subseteq Handlers
         /\ setup.restarts \in Nat /\ setup.crashes \in Nat
BY BrowserAssumption DEF Setup

\* Row r has become v.
Becomes(r, v) == row' = [row EXCEPT ![r] = v]

\* Nothing else has happened to the rows.
Alone(r) == row' \in [Rows -> RowType] /\ \A q \in Rows \ {r} : row'[q] = row[q]

LEMMA BecomesAlone ==
  ASSUME row \in [Rows -> RowType], NEW r \in Rows, NEW v \in RowType, Becomes(r, v)
  PROVE  Alone(r) /\ row'[r] = v
BY DEF Becomes, Alone

\* What a row's key, its waiters and its result are read from.
SameKey(v, w)   == v.reuse = w.reuse /\ v.key = w.key
SameHold(v, w)  == v.pub = w.pub /\ v.refs = w.refs
SameStory(v, w) == v.frozen = w.frozen /\ v.published = w.published

Idem(v, w) == v.state = w.state /\ SameKey(v, w) /\ SameHold(v, w) /\ SameStory(v, w)

\* The ways of a row v to become w.
Inserted(v, w, c, reuse) ==
  /\ v.state = "absent" /\ w.state = "queued"
  /\ w.reuse = reuse /\ w.key = reuse /\ w.pub = c /\ w.refs = 1
  /\ w.frozen = None /\ w.published = None

Joined(v, w) ==
  /\ v.state \in Pending /\ w.state = v.state /\ SameKey(v, w) /\ SameStory(v, w)
  /\ w.pub = v.pub /\ w.refs = v.refs + 1

Turned(v, w) ==
  /\ v.state \in Pending /\ w.state \in Pending
  /\ SameKey(v, w) /\ SameHold(v, w) /\ SameStory(v, w)

Exhausts(v, w) ==
  /\ v.state = "claimed" /\ w.state = "failed"
  /\ w.reuse = v.reuse /\ ~w.key /\ SameHold(v, w) /\ SameStory(v, w)

Dropped(v, w) ==
  /\ \/ v.state \in Pending /\ w.state = "cancelled"
     \/ v.state \in Terminal /\ w.state = v.state
  /\ w.reuse = v.reuse /\ ~w.key /\ w.pub = 0 /\ w.refs = 0 /\ SameStory(v, w)

Released(v, w) ==
  /\ w.state = v.state /\ SameKey(v, w) /\ SameStory(v, w) /\ w.pub = v.pub
  /\ v.state \in Pending /\ v.refs > 0 => w.refs = v.refs - 1

Froze(v, w, d) ==
  /\ v.state = "claimed" /\ w.state = "completing" /\ SameKey(v, w)
  /\ w.pub = v.pub /\ w.frozen = d /\ w.published = v.published

Finished(v, w, d) ==
  /\ v.state = "completing" /\ v.frozen = d /\ w.state = d.outcome
  /\ w.reuse = v.reuse /\ ~w.key /\ w.pub = v.pub
  /\ w.frozen = v.frozen /\ w.published = d

LEMMA InsertEffect ==
  ASSUME TypeOK, NEW c \in Consumers, NEW r \in Rows, NEW reuse \in BOOLEAN,
         InsertRow(c, r, reuse)
  PROVE  Alone(r) /\ Inserted(row[r], row'[r], c, reuse) /\ AddConsumer(c, r, c)
<1> DEFINE new == [NoRow EXCEPT !.state = "queued", !.reuse = reuse,
                                !.key = reuse, !.pub = c, !.refs = 1]
<1>0. row \in [Rows -> RowType] /\ MaxConsumers \in Nat
  BY Typed, BrowserAssumption
<1>1. NoRow \in RowType
  BY <1>0, SetupTyped, Typed DEF NoRow, RowType
<1>2. /\ new \in RowType
      /\ new.frozen = NoRow.frozen /\ new.published = NoRow.published
      /\ new.state = "queued" /\ new.reuse = reuse /\ new.key = reuse
      /\ new.pub = c /\ new.refs = 1
  <2>1. /\ "queued" \in {"absent"} \cup Open \cup Terminal
        /\ c \in 0..MaxConsumers /\ 1 \in Nat /\ reuse \in BOOLEAN
    BY <1>0 DEF Open, Pending, Consumers
  <2>2. QED
    BY <1>1, <2>1 DEF RowType
<1>3. Becomes(r, new) /\ row[r].state = "absent" /\ AddConsumer(c, r, c)
  BY DEF InsertRow, Becomes, Is
<1>4. Inserted(row[r], new, c, reuse)
  BY <1>2, <1>3 DEF Inserted, NoRow
<1>. HIDE DEF new
<1>5. QED
  BY <1>0, <1>2, <1>3, <1>4, BecomesAlone

LEMMA JoinEffect ==
  ASSUME TypeOK, NEW c \in Consumers, NEW r \in Rows, Is(r, Pending), JoinRow(c, r)
  PROVE  Alone(r) /\ Joined(row[r], row'[r]) /\ AddConsumer(c, r, row[r].pub)
<1> DEFINE new == [row[r] EXCEPT !.refs = @ + 1]
<1>0. row \in [Rows -> RowType] /\ row[r] \in RowType
  BY Typed
<1>1. new \in RowType /\ Joined(row[r], new)
  BY <1>0 DEF RowType, Joined, SameKey, SameStory, Is
<1>2. Becomes(r, new) /\ AddConsumer(c, r, row[r].pub)
  BY DEF JoinRow, Becomes
<1>. HIDE DEF new
<1>3. QED
  BY <1>0, <1>1, <1>2, BecomesAlone

LEMMA ReclaimEffect ==
  ASSUME TypeOK, NEW r \in Rows, Is(r, {"claimed"}), Becomes(r, Reclaimed(r))
  PROVE  Alone(r) /\ (Turned(row[r], row'[r]) \/ Exhausts(row[r], row'[r]))
<1>0. row \in [Rows -> RowType] /\ row[r] \in RowType
  BY Typed
<1>1. Reclaimed(r) \in RowType
  BY <1>0 DEF Reclaimed, RowType, Open, Pending, Terminal
<1>2. Turned(row[r], Reclaimed(r)) \/ Exhausts(row[r], Reclaimed(r))
  BY <1>0 DEF Reclaimed, Turned, Exhausts, SameKey, SameHold, SameStory, Is, Pending,
              RowType
<1>3. QED
  BY <1>0, <1>1, <1>2, BecomesAlone

LEMMA CancelEffect ==
  ASSUME TypeOK, NEW r \in Rows, NEW last \in BOOLEAN, Becomes(r, CancelledRow(r, last)),
         last => Is(r, Pending \cup Terminal)
  PROVE  Alone(r) /\ IF last THEN Dropped(row[r], row'[r]) ELSE Released(row[r], row'[r])
<1>0. row \in [Rows -> RowType] /\ row[r] \in RowType
  BY Typed
<1>1. CancelledRow(r, last) \in RowType
  <2>1. (IF row[r].state \in Pending THEN "cancelled" ELSE row[r].state)
          \in {"absent"} \cup Open \cup Terminal
    BY <1>0 DEF RowType, Terminal
  <2>2. (IF Is(r, Pending) /\ row[r].refs > 0 THEN row[r].refs - 1 ELSE row[r].refs) \in Nat
    BY <1>0 DEF RowType
  <2>3. 0 \in 0..MaxConsumers /\ row[r].gen + 1 \in Nat
    BY <1>0, BrowserAssumption DEF RowType
  <2>4. CASE last
    <3> DEFINE end == IF row[r].state \in Pending THEN "cancelled" ELSE row[r].state
               next == row[r].gen + 1
    <3>1. CancelledRow(r, last)
            = [state |-> end, reuse |-> row[r].reuse, key |-> FALSE, pub |-> 0,
               refs |-> 0, gen |-> next, lease |-> "null", sess |-> 0,
               attempts |-> row[r].attempts, frozen |-> row[r].frozen,
               published |-> row[r].published]
      BY <1>0, <2>4 DEF CancelledRow, RowType
    <3>2. end \in {"absent"} \cup Open \cup Terminal /\ next \in Nat
      BY <2>1, <2>3
    <3>3. /\ row[r].reuse \in BOOLEAN /\ row[r].attempts \in Nat
          /\ row[r].frozen \in Digests \cup {None}
          /\ row[r].published \in Digests \cup {None}
      BY <1>0 DEF RowType
    <3> HIDE DEF end, next
    <3>4. QED
      BY <2>3, <3>1, <3>2, <3>3 DEF RowType
  <2>5. CASE ~last
    BY <1>0, <2>2, <2>5 DEF CancelledRow, RowType
  <2>6. QED
    BY <2>4, <2>5
<1>2. last => Dropped(row[r], CancelledRow(r, last))
  BY <1>0 DEF CancelledRow, Dropped, RowType, Is, SameStory
<1>3. ~last => Released(row[r], CancelledRow(r, last))
  BY <1>0 DEF CancelledRow, Released, RowType, Is, SameStory, SameKey
<1>4. QED
  BY <1>0, <1>1, <1>2, <1>3, BecomesAlone

LEMMA ClaimEffect ==
  ASSUME TypeOK, NEW r \in Rows, Claimable(r), Becomes(r, Claimed(r))
  PROVE  Alone(r) /\ (Turned(row[r], row'[r]) \/ Exhausts(row[r], row'[r]))
<1>0. row \in [Rows -> RowType] /\ row[r] \in RowType /\ runtime \in Nat
  BY Typed
<1>1. Claimed(r) \in RowType
  <2>1. row[r].gen + 1 \in Nat /\ row[r].attempts + 1 \in Nat
    BY <1>0 DEF RowType
  <2>2. CASE Exhausted(r)
    BY <1>0, <2>2 DEF Claimed, RowType, Terminal
  <2>3. CASE ~Exhausted(r)
    BY <1>0, <2>1, <2>3 DEF Claimed, RowType, Open, Pending
  <2>4. QED
    BY <2>2, <2>3
<1>2. Turned(row[r], Claimed(r)) \/ Exhausts(row[r], Claimed(r))
  BY <1>0 DEF Claimed, Turned, Exhausts, SameKey, SameHold, SameStory, Is, Pending,
              RowType, Claimable, Exhausted
<1>3. QED
  BY <1>0, <1>1, <1>2, BecomesAlone

LEMMA LeaseEndsEffect ==
  ASSUME TypeOK, NEW r \in Rows, LeaseEnds(r)
  PROVE  Alone(r) /\ Idem(row[r], row'[r])
<1> DEFINE new == [row[r] EXCEPT !.lease = "past"]
<1>0. row \in [Rows -> RowType] /\ row[r] \in RowType
  BY Typed
<1>1. new \in RowType /\ Idem(row[r], new)
  BY <1>0 DEF RowType, Idem, SameKey, SameHold, SameStory
<1>2. Becomes(r, new)
  BY DEF LeaseEnds, Becomes
<1>. HIDE DEF new
<1>3. QED
  BY <1>0, <1>1, <1>2, BecomesAlone

LEMMA FreezeEffect ==
  ASSUME TypeOK, NEW d \in Digests, Is(d.row, {"claimed"}),
         row' = [row EXCEPT ![d.row].state = "completing", ![d.row].frozen = d]
  PROVE  Alone(d.row) /\ Froze(row[d.row], row'[d.row], d)
<1> DEFINE r   == d.row
           new == [row[r] EXCEPT !.state = "completing", !.frozen = d]
<1>0. row \in [Rows -> RowType] /\ r \in Rows /\ row[r] \in RowType
  BY Typed DEF Digests
<1>1. new \in RowType
  BY <1>0 DEF RowType, Open
<1>2. Froze(row[r], new, d)
  BY <1>0 DEF RowType, Froze, SameKey, Is
<1>3. Becomes(r, new)
  BY <1>0 DEF Becomes
<1>. HIDE DEF new, r
<1>4. Alone(r) /\ Froze(row[r], row'[r], d)
  BY <1>0, <1>1, <1>2, <1>3, BecomesAlone
<1>5. QED
  BY <1>4 DEF r

LEMMA PublishEffect ==
  ASSUME TypeOK, NEW d \in Digests, Completing(d.row), row[d.row].frozen = d,
         Becomes(d.row, Published(d))
  PROVE  Alone(d.row) /\ Finished(row[d.row], row'[d.row], d)
<1>0. /\ row \in [Rows -> RowType] /\ d.row \in Rows /\ row[d.row] \in RowType
      /\ d.outcome \in Outcomes
  BY Typed DEF Digests
<1>1. Published(d) \in RowType
  BY <1>0 DEF Published, RowType, Outcomes, Terminal
<1>2. Finished(row[d.row], Published(d), d)
  BY <1>0 DEF Published, Finished, RowType, Completing, Is
<1>3. QED
  BY <1>0, <1>1, <1>2, BecomesAlone
-------------------------------------------------------------------------------
(* What the actions do to the rows.                                          *)

\* Who waits on a handle waits on a row that is there.
LEMMA WaitsLead ==
  ASSUME HandlesLead, NEW c \in Consumers, Waits(c)
  PROVE  /\ ~Absent(c) /\ consumer[c].handle \in Consumers /\ ~Absent(consumer[c].handle)
         /\ consumer[consumer[c].handle].row \in Rows
         /\ ~Is(consumer[consumer[c].handle].row, {"absent"})
         /\ consumer[c].row = consumer[consumer[c].handle].row
BY DEF HandlesLead, Waits

\* A handler past the reads carries a completion.
LEMMA CallsTyped ==
  ASSUME TypeOK, CallsCarryFrozen, NEW k \in Calls, call[k].pc # "idle"
  PROVE  /\ call[k].digest \in Digests /\ call[k].digest # None
         /\ call[k].digest.row \in Rows
<1>1. call[k] \in CallType
  BY Typed
<1>2. call[k].digest \in Digests \cup {None} /\ call[k].digest # None
  BY <1>1 DEF CallType, CallsCarryFrozen
<1>3. QED
  BY <1>2 DEF Digests

\* How one row moves, when a step moves it.
RowStep(r) ==
  /\ Alone(r)
  /\ LET v == row[r]
         w == row'[r]
     IN \/ \E c \in Consumers, reuse \in BOOLEAN :
             /\ Inserted(v, w, c, reuse)
             /\ reuse => \A q \in Rows : ~row[q].key
        \/ Joined(v, w) \/ Turned(v, w) \/ Exhausts(v, w) \/ Dropped(v, w)
        \/ Released(v, w) \/ Idem(v, w)
        \/ \E d \in Digests : d.row = r /\ Froze(v, w, d)
        \/ \E d \in Digests : /\ d.row = r /\ Finished(v, w, d)
                              /\ setup.formal => d \in ledger

LEMMA SubmitRows ==
  ASSUME TypeOK, NEW c \in Consumers, Submit(c)
  PROVE  row' = row \/ \E r \in Rows : RowStep(r)
<1>1. ASSUME NEW r \in Rows, NEW reuse \in BOOLEAN, InsertRow(c, r, reuse),
             reuse => \A q \in Rows : ~row[q].key
      PROVE  RowStep(r)
  BY <1>1, InsertEffect DEF RowStep
<1>2. ASSUME NEW r \in Rows, Is(r, Pending), JoinRow(c, r) PROVE RowStep(r)
  BY <1>2, JoinEffect DEF RowStep
<1>3. QED
  BY <1>1, <1>2 DEF Submit, SubmitFresh, SubmitJoin, SubmitLook, SubmitInsert

LEMMA WaiterRows ==
  ASSUME TypeOK, HandlesLead, NEW c \in Consumers, Poll(c) \/ Cancel(c) \/ WaiterLeaves(c)
  PROVE  row' = row \/ \E r \in Rows : RowStep(r)
<1>1. CASE Poll(c)
  <2>1. PICK r \in Rows : Expired(r) /\ Becomes(r, Reclaimed(r))
    BY <1>1, WaitsLead DEF Poll, Becomes
  <2>2. RowStep(r)
    BY <2>1, ReclaimEffect DEF RowStep, Expired
  <2>3. QED
    BY <2>2
<1>2. CASE Cancel(c)
  <2>0. PICK h \in {c, consumer[c].handle} :
          LET r    == consumer[h].row
              left == Active(r) \ {CancelTarget(h)}
          IN row' = row \/ (/\ Becomes(r, CancelledRow(r, left = {}))
                            /\ ~(left = {} /\ Is(r, {"completing"})))
    BY <1>2 DEF Cancel, Becomes
  <2> DEFINE r    == consumer[h].row
             left == Active(r) \ {CancelTarget(h)}
  <2>1. r \in Rows /\ ~Is(r, {"absent"}) /\ row[r] \in RowType
    BY <1>2, WaitsLead, Typed DEF Cancel
  <2>2. row' = row \/ (Becomes(r, CancelledRow(r, left = {})) /\ ~(left = {} /\ Is(r, {"completing"})))
    BY <2>0
  <2>3. CASE row' # row
    <3>1. (left = {}) => Is(r, Pending \cup Terminal)
      BY <2>1, <2>2, <2>3 DEF Is, RowType, Open
    <3>2. RowStep(r)
      BY <2>1, <2>2, <2>3, <3>1, CancelEffect DEF RowStep
    <3>3. QED
      BY <2>1, <3>2
  <2>4. QED
    BY <2>3
<1>3. QED
  BY <1>1, <1>2 DEF WaiterLeaves

LEMMA BridgeRows ==
  ASSUME TypeOK, CallsCarryFrozen, NEW k \in Calls, Prepare(k) \/ Finalize(k)
  PROVE  row' = row \/ \E r \in Rows : RowStep(r)
<1> DEFINE d == call[k].digest
<1>1. d \in Digests /\ d.row \in Rows
  BY CallsTyped DEF Prepare, Finalize
<1>2. CASE Prepare(k)
  <2>1. row' = row \/ ( /\ Is(d.row, {"claimed"})
                        /\ row' = [row EXCEPT ![d.row].state = "completing",
                                              ![d.row].frozen = d])
    BY <1>2 DEF Prepare, Freezable
  <2>2. QED
    BY <1>1, <2>1, FreezeEffect DEF RowStep
<1>3. CASE Finalize(k)
  <2>1. row' = row \/ ( /\ Completing(d.row) /\ row[d.row].frozen = d
                        /\ Becomes(d.row, Published(d)))
    BY <1>3 DEF Finalize, Becomes
  <2>2. setup.formal => d \in ledger
    BY <1>3 DEF Finalize, CallsCarryFrozen
  <2>3. QED
    BY <1>1, <2>1, <2>2, PublishEffect DEF RowStep
<1>4. QED
  BY <1>2, <1>3

\* Every step moves at most one row, and in one of these ways.
LEMMA RowSteps ==
  ASSUME TypeOK, HandlesLead, CallsCarryFrozen, [Next]_vars
  PROVE  row' = row \/ \E r \in Rows : RowStep(r)
<1>1. ASSUME NEW c \in Consumers, Submit(c) \/ Poll(c) \/ Cancel(c) \/ WaiterLeaves(c)
      PROVE  row' = row \/ \E r \in Rows : RowStep(r)
  BY <1>1, SubmitRows, WaiterRows
<1>2. ASSUME NEW r \in Rows, NEW heard \in BOOLEAN, Claim(r, heard)
      PROVE  RowStep(r)
  BY <1>2, ClaimEffect DEF Claim, Becomes, RowStep
<1>3. ASSUME NEW r \in Rows, LeaseEnds(r) PROVE RowStep(r)
  BY <1>3, LeaseEndsEffect DEF RowStep
<1>4. ASSUME NEW k \in Calls, Prepare(k) \/ Finalize(k)
      PROVE  row' = row \/ \E r \in Rows : RowStep(r)
  BY <1>4, BridgeRows
<1>5. Heartbeat \/ (\E j \in jobs : Ended(j)) \/ Restart \/ UNCHANGED vars => row' = row
  BY DEF Heartbeat, Ended, Restart, vars
<1>6. (\E k \in Handlers, j \in jobs, o \in Outcomes : Read(k, j, o))
      \/ (\E r \in Rows : Publish(r)) \/ (\E k \in Calls : Record(k) \/ HandlerDies(k))
        => row' = row
  BY DEF Read, Publish, Record, HandlerDies, StoreKept
<1>7. QED
  BY <1>1, <1>2, <1>3, <1>4, <1>5, <1>6 DEF Next, Calls
-------------------------------------------------------------------------------
(* The key, and the story of a row.                                          *)

\* However a row moves, it has the key exactly while it is reusable and open.
LEMMA KeyFollowsState ==
  ASSUME NEW v \in RowType, NEW w \in RowType,
         v.key <=> (v.reuse /\ v.state \in Open),
         \/ \E c \in Consumers, reuse \in BOOLEAN : Inserted(v, w, c, reuse)
         \/ Joined(v, w) \/ Turned(v, w) \/ Exhausts(v, w) \/ Dropped(v, w)
         \/ Released(v, w) \/ Idem(v, w)
         \/ \E d \in Digests : Froze(v, w, d) \/ Finished(v, w, d)
  PROVE  w.key <=> (w.reuse /\ w.state \in Open)
<1>0. w.key \in BOOLEAN /\ w.reuse \in BOOLEAN /\ v.key \in BOOLEAN /\ v.reuse \in BOOLEAN
  BY DEF RowType
<1>1. CASE \E c \in Consumers, reuse \in BOOLEAN : Inserted(v, w, c, reuse)
  BY <1>0, <1>1 DEF Inserted, Open, Pending
<1>2. CASE Joined(v, w) \/ Turned(v, w) \/ Released(v, w) \/ Idem(v, w)
  BY <1>0, <1>2 DEF Joined, Turned, Released, Idem, SameKey, Open
<1>3. CASE Exhausts(v, w) \/ Dropped(v, w)
  BY <1>0, <1>3 DEF Exhausts, Dropped, Open, Pending, Terminal
<1>4. CASE \E d \in Digests : Froze(v, w, d) \/ Finished(v, w, d)
  BY <1>0, <1>4 DEF Froze, Finished, SameKey, Open, Pending, Digests, Outcomes
<1>5. QED
  BY <1>1, <1>2, <1>3, <1>4

\* No step of a row breaks its key.
LEMMA KeyStep ==
  ASSUME TypeOK, KeyGuardsOpenWork, NEW r \in Rows, RowStep(r)
  PROVE  KeyGuardsOpenWork'
<1>1. \A q \in Rows \ {r} : row'[q] = row[q]
  BY DEF RowStep, Alone
<1>2. /\ row[r] \in RowType
      /\ row[r].key <=> (row[r].reuse /\ row[r].state \in Open)
      /\ \A p, q \in Rows : row[p].key /\ row[q].key => p = q
  BY Typed DEF KeyGuardsOpenWork, Is
<1>3. row'[r].key <=> (row'[r].reuse /\ row'[r].state \in Open)
  <2>1. row'[r] \in RowType
    BY DEF RowStep, Alone
  <2>2. QED
    BY <1>2, <2>1, KeyFollowsState DEF RowStep
<1>4. row'[r].key => row[r].key \/ \A q \in Rows : ~row[q].key
  BY <1>2 DEF RowStep, Inserted, Joined, Turned, Exhausts, Dropped, Released, Idem, Froze,
              Finished, SameKey
<1>5. QED
  BY <1>1, <1>2, <1>3, <1>4 DEF KeyGuardsOpenWork, Is

StoryKept(r) ==
  /\ row[r].frozen # None => row'[r].frozen = row[r].frozen
  /\ row'[r].published # row[r].published =>
       \E d \in Digests : /\ d.row = r /\ row[r].state = "completing"
                          /\ row[r].frozen = d /\ row'[r].published = d
                          /\ setup.formal => d \in ledger

LEMMA StoryStep ==
  ASSUME TypeOK, NotFrozenEarly, FrozenIsOwn, NEW r \in Rows, RowStep(r)
  PROVE  NotFrozenEarly' /\ FrozenIsOwn' /\ \A q \in Rows : StoryKept(q)
<1>1. \A q \in Rows \ {r} : row'[q] = row[q]
  BY DEF RowStep, Alone
<1>2. /\ row[r] \in RowType
      /\ row[r].state \in {"absent"} \cup Pending => row[r].frozen = None /\ row[r].published = None
      /\ row[r].frozen # None => row[r].frozen.row = r
      /\ row[r].state = "completing" => row[r].frozen # None
  BY Typed DEF NotFrozenEarly, FrozenIsOwn, Is, Completing
<1>3. /\ row'[r].state \in {"absent"} \cup Pending
           => row'[r].frozen = None /\ row'[r].published = None
      /\ row'[r].frozen # None => row'[r].frozen.row = r
      /\ row'[r].state = "completing" => row'[r].frozen # None
      /\ StoryKept(r)
  BY <1>2, NoneAssumption
  DEF RowStep, Inserted, Joined, Turned, Exhausts, Dropped, Released, Idem, Froze,
      Finished, SameStory, StoryKept, Pending, Terminal, Digests, Outcomes
<1>4. \A q \in Rows \ {r} : StoryKept(q)
  BY <1>1 DEF StoryKept
<1>5. QED
  BY <1>1, <1>3, <1>4 DEF NotFrozenEarly, FrozenIsOwn, Is, Completing
-------------------------------------------------------------------------------
(* What the handlers carry, and what the formal source is told.              *)

\* Where a call goes and what it carries then; the others stay.
CallIs(k, pc, d) ==
  /\ call' \in [Calls -> CallType]
  /\ call'[k].pc = pc /\ (pc # "idle" => call'[k].digest = d)
  /\ \A l \in Calls \ {k} : call'[l] = call[l]

LEMMA GotoCall ==
  ASSUME TypeOK, NEW k \in Calls, NEW pc \in {"prepared", "recorded"}, Goto(k, pc)
  PROVE  CallIs(k, pc, call[k].digest)
<1> DEFINE new == [call[k] EXCEPT !.pc = pc]
<1>1. call \in [Calls -> CallType] /\ call[k] \in CallType
  BY Typed
<1>2. new \in CallType /\ new.pc = pc /\ new.digest = call[k].digest
  BY <1>1 DEF CallType
<1>3. call' = [call EXCEPT ![k] = new]
  BY DEF Goto
<1>. HIDE DEF new
<1>4. QED
  BY <1>1, <1>2, <1>3 DEF CallIs

LEMMA EndsCall ==
  ASSUME TypeOK, NEW k \in Calls, Ends(k)
  PROVE  CallIs(k, "idle", None)
<1>1. call \in [Calls -> CallType] /\ IdleCall \in CallType /\ IdleCall.pc = "idle"
  BY Typed DEF CallType, IdleCall
<1>2. QED
  BY <1>1 DEF Ends, CallIs

LEMMA ReadEffect ==
  ASSUME TypeOK, FrozenIsOwn, NEW k \in Handlers, NEW j \in jobs, NEW o \in Outcomes,
         Read(k, j, o)
  PROVE  \E d \in Digests : CallIs(k, "read", d)
<1> DEFINE d   == IF Completing(j.row) THEN row[j.row].frozen
                  ELSE [row |-> j.row, gen |-> j.gen, by |-> k, outcome |-> o]
           new == [pc |-> "read", sess |-> row[j.row].sess, digest |-> d]
<1>1. /\ call \in [Calls -> CallType] /\ j.row \in Rows /\ j.gen \in Nat /\ k \in Calls
      /\ row[j.row] \in RowType
  BY Typed DEF Jobs, Calls
<1>2. d \in Digests
  <2>1. Completing(j.row) => row[j.row].frozen # None
    BY <1>1 DEF FrozenIsOwn
  <2>2. QED
    BY <1>1, <2>1 DEF RowType, Digests
<1>3. call' = [call EXCEPT ![k] = new]
  BY DEF Read
<1>. HIDE DEF d
<1>4. new \in CallType /\ new.pc = "read" /\ new.digest = d
  BY <1>1, <1>2 DEF CallType, RowType
<1>. HIDE DEF new
<1>5. QED
  BY <1>1, <1>2, <1>3, <1>4 DEF CallIs

LEMMA TakeUpEffect ==
  ASSUME TypeOK, FrozenIsOwn, NEW r \in Rows, Publish(r)
  PROVE  \E d \in Digests : CallIs(Publisher, "prepared", d) /\ row[d.row].frozen = d
<1> DEFINE d   == row[r].frozen
           new == [IdleCall EXCEPT !.pc = "prepared", !.digest = d]
<1>1. call \in [Calls -> CallType] /\ Publisher \in Calls /\ row[r] \in RowType
  BY Typed DEF Calls
<1>2. d \in Digests /\ d.row = r
  BY <1>1 DEF FrozenIsOwn, Publish, RowType
<1>3. IdleCall \in CallType
  BY DEF CallType, IdleCall
<1>4. new \in CallType /\ new.pc = "prepared" /\ new.digest = d
  BY <1>2, <1>3 DEF CallType
<1>5. call' = [call EXCEPT ![Publisher] = new]
  BY DEF Publish
<1>. HIDE DEF new
<1>6. CallIs(Publisher, "prepared", d)
  BY <1>1, <1>4, <1>5 DEF CallIs
<1>7. QED
  BY <1>2, <1>6

\* Prepare goes on only with what is frozen then.
LEMMA PrepareEffect ==
  ASSUME TypeOK, CallsCarryFrozen, NEW k \in Calls, Prepare(k)
  PROVE  LET d == call[k].digest IN
         \/ CallIs(k, "idle", None)
         \/ d \in Digests /\ CallIs(k, "prepared", d) /\ row'[d.row].frozen = d
<1> DEFINE d == call[k].digest
<1>1. d \in Digests /\ d.row \in Rows /\ row \in [Rows -> RowType]
  BY CallsTyped, Typed DEF Prepare
<1>2. CASE Is(d.row, {"claimed"}) /\ Goto(k, "prepared")
           /\ row' = [row EXCEPT ![d.row].state = "completing", ![d.row].frozen = d]
  BY <1>1, <1>2, GotoCall, FreezeEffect DEF Froze
<1>3. CASE Frozen(k) /\ Goto(k, "prepared") /\ UNCHANGED row
  BY <1>1, <1>3, GotoCall DEF Frozen
<1>4. CASE Ends(k)
  BY <1>4, EndsCall
<1>5. QED
  BY <1>2, <1>3, <1>4 DEF Prepare, Freezable

LEMMA RecordEffect ==
  ASSUME TypeOK, CallsCarryFrozen, NEW k \in Calls, Record(k)
  PROVE  LET d == call[k].digest IN
         /\ row' = row /\ setup' = setup
         /\ \/ CallIs(k, "idle", None) /\ ledger' = ledger
            \/ /\ d \in Digests /\ row[d.row].frozen = d /\ CallIs(k, "recorded", d)
               /\ \/ ~setup.formal /\ ledger' = ledger
                  \/ ledger' = ledger \cup {d}
<1> DEFINE d == call[k].digest
<1>1. d \in Digests /\ row[d.row].frozen = d
  BY CallsTyped DEF Record, CallsCarryFrozen
<1>2. QED
  BY <1>1, GotoCall, EndsCall DEF Record, StoreKept

LEMMA CallsStep ==
  ASSUME TypeOK, FrozenIsOwn, CallsCarryFrozen, OneStory,
         setup' = setup, ledger \subseteq ledger', \A q \in Rows : StoryKept(q),
         NEW k \in Calls, NEW pc \in {"idle", "read", "prepared", "recorded"},
         NEW d \in Digests \cup {None}, CallIs(k, pc, d),
         pc # "idle" => d \in Digests,
         pc \in {"prepared", "recorded"} => row'[d.row].frozen = d,
         pc = "recorded" /\ setup.formal => d \in ledger'
  PROVE  CallsCarryFrozen'
<1>1. SUFFICES ASSUME NEW l \in Calls
               PROVE  /\ call'[l].pc # "idle" => call'[l].digest # None
                      /\ call'[l].pc \in {"prepared", "recorded"}
                           => row'[call'[l].digest.row].frozen = call'[l].digest
                      /\ call'[l].pc = "recorded" /\ setup'.formal => call'[l].digest \in ledger'
  BY DEF CallsCarryFrozen
<1>2. CASE l = k
  BY <1>2, NoneAssumption DEF CallIs
<1>3. CASE l # k
  <2>1. call'[l] = call[l]
    BY <1>3 DEF CallIs
  <2>2. CASE call[l].pc = "idle"
    BY <2>1, <2>2
  <2>3. CASE call[l].pc # "idle"
    <3>1. call[l].digest # None /\ call[l].digest.row \in Rows
      BY <2>3, CallsTyped
    <3>2. /\ call[l].pc \in {"prepared", "recorded"}
               => row[call[l].digest.row].frozen = call[l].digest
          /\ call[l].pc = "recorded" /\ setup.formal => call[l].digest \in ledger
      BY DEF CallsCarryFrozen
    <3>3. call[l].pc \in {"prepared", "recorded"}
               => row'[call[l].digest.row].frozen = call[l].digest
      BY <3>1, <3>2 DEF StoryKept
    <3>4. QED
      BY <2>1, <3>1, <3>2, <3>3
  <2>4. QED
    BY <2>2, <2>3
<1>4. QED
  BY <1>2, <1>3

\* Nothing else touches what the calls carry, the ledger or the setup.
LEMMA BridgeFrame ==
  ASSUME TypeOK, FrozenIsOwn, CallsCarryFrozen, [Next]_vars
  PROVE  /\ setup' = setup
         /\ \/ call' = call /\ ledger' = ledger
            \/ \E k \in Calls : CallIs(k, "idle", None) /\ ledger' = ledger
            \/ \E k \in Calls, d \in Digests : CallIs(k, "read", d) /\ ledger' = ledger
            \/ \E k \in Calls, d \in Digests :
                 CallIs(k, "prepared", d) /\ row'[d.row].frozen = d /\ ledger' = ledger
            \/ \E k \in Calls : Record(k)
<1>1. ASSUME NEW k \in Handlers, NEW j \in jobs, NEW o \in Outcomes, Read(k, j, o)
      PROVE  /\ setup' = setup /\ ledger' = ledger
             /\ \E l \in Calls, d \in Digests : CallIs(l, "read", d)
  BY <1>1, ReadEffect DEF Read, StoreKept, Calls
<1>2. ASSUME NEW r \in Rows, Publish(r)
      PROVE  /\ setup' = setup /\ ledger' = ledger
             /\ \E k \in Calls, d \in Digests : CallIs(k, "prepared", d) /\ row'[d.row].frozen = d
  BY <1>2, TakeUpEffect DEF Publish, StoreKept, Calls
<1>3. ASSUME NEW k \in Handlers, Prepare(k)
      PROVE  /\ setup' = setup /\ ledger' = ledger
             /\ \/ \E l \in Calls : CallIs(l, "idle", None)
                \/ \E l \in Calls, d \in Digests :
                     CallIs(l, "prepared", d) /\ row'[d.row].frozen = d
  <2>1. k \in Calls /\ setup' = setup /\ ledger' = ledger
    BY <1>3 DEF Prepare, Calls
  <2>2. QED
    BY <1>3, <2>1, PrepareEffect
<1>4. ASSUME NEW k \in Calls, Finalize(k) \/ HandlerDies(k)
      PROVE  setup' = setup /\ ledger' = ledger /\ CallIs(k, "idle", None)
  BY <1>4, EndsCall DEF Finalize, HandlerDies
<1>5. ASSUME NEW k \in Calls, Record(k) PROVE setup' = setup
  BY <1>5 DEF Record, StoreKept
<1>6. ASSUME NEW c \in Consumers, Submit(c) \/ Poll(c) \/ Cancel(c) \/ WaiterLeaves(c)
      PROVE  UNCHANGED <<call, ledger, setup>>
  BY <1>6 DEF Submit, SubmitFresh, SubmitJoin, SubmitLook, SubmitInsert, Poll, Cancel,
              WaiterLeaves
<1>7. \/ Heartbeat \/ (\E r \in Rows, heard \in BOOLEAN : Claim(r, heard)) \/ Restart
      \/ (\E j \in jobs : Ended(j)) \/ (\E r \in Rows : LeaseEnds(r)) \/ UNCHANGED vars
      => UNCHANGED <<call, ledger, setup>>
  BY DEF Heartbeat, Claim, Restart, Ended, LeaseEnds, vars
<1>8. QED
  BY <1>1, <1>2, <1>3, <1>4, <1>5, <1>6, <1>7 DEF Next

LEMMA RowsStep ==
  ASSUME TypeOK, HandlesLead, CallsCarryFrozen, NotFrozenEarly, FrozenIsOwn,
         KeyGuardsOpenWork, [Next]_vars
  PROVE  NotFrozenEarly' /\ FrozenIsOwn' /\ KeyGuardsOpenWork' /\ \A q \in Rows : StoryKept(q)
<1>1. CASE row' = row
  BY <1>1 DEF NotFrozenEarly, FrozenIsOwn, KeyGuardsOpenWork, StoryKept, Is, Completing
<1>2. CASE \E r \in Rows : RowStep(r)
  BY <1>2, StoryStep, KeyStep
<1>3. QED
  BY <1>1, <1>2, RowSteps

LEMMA CarryStep ==
  ASSUME TypeOK, CallsCarryFrozen, FrozenIsOwn, OneStory, \A q \in Rows : StoryKept(q),
         [Next]_vars
  PROVE  CallsCarryFrozen'
<1>1. CASE call' = call /\ ledger' = ledger /\ setup' = setup
  <2>1. \A k \in Calls : call[k].pc # "idle" =>
          call[k].digest.row \in Rows /\ call[k].digest # None
    BY CallsTyped
  <2>2. \A k \in Calls : call[k].pc \in {"prepared", "recorded"} =>
          row'[call[k].digest.row].frozen = call[k].digest
    BY <2>1 DEF CallsCarryFrozen, StoryKept
  <2>3. QED
    BY <1>1, <2>1, <2>2 DEF CallsCarryFrozen
<1>2. ASSUME NEW k \in Calls, CallIs(k, "idle", None), ledger' = ledger, setup' = setup
      PROVE  CallsCarryFrozen'
  BY <1>2, CallsStep
<1>3. ASSUME NEW k \in Calls, NEW d \in Digests, CallIs(k, "read", d), ledger' = ledger,
             setup' = setup
      PROVE  CallsCarryFrozen'
  BY <1>3, CallsStep
<1>4. ASSUME NEW k \in Calls, NEW d \in Digests, CallIs(k, "prepared", d),
             row'[d.row].frozen = d, ledger' = ledger, setup' = setup
      PROVE  CallsCarryFrozen'
  BY <1>4, CallsStep
<1>5. ASSUME NEW k \in Calls, Record(k) PROVE CallsCarryFrozen'
  <2> DEFINE d == call[k].digest
  <2>1. row' = row /\ setup' = setup
    BY <1>5, RecordEffect
  <2>2. CASE CallIs(k, "idle", None) /\ ledger' = ledger
    BY <2>1, <2>2, <1>2
  <2>3. CASE /\ d \in Digests /\ row[d.row].frozen = d /\ CallIs(k, "recorded", d)
             /\ \/ ~setup.formal /\ ledger' = ledger
                \/ ledger' = ledger \cup {d}
    <3>1. row'[d.row].frozen = d /\ ledger \subseteq ledger' /\ (setup.formal => d \in ledger')
      BY <2>1, <2>3
    <3>. HIDE DEF d
    <3>2. QED
      BY <2>1, <2>3, <3>1, CallsStep
  <2>4. QED
    BY <1>5, <2>2, <2>3, RecordEffect
<1>6. QED
  BY <1>1, <1>2, <1>3, <1>4, <1>5, BridgeFrame

LEMMA OneStoryStep ==
  ASSUME TypeOK, CallsCarryFrozen, FrozenIsOwn, OneStory, \A q \in Rows : StoryKept(q),
         [Next]_vars
  PROVE  OneStory'
<1>0. ledger \subseteq Digests
  BY Typed
<1>1. setup' = setup /\ ledger \subseteq ledger'
  BY BridgeFrame, RecordEffect
<1>2. \A d \in ledger : row'[d.row].frozen = d
  <2>1. SUFFICES ASSUME NEW d \in ledger PROVE row'[d.row].frozen = d
    OBVIOUS
  <2>2. d.row \in Rows /\ d # None /\ row[d.row].frozen = d
    BY <1>0, NoneAssumption DEF OneStory, Digests
  <2>3. QED
    BY <2>2 DEF StoryKept
<1>3. ASSUME NEW d \in ledger' PROVE row'[d.row].frozen = d
  <2>1. d \in ledger \/ row'[d.row].frozen = d
    BY <1>3, BridgeFrame, RecordEffect
  <2>2. QED
    BY <1>2, <2>1
<1>4. ASSUME NEW r \in Rows, row'[r].published # None
      PROVE  /\ row'[r].published = row'[r].frozen
             /\ setup.formal => row'[r].published \in ledger
  <2>1. CASE row'[r].published = row[r].published
    BY <1>4, <2>1 DEF OneStory, StoryKept
  <2>2. CASE row'[r].published # row[r].published
    BY <2>2, NoneAssumption DEF StoryKept
  <2>3. QED
    BY <2>1, <2>2
<1>5. QED
  BY <1>1, <1>3, <1>4 DEF OneStory
-------------------------------------------------------------------------------
(* What the actions do to the consumers.                                     *)

ConsumersAdd(c, r, handle) ==
  /\ consumer' \in [Consumers -> ConsumerType]
  /\ consumer'[c].state = "active" /\ consumer'[c].row = r /\ consumer'[c].handle = handle
  /\ consumer'[c].primary <=> Active(r) = {}
  /\ \A d \in Consumers \ {c} : consumer'[d] = consumer[d]

LEMMA AddEffect ==
  ASSUME TypeOK, NEW c \in Consumers, NEW r \in Rows, NEW handle \in 0..MaxConsumers,
         AddConsumer(c, r, handle)
  PROVE  ConsumersAdd(c, r, handle)
<1> DEFINE new == [state |-> "active", row |-> r, primary |-> Active(r) = {},
                   handle |-> handle, waits |-> TRUE]
<1>1. consumer \in [Consumers -> ConsumerType] /\ r \in 0..MaxRows
  BY Typed, BrowserAssumption DEF Rows
<1>2. new \in ConsumerType
  BY <1>1 DEF ConsumerType
<1>3. consumer' = [consumer EXCEPT ![c] = new]
  BY DEF AddConsumer
<1>4. new.state = "active" /\ new.row = r /\ new.handle = handle
      /\ (new.primary <=> Active(r) = {})
  OBVIOUS
<1>. HIDE DEF new
<1>5. QED
  BY <1>1, <1>2, <1>3, <1>4 DEF ConsumersAdd

\* Who belongs to which row, and which of them is primary, stays.
ConsumersStay ==
  /\ consumer' \in [Consumers -> ConsumerType]
  /\ \A d \in Consumers :
       /\ consumer'[d].state = consumer[d].state /\ consumer'[d].row = consumer[d].row
       /\ consumer'[d].primary = consumer[d].primary
       /\ consumer'[d].handle = consumer[d].handle
       /\ consumer'[d].waits => consumer[d].waits

LEMMA SameStays == TypeOK /\ consumer' = consumer => ConsumersStay
BY Typed DEF ConsumersStay

LEMMA LeavesStays ==
  ASSUME TypeOK, NEW c \in Consumers,
         consumer' = [consumer EXCEPT ![c].waits = FALSE]
  PROVE  ConsumersStay
<1>1. consumer \in [Consumers -> ConsumerType]
  BY Typed
<1>2. QED
  BY <1>1 DEF ConsumersStay, ConsumerType

\* A consumer is cancelled, and the oldest of those left is primary.
ConsumersCancel(t, left) ==
  /\ consumer' \in [Consumers -> ConsumerType]
  /\ consumer'[t].state = "cancelled" /\ ~consumer'[t].primary
  /\ \A d \in Consumers :
       /\ d # t => consumer'[d].state = consumer[d].state
       /\ consumer'[d].row = consumer[d].row
       /\ consumer'[d].handle = consumer[d].handle
       /\ consumer'[d].waits => consumer[d].waits
       /\ d # t /\ left # {} /\ d = Oldest(left) => consumer'[d].primary
       /\ d # t /\ ~(left # {} /\ d = Oldest(left)) =>
            consumer'[d].primary = consumer[d].primary

LEMMA CancelledEffect ==
  ASSUME TypeOK, NEW c \in Consumers, NEW t \in Consumers, NEW left,
         consumer' = [CancelledConsumers(t, left) EXCEPT ![c].waits = FALSE]
  PROVE  ConsumersCancel(t, left)
<1> DEFINE f == CancelledConsumers(t, left)
<1>1. consumer \in [Consumers -> ConsumerType]
  BY Typed
<1>2. ASSUME NEW d \in Consumers
      PROVE  /\ f[d] \in ConsumerType
             /\ f[d].row = consumer[d].row /\ f[d].handle = consumer[d].handle
             /\ f[d].waits = consumer[d].waits
             /\ d = t => f[d].state = "cancelled" /\ ~f[d].primary
             /\ d # t => f[d].state = consumer[d].state
             /\ d # t /\ left # {} /\ d = Oldest(left) => f[d].primary
             /\ d # t /\ ~(left # {} /\ d = Oldest(left)) => f[d].primary = consumer[d].primary
  BY <1>1 DEF CancelledConsumers, ConsumerType
<1>3. f \in [Consumers -> ConsumerType]
  BY <1>2 DEF CancelledConsumers
<1>. HIDE DEF f
<1>4. consumer' = [f EXCEPT ![c] = [f[c] EXCEPT !.waits = FALSE]]
  BY DEF f
<1>5. /\ [f[c] EXCEPT !.waits = FALSE] \in ConsumerType
      /\ [f[c] EXCEPT !.waits = FALSE].state = f[c].state
      /\ [f[c] EXCEPT !.waits = FALSE].row = f[c].row
      /\ [f[c] EXCEPT !.waits = FALSE].handle = f[c].handle
      /\ [f[c] EXCEPT !.waits = FALSE].primary = f[c].primary
      /\ ~[f[c] EXCEPT !.waits = FALSE].waits
  BY <1>3 DEF ConsumerType
<1>6. /\ consumer' \in [Consumers -> ConsumerType]
      /\ \A d \in Consumers :
           /\ consumer'[d].state = f[d].state /\ consumer'[d].row = f[d].row
           /\ consumer'[d].handle = f[d].handle /\ consumer'[d].primary = f[d].primary
           /\ consumer'[d].waits => f[d].waits
  BY <1>3, <1>4, <1>5
<1>7. QED
  BY <1>2, <1>6 DEF ConsumersCancel

\* The consumer that a cancellation of handle h ends: one of h's row, and an
\* active one if that row is pending.
LEMMA TargetIs ==
  ASSUME TypeOK, HandlesLead, PendingRowIsHeld, NEW h \in Consumers, ~Absent(h)
  PROVE  LET r == consumer[h].row
             t == CancelTarget(h)
         IN /\ t \in Consumers /\ ~Absent(t) /\ consumer[t].row = r
            /\ Is(r, Pending) => t \in Active(r)
<1> DEFINE r == consumer[h].row
<1>1. r \in Rows
  BY DEF HandlesLead
<1>2. CASE consumer[h].state # "active" /\ Is(r, Pending)
  <2>1. Active(r) # {} /\ Active(r) \subseteq Consumers
    BY <1>1, <1>2 DEF PendingRowIsHeld, Active
  <2>2. Oldest(Active(r)) \in Active(r)
    BY <2>1, OldestIs
  <2>3. QED
    BY <1>2, <2>2 DEF CancelTarget, Active, Absent
<1>3. CASE ~(consumer[h].state # "active" /\ Is(r, Pending))
  BY <1>3 DEF CancelTarget, Active
<1>4. QED
  BY <1>2, <1>3

\* A cancellation either leaves the rows and the consumers as they are, or cancels
\* one consumer and takes its reference.
LEMMA CancelSplit ==
  ASSUME TypeOK, HandlesLead, PendingRowIsHeld, NEW c \in Consumers, Cancel(c)
  PROVE  \/ row' = row /\ ConsumersStay
         \/ \E r \in Rows, t \in Consumers :
              LET left == Active(r) \ {t} IN
              /\ ~Absent(t) /\ consumer[t].row = r /\ (Is(r, Pending) => t \in Active(r))
              /\ ConsumersCancel(t, left)
              /\ Alone(r)
              /\ IF left = {} THEN Dropped(row[r], row'[r]) ELSE Released(row[r], row'[r])
<1>0. PICK h \in {c, consumer[c].handle} :
        LET r    == consumer[h].row
            t    == CancelTarget(h)
            left == Active(r) \ {t}
        IN IF left = {} /\ Is(r, {"completing"})
             THEN /\ consumer' = [consumer EXCEPT ![c].waits = FALSE]
                  /\ UNCHANGED row
             ELSE /\ row' = [row EXCEPT ![r] = CancelledRow(r, left = {})]
                  /\ consumer' = [CancelledConsumers(t, left) EXCEPT ![c].waits = FALSE]
  BY DEF Cancel
<1> DEFINE r    == consumer[h].row
           t    == CancelTarget(h)
           left == Active(r) \ {t}
<1>1. h \in Consumers /\ ~Absent(h) /\ r \in Rows /\ ~Is(r, {"absent"}) /\ row[r] \in RowType
  BY WaitsLead, Typed DEF Cancel
<1>2. t \in Consumers /\ ~Absent(t) /\ consumer[t].row = r /\ (Is(r, Pending) => t \in Active(r))
  BY <1>1, TargetIs
<1>3. CASE left = {} /\ Is(r, {"completing"})
  BY <1>0, <1>3, LeavesStays
<1>4. CASE ~(left = {} /\ Is(r, {"completing"}))
  <2>1. /\ Becomes(r, CancelledRow(r, left = {}))
        /\ consumer' = [CancelledConsumers(t, left) EXCEPT ![c].waits = FALSE]
    BY <1>0, <1>4 DEF Becomes
  <2>2. (left = {}) => Is(r, Pending \cup Terminal)
    BY <1>1, <1>4 DEF Is, RowType, Open
  <2>. HIDE DEF left, t, r
  <2>3. Alone(r) /\ IF left = {} THEN Dropped(row[r], row'[r]) ELSE Released(row[r], row'[r])
    BY <1>1, <2>1, <2>2, CancelEffect
  <2>4. ConsumersCancel(t, left)
    BY <1>2, <2>1, CancelledEffect
  <2>5. QED
    BY <1>1, <1>2, <2>3, <2>4 DEF left
<1>5. QED
  BY <1>3, <1>4

\* A submission inserts a row with its first consumer, or adds a consumer to a row
\* it joins or whose quotes it takes, or leaves both as they are.
LEMMA SubmitSplit ==
  ASSUME TypeOK, HandlesLead, InsertersAreNew, PendingRowIsHeld, NEW c \in Consumers,
         Submit(c)
  PROVE  /\ Absent(c)
         /\ \/ row' = row /\ ConsumersStay
            \/ \E r \in Rows, reuse \in BOOLEAN :
                 Alone(r) /\ Inserted(row[r], row'[r], c, reuse) /\ ConsumersAdd(c, r, c)
            \/ \E r \in Rows :
                 /\ Alone(r) /\ Joined(row[r], row'[r])
                 /\ row[r].pub \in Consumers /\ ConsumersAdd(c, r, row[r].pub)
            \/ \E r \in Rows :
                 row' = row /\ Is(r, {"succeeded"}) /\ ConsumersAdd(c, r, c)
<1>a. NextConsumer(c) => Absent(c)
  <2>1. c \in c..MaxConsumers
    BY BrowserAssumption DEF Consumers
  <2>2. QED
    BY <2>1 DEF NextConsumer, Numbered
<1>b. Absent(c)
  BY <1>a DEF Submit, SubmitFresh, SubmitJoin, SubmitLook, SubmitInsert, InsertersAreNew
<1>0. MaxConsumers \in Nat /\ c \in 0..MaxConsumers /\ Absent(c)
  BY <1>b, BrowserAssumption DEF Consumers
<1>1. ASSUME NEW r \in Rows, NEW reuse \in BOOLEAN, InsertRow(c, r, reuse)
      PROVE  Alone(r) /\ Inserted(row[r], row'[r], c, reuse) /\ ConsumersAdd(c, r, c)
  BY <1>0, <1>1, InsertEffect, AddEffect
<1>2. ASSUME NEW r \in Rows, Is(r, Pending), JoinRow(c, r)
      PROVE  /\ Alone(r) /\ Joined(row[r], row'[r])
             /\ row[r].pub \in Consumers /\ ConsumersAdd(c, r, row[r].pub)
  <2>1. row[r].pub \in Consumers /\ row[r].pub \in 0..MaxConsumers
    BY <1>0, <1>2 DEF PendingRowIsHeld, Consumers
  <2>2. QED
    BY <1>2, <2>1, JoinEffect, AddEffect
<1>3. ASSUME NEW r \in Rows, AddConsumer(c, r, c) PROVE ConsumersAdd(c, r, c)
  BY <1>0, <1>3, AddEffect
<1>4. CASE SubmitFresh(c)
  BY <1>0, <1>1, <1>4 DEF SubmitFresh
<1>5. CASE SubmitJoin(c)
  BY <1>0, <1>2, <1>3, <1>5 DEF SubmitJoin
<1>6. CASE SubmitLook(c)
  BY <1>0, <1>6, SameStays DEF SubmitLook
<1>7. CASE SubmitInsert(c)
  BY <1>0, <1>1, <1>2, <1>7, SameStays DEF SubmitInsert
<1>8. QED
  BY <1>4, <1>5, <1>6, <1>7 DEF Submit

\* No other step makes a row or a reference, or gives a task another public id.
OldRow(q) ==
  /\ ~Is(q, {"absent"}) => ~Is(q, {"absent"})'
  /\ row'[q].pub = row[q].pub
  /\ Is(q, Pending)' => Is(q, Pending) /\ SameHold(row[q], row'[q])

LEMMA OldRows ==
  ASSUME TypeOK, HandlesLead, CallsCarryFrozen, [Next]_vars,
         ~\E c \in Consumers : Submit(c) \/ Cancel(c)
  PROVE  ConsumersStay /\ \A q \in Rows : OldRow(q)
<1>1. ASSUME NEW r \in Rows, Alone(r), OldRow(r) PROVE \A q \in Rows : OldRow(q)
  BY <1>1 DEF Alone, OldRow, Is, SameHold
<1>2. row' = row => \A q \in Rows : OldRow(q)
  BY DEF OldRow, Is, SameHold
<1>3. ASSUME NEW r \in Rows,
             \/ Turned(row[r], row'[r]) \/ Exhausts(row[r], row'[r]) \/ Idem(row[r], row'[r])
             \/ \E d \in Digests : Froze(row[r], row'[r], d) \/ Finished(row[r], row'[r], d)
      PROVE  OldRow(r)
  BY <1>3 DEF OldRow, Is, Turned, Exhausts, Idem, Froze, Finished, SameHold, Pending,
              Digests, Outcomes
<1>4. ASSUME NEW c \in Consumers, Poll(c) PROVE ConsumersStay /\ \A q \in Rows : OldRow(q)
  <2>1. PICK r \in Rows : Expired(r) /\ Becomes(r, Reclaimed(r))
    BY <1>4, WaitsLead DEF Poll, Becomes
  <2>2. Alone(r) /\ OldRow(r)
    BY <1>3, <2>1, ReclaimEffect DEF Expired
  <2>3. QED
    BY <1>1, <1>4, <2>2, SameStays DEF Poll
<1>5. ASSUME NEW r \in Rows, NEW heard \in BOOLEAN, Claim(r, heard)
      PROVE  ConsumersStay /\ \A q \in Rows : OldRow(q)
  <2>1. Alone(r) /\ OldRow(r)
    BY <1>3, <1>5, ClaimEffect DEF Claim, Becomes
  <2>2. QED
    BY <1>1, <1>5, <2>1, SameStays DEF Claim
<1>6. ASSUME NEW r \in Rows, LeaseEnds(r) PROVE ConsumersStay /\ \A q \in Rows : OldRow(q)
  <2>1. Alone(r) /\ OldRow(r)
    BY <1>3, <1>6, LeaseEndsEffect
  <2>2. QED
    BY <1>1, <1>6, <2>1, SameStays DEF LeaseEnds
<1>7. ASSUME NEW k \in Calls, Prepare(k) \/ Finalize(k)
      PROVE  ConsumersStay /\ \A q \in Rows : OldRow(q)
  <2> DEFINE d == call[k].digest
  <2>1. d \in Digests /\ d.row \in Rows
    BY <1>7, CallsTyped DEF Prepare, Finalize
  <2>2. \/ row' = row
        \/ /\ Is(d.row, {"claimed"})
           /\ row' = [row EXCEPT ![d.row].state = "completing", ![d.row].frozen = d]
        \/ Completing(d.row) /\ row[d.row].frozen = d /\ Becomes(d.row, Published(d))
    BY <1>7 DEF Prepare, Freezable, Finalize, Becomes
  <2>3. consumer' = consumer
    BY <1>7 DEF Prepare, Finalize
  <2>. HIDE DEF d
  <2>4. row' = row \/ (Alone(d.row) /\ OldRow(d.row))
    BY <1>3, <2>1, <2>2, FreezeEffect, PublishEffect
  <2>5. QED
    BY <1>1, <1>2, <2>1, <2>3, <2>4, SameStays
<1>8. ASSUME NEW c \in Consumers, WaiterLeaves(c)
      PROVE  ConsumersStay /\ \A q \in Rows : OldRow(q)
  BY <1>2, <1>8, LeavesStays DEF WaiterLeaves
<1>9. ASSUME \/ Heartbeat \/ (\E j \in jobs : Ended(j)) \/ Restart \/ UNCHANGED vars
             \/ \E k \in Handlers, j \in jobs, o \in Outcomes : Read(k, j, o)
             \/ \E r \in Rows : Publish(r)
             \/ \E k \in Calls : Record(k) \/ HandlerDies(k)
      PROVE  row' = row /\ consumer' = consumer
  BY <1>9 DEF Heartbeat, Ended, Restart, vars, Read, Publish, Record, HandlerDies, StoreKept
<1>10. ASSUME row' = row, consumer' = consumer
       PROVE  ConsumersStay /\ \A q \in Rows : OldRow(q)
  BY <1>2, <1>10, SameStays
<1>11. \A k \in Handlers : k \in Calls
  BY DEF Calls
<1>12. QED
  BY <1>4, <1>5, <1>6, <1>7, <1>8, <1>9, <1>10, <1>11 DEF Next
-------------------------------------------------------------------------------
(* The consumers of a row.                                                   *)

LEMMA ActiveFinite ==
  ASSUME NEW r
  PROVE  Active(r) \subseteq Consumers /\ IsFiniteSet(Active(r))
<1>1. IsFiniteSet(Consumers)
  BY BrowserAssumption, FS_Interval DEF Consumers
<1>2. QED
  BY <1>1, FS_Subset DEF Active

Held(r) ==
  Is(r, Pending) =>
    /\ row[r].pub \in Consumers
    /\ row[r].refs = Cardinality(Active(r))
    /\ \E c \in Active(r) : consumer[c].primary

LEMMA HeldDef == PendingRowIsHeld <=> \A r \in Rows : Held(r)
BY DEF PendingRowIsHeld, Held

\* A row whose consumers and references stay is held as before.
LEMMA HeldKept ==
  ASSUME NEW q \in Rows, Held(q),
         Is(q, Pending)' => Is(q, Pending) /\ SameHold(row[q], row'[q]),
         Active(q)' = Active(q),
         \A d \in Active(q) : consumer'[d].primary = consumer[d].primary
  PROVE  Held(q)'
<1>1. SUFFICES ASSUME Is(q, Pending)' PROVE Held(q)'
  BY DEF Held
<1>2. (\E c \in Active(q) : consumer[c].primary) => \E c \in Active(q)' : consumer'[c].primary
  OBVIOUS
<1>3. QED
  BY <1>1, <1>2 DEF Held, SameHold

LEMMA StayActive ==
  ASSUME ConsumersStay, NEW q
  PROVE  /\ Active(q)' = Active(q)
         /\ \A d \in Active(q) : consumer'[d].primary = consumer[d].primary
BY DEF ConsumersStay, Active

\* The consumers when one is added to r.
LEMMA AddActive ==
  ASSUME NEW c \in Consumers, Absent(c), NEW r \in Rows, NEW h, ConsumersAdd(c, r, h)
  PROVE  /\ Active(r)' = Active(r) \cup {c} /\ c \notin Active(r)
         /\ \A q \in Rows \ {r} : Active(q)' = Active(q) /\ c \notin Active(q)
         /\ \A q \in Rows : \A d \in Active(q) : consumer'[d].primary = consumer[d].primary
BY DEF ConsumersAdd, Active, Absent

\* The first consumer of a new row is its primary.
LEMMA InsertHeld ==
  ASSUME NEW c \in Consumers, Absent(c), HandlesLead, NEW r \in Rows, NEW reuse,
         ConsumersAdd(c, r, c), Inserted(row[r], row'[r], c, reuse)
  PROVE  Held(r)'
<1>1. Active(r) = {}
  BY DEF HandlesLead, Active, Absent, Is, Inserted
<1>2. Active(r)' = {c} /\ consumer'[c].primary
  BY <1>1, AddActive DEF ConsumersAdd
<1>3. Cardinality({c}) = 1
  BY FS_Singleton
<1>4. row'[r].pub = c /\ row'[r].refs = 1
  BY DEF Inserted
<1>5. QED
  BY <1>2, <1>3, <1>4 DEF Held

\* One more reference: whoever was primary is.
LEMMA JoinHeld ==
  ASSUME NEW c \in Consumers, Absent(c), NEW r \in Rows, Held(r), NEW h,
         ConsumersAdd(c, r, h), Joined(row[r], row'[r])
  PROVE  Held(r)'
<1> DEFINE A == Active(r)
<1>1. /\ row[r].pub \in Consumers /\ row[r].refs = Cardinality(A)
      /\ \E d \in A : consumer[d].primary
  BY DEF Held, Joined, Is
<1>2. /\ Active(r)' = A \cup {c} /\ c \notin A
      /\ \A d \in A : consumer'[d].primary = consumer[d].primary
  BY AddActive
<1>3. IsFiniteSet(A)
  BY ActiveFinite
<1>. HIDE DEF A
<1>4. Cardinality(A \cup {c}) = Cardinality(A) + 1
  BY <1>2, <1>3, FS_AddElement
<1>5. \E d \in A \cup {c} : consumer'[d].primary
  BY <1>1, <1>2
<1>6. row'[r].pub = row[r].pub /\ row'[r].refs = row[r].refs + 1
  BY DEF Joined
<1>7. QED
  BY <1>1, <1>2, <1>4, <1>5, <1>6 DEF Held

\* One reference less: of the consumers left the oldest is primary now.
LEMMA CancelHeld ==
  ASSUME NEW r \in Rows, Held(r), NEW t \in Consumers, ~Absent(t), consumer[t].row = r,
         Is(r, Pending) => t \in Active(r), ConsumersCancel(t, Active(r) \ {t}),
         IF Active(r) \ {t} = {} THEN Dropped(row[r], row'[r]) ELSE Released(row[r], row'[r])
  PROVE  Held(r)'
<1> DEFINE A    == Active(r)
           left == A \ {t}
<1>1. SUFFICES ASSUME Is(r, Pending)' PROVE Held(r)'
  BY DEF Held
<1>2. left # {} /\ Released(row[r], row'[r]) /\ Is(r, Pending) /\ t \in A
  BY <1>1 DEF Dropped, Released, Is, Pending, Terminal
<1>3. row[r].pub \in Consumers /\ row[r].refs = Cardinality(A)
  BY <1>2 DEF Held
<1>4. A \subseteq Consumers /\ IsFiniteSet(A) /\ Cardinality(A) \in Nat /\ Cardinality(A) > 0
  BY <1>2, ActiveFinite, FS_CardinalityType, FS_EmptySet
<1>5. Active(r)' = left
  BY DEF ConsumersCancel, Active
<1>6. ConsumersCancel(t, left)
  OBVIOUS
<1>. HIDE DEF A
<1>7. Cardinality(left) = Cardinality(A) - 1 /\ row'[r].refs = row[r].refs - 1
      /\ row'[r].pub = row[r].pub
  BY <1>2, <1>3, <1>4, FS_RemoveElement DEF Released, Is
<1>8. Oldest(left) \in left /\ Oldest(left) \in Consumers /\ Oldest(left) # t
  BY <1>2, <1>4, OldestIs
<1>9. consumer'[Oldest(left)].primary
  BY <1>2, <1>6, <1>8 DEF ConsumersCancel
<1>10. QED
  BY <1>2, <1>3, <1>5, <1>7, <1>8, <1>9 DEF Held

LEMMA HeldStep ==
  ASSUME TypeOK, HandlesLead, CallsCarryFrozen, InsertersAreNew, PendingRowIsHeld, [Next]_vars
  PROVE  PendingRowIsHeld'
<1>1. \A q \in Rows : Held(q)
  BY HeldDef
<1>2. SUFFICES ASSUME NEW q \in Rows PROVE Held(q)'
  BY DEF PendingRowIsHeld, Held
<1>3. ASSUME ConsumersStay, row' = row PROVE Held(q)'
  BY <1>1, <1>3, HeldKept, StayActive DEF Is, SameHold
<1>4. ASSUME NEW c \in Consumers, Submit(c) PROVE Held(q)'
  <2>1. Absent(c)
    BY <1>4, SubmitSplit
  <2>2. ASSUME NEW r \in Rows, NEW h, ConsumersAdd(c, r, h), q # r, row'[q] = row[q]
        PROVE  Held(q)'
    BY <1>1, <2>1, <2>2, AddActive, HeldKept DEF Is, SameHold
  <2>3. ASSUME NEW r \in Rows, NEW reuse \in BOOLEAN, Alone(r),
               Inserted(row[r], row'[r], c, reuse), ConsumersAdd(c, r, c)
        PROVE  Held(q)'
    <3>1. CASE q = r
      BY <2>1, <2>3, <3>1, InsertHeld
    <3>2. CASE q # r
      BY <2>2, <2>3, <3>2 DEF Alone
    <3>3. QED
      BY <3>1, <3>2
  <2>4. ASSUME NEW r \in Rows, Alone(r), Joined(row[r], row'[r]), row[r].pub \in Consumers,
               ConsumersAdd(c, r, row[r].pub)
        PROVE  Held(q)'
    <3>1. CASE q = r
      BY <1>1, <2>1, <2>4, <3>1, JoinHeld
    <3>2. CASE q # r
      BY <2>2, <2>4, <3>2 DEF Alone
    <3>3. QED
      BY <3>1, <3>2
  <2>5. ASSUME NEW r \in Rows, row' = row, Is(r, {"succeeded"}), ConsumersAdd(c, r, c)
        PROVE  Held(q)'
    <3>1. CASE q = r
      BY <2>5, <3>1 DEF Held, Is, Pending
    <3>2. CASE q # r
      BY <2>2, <2>5, <3>2
    <3>3. QED
      BY <3>1, <3>2
  <2>6. QED
    BY <1>3, <1>4, <2>3, <2>4, <2>5, SubmitSplit
<1>5. ASSUME NEW c \in Consumers, Cancel(c) PROVE Held(q)'
  <2>1. ASSUME NEW r \in Rows, NEW t \in Consumers, ~Absent(t), consumer[t].row = r,
               Is(r, Pending) => t \in Active(r),
               ConsumersCancel(t, Active(r) \ {t}), Alone(r),
               IF Active(r) \ {t} = {} THEN Dropped(row[r], row'[r])
                                       ELSE Released(row[r], row'[r])
        PROVE  Held(q)'
    <3>1. CASE q = r
      BY <1>1, <2>1, <3>1, CancelHeld
    <3>2. CASE q # r
      <4>1. t \notin Active(q) /\ row'[q] = row[q]
        BY <2>1, <3>2 DEF Active, Alone
      <4>2. Active(q)' = Active(q)
        BY <2>1, <3>2, <4>1 DEF Active, ConsumersCancel
      <4>3. ASSUME NEW d \in Active(q) PROVE consumer'[d].primary = consumer[d].primary
        <5>1. d # t /\ d \notin Active(r) \ {t} /\ d \in Consumers
          BY <3>2, <4>1 DEF Active
        <5>2. Active(r) \ {t} # {} => Oldest(Active(r) \ {t}) \in Active(r) \ {t}
          BY ActiveFinite, OldestIs
        <5>3. QED
          BY <2>1, <5>1, <5>2 DEF ConsumersCancel
      <4>4. QED
        BY <1>1, <4>1, <4>2, <4>3, HeldKept DEF Is, SameHold
    <3>3. QED
      BY <3>1, <3>2
  <2>2. QED
    BY <1>3, <1>5, <2>1, CancelSplit
<1>6. CASE ~\E c \in Consumers : Submit(c) \/ Cancel(c)
  <2>1. ConsumersStay /\ OldRow(q)
    BY <1>6, OldRows
  <2>2. QED
    BY <1>1, <2>1, StayActive, HeldKept DEF OldRow
<1>7. QED
  BY <1>4, <1>5, <1>6

\* How the consumers and the public ids move.
LEMMA LeadStep ==
  ASSUME TypeOK, HandlesLead, CallsCarryFrozen, InsertersAreNew, PendingRowIsHeld, [Next]_vars
  PROVE  HandlesLead'
<1>0. /\ \A c \in Consumers : ~Absent(c) =>
           /\ consumer[c].row \in Rows /\ ~Is(consumer[c].row, {"absent"})
           /\ consumer[c].handle \in Consumers /\ ~Absent(consumer[c].handle)
           /\ consumer[consumer[c].handle].row = consumer[c].row
      /\ \A c \in Consumers : Absent(c) => ~consumer[c].waits
      /\ \A r \in Rows : row[r].pub # 0 =>
           ~Absent(row[r].pub) /\ consumer[row[r].pub].row = r
      /\ \A r \in Rows : row[r].pub \in 0..MaxConsumers
  BY Typed DEF HandlesLead, RowType
<1>1. \A n : n \in 0..MaxConsumers /\ n # 0 => n \in Consumers
  BY BrowserAssumption DEF Consumers
<1>2. ASSUME \A c \in Consumers : /\ Absent(c)' <=> Absent(c)
                                  /\ consumer'[c].row = consumer[c].row
                                  /\ consumer'[c].handle = consumer[c].handle
                                  /\ consumer'[c].waits => consumer[c].waits,
             \A r \in Rows : /\ ~Is(r, {"absent"}) => ~Is(r, {"absent"})'
                             /\ row'[r].pub = row[r].pub \/ row'[r].pub = 0
      PROVE  HandlesLead'
  <2>2. \A c \in Consumers : Absent(c)' => ~consumer'[c].waits
    BY <1>0, <1>2
  <2>3. \A r \in Rows : row'[r].pub # 0 =>
          consumer'[row'[r].pub].state # "absent" /\ consumer'[row'[r].pub].row = r
    BY <1>0, <1>1, <1>2 DEF Absent, Is
  <2>4. ASSUME NEW c \in Consumers, ~Absent(c)'
        PROVE  /\ consumer'[c].row \in Rows /\ row'[consumer'[c].row].state # "absent"
               /\ consumer'[c].handle \in Consumers /\ consumer'[consumer'[c].handle].state # "absent"
               /\ consumer'[consumer'[c].handle].row = consumer'[c].row
    BY <1>0, <1>2, <2>4 DEF Absent, Is
  <2>5. QED
    BY <2>2, <2>3, <2>4 DEF HandlesLead, Absent, Is
<1>3. ASSUME NEW c \in Consumers, Absent(c), NEW r \in Rows, NEW h \in Consumers,
             ConsumersAdd(c, r, h), h = c \/ (~Absent(h) /\ consumer[h].row = r),
             ~Is(r, {"absent"})', \A q \in Rows : ~Is(q, {"absent"}) => ~Is(q, {"absent"})',
             \A q \in Rows : row'[q].pub = row[q].pub \/ (q = r /\ row'[q].pub = c)
      PROVE  HandlesLead'
  <2>0. /\ Absent(c)
        /\ \A d \in Consumers \ {c} : consumer'[d] = consumer[d]
        /\ consumer'[c].state = "active" /\ consumer'[c].row = r /\ consumer'[c].handle = h
    BY <1>3 DEF ConsumersAdd
  <2>1. ~Absent(c)' /\ \A d \in Consumers \ {c} : Absent(d)' <=> Absent(d)
    BY <2>0 DEF Absent
  <2>3. \A d \in Consumers : Absent(d)' => ~consumer'[d].waits
    BY <1>0, <2>0, <2>1
  <2>4. ASSUME NEW q \in Rows, row'[q].pub # 0
        PROVE  consumer'[row'[q].pub].state # "absent" /\ consumer'[row'[q].pub].row = q
    <3>1. CASE q = r /\ row'[q].pub = c
      BY <2>0, <2>1, <3>1 DEF Absent, Is
    <3>2. CASE row'[q].pub = row[q].pub
      <4>1. row[q].pub \in Consumers /\ ~Absent(row[q].pub) /\ consumer[row[q].pub].row = q
        BY <1>0, <1>1, <2>4, <3>2
      <4>2. row[q].pub # c
        BY <2>0, <4>1
      <4>3. QED
        BY <2>0, <2>1, <3>2, <4>1, <4>2 DEF Absent, Is
    <3>3. QED
      BY <1>3, <3>1, <3>2
  <2>5. ASSUME NEW d \in Consumers, ~Absent(d)'
        PROVE  /\ consumer'[d].row \in Rows /\ row'[consumer'[d].row].state # "absent"
               /\ consumer'[d].handle \in Consumers /\ consumer'[consumer'[d].handle].state # "absent"
               /\ consumer'[consumer'[d].handle].row = consumer'[d].row
    <3>1. CASE d = c
      BY <1>3, <2>0, <2>1, <3>1 DEF Absent, Is
    <3>2. CASE d # c
      <4>1. ~Absent(d) /\ consumer'[d] = consumer[d]
        BY <2>0, <2>1, <2>5, <3>2
      <4>2. /\ consumer[d].row \in Rows /\ ~Is(consumer[d].row, {"absent"})
            /\ consumer[d].handle \in Consumers /\ ~Absent(consumer[d].handle)
            /\ consumer[consumer[d].handle].row = consumer[d].row
        BY <1>0, <4>1
      <4>3. consumer[d].handle # c
        BY <2>0, <4>2
      <4>4. QED
        BY <1>3, <2>0, <2>1, <4>1, <4>2, <4>3 DEF Absent, Is
    <3>3. QED
      BY <3>1, <3>2
  <2>6. QED
    BY <2>3, <2>4, <2>5 DEF HandlesLead, Absent, Is
<1>4. ASSUME NEW c \in Consumers, Submit(c) PROVE HandlesLead'
  <2>1. Absent(c)
    BY <1>4, SubmitSplit
  <2>2. CASE row' = row /\ ConsumersStay
    BY <1>2, <2>2 DEF ConsumersStay, Absent, Is
  <2>3. ASSUME NEW r \in Rows, NEW reuse \in BOOLEAN, Alone(r),
               Inserted(row[r], row'[r], c, reuse), ConsumersAdd(c, r, c)
        PROVE  HandlesLead'
    <3>1. /\ ~Is(r, {"absent"})'
          /\ \A q \in Rows : ~Is(q, {"absent"}) => ~Is(q, {"absent"})'
          /\ \A q \in Rows : row'[q].pub = row[q].pub \/ (q = r /\ row'[q].pub = c)
      BY <2>3 DEF Alone, Inserted, Is
    <3>2. QED
      BY <1>3, <2>1, <2>3, <3>1
  <2>4. ASSUME NEW r \in Rows, Alone(r), Joined(row[r], row'[r]), row[r].pub \in Consumers,
               ConsumersAdd(c, r, row[r].pub)
        PROVE  HandlesLead'
    <3>1. /\ ~Is(r, {"absent"})'
          /\ \A q \in Rows : ~Is(q, {"absent"}) => ~Is(q, {"absent"})'
          /\ \A q \in Rows : row'[q].pub = row[q].pub
      BY <2>4 DEF Alone, Joined, Is, Pending
    <3>2. ~Absent(row[r].pub) /\ consumer[row[r].pub].row = r
      BY <1>0, <2>4, BrowserAssumption DEF Consumers
    <3>3. QED
      BY <1>3, <2>1, <2>4, <3>1, <3>2
  <2>5. ASSUME NEW r \in Rows, row' = row, Is(r, {"succeeded"}), ConsumersAdd(c, r, c)
        PROVE  HandlesLead'
    <3>1. /\ ~Is(r, {"absent"})'
          /\ \A q \in Rows : ~Is(q, {"absent"}) => ~Is(q, {"absent"})'
          /\ \A q \in Rows : row'[q].pub = row[q].pub
      BY <2>5 DEF Is
    <3>2. QED
      BY <1>3, <2>1, <2>5, <3>1
  <2>6. QED
    BY <1>4, <2>2, <2>3, <2>4, <2>5, SubmitSplit
<1>5. ASSUME NEW c \in Consumers, Cancel(c) PROVE HandlesLead'
  <2>1. CASE row' = row /\ ConsumersStay
    BY <1>2, <2>1 DEF ConsumersStay, Absent, Is
  <2>2. ASSUME NEW r \in Rows, NEW t \in Consumers, ~Absent(t),
               ConsumersCancel(t, Active(r) \ {t}), Alone(r),
               Dropped(row[r], row'[r]) \/ Released(row[r], row'[r])
        PROVE  HandlesLead'
    <3>1. \A d \in Consumers : /\ Absent(d)' <=> Absent(d)
                               /\ consumer'[d].row = consumer[d].row
                               /\ consumer'[d].handle = consumer[d].handle
                               /\ consumer'[d].waits => consumer[d].waits
      BY <2>2 DEF ConsumersCancel, Absent
    <3>2. \A q \in Rows : /\ ~Is(q, {"absent"}) => ~Is(q, {"absent"})'
                          /\ row'[q].pub = row[q].pub \/ row'[q].pub = 0
      BY <2>2 DEF Alone, Dropped, Released, Is, Pending, Terminal
    <3>3. QED
      BY <1>2, <3>1, <3>2
  <2>3. QED
    BY <1>5, <2>1, <2>2, CancelSplit
<1>6. CASE ~\E c \in Consumers : Submit(c) \/ Cancel(c)
  <2>1. ConsumersStay /\ \A q \in Rows : OldRow(q)
    BY <1>6, OldRows
  <2>2. QED
    BY <1>2, <2>1 DEF ConsumersStay, OldRow, Absent
<1>7. QED
  BY <1>4, <1>5, <1>6

\* Only a submission makes a consumer row, and then it is no longer inserting.
LEMMA InsertersStep ==
  ASSUME TypeOK, HandlesLead, CallsCarryFrozen, InsertersAreNew, PendingRowIsHeld,
         [Next]_vars
  PROVE  InsertersAreNew'
<1>0. inserting \subseteq Consumers
  BY Typed
<1>1. ASSUME NEW c \in Consumers, Submit(c) PROVE InsertersAreNew'
  <2>1. \A d \in Consumers \ {c} : consumer'[d].state = consumer[d].state
    BY <1>1, SubmitSplit DEF ConsumersStay, ConsumersAdd
  <2>2. \/ SubmitLook(c) /\ consumer' = consumer /\ inserting' = inserting \cup {c}
        \/ c \notin inserting'
    <3>1. NextConsumer(c) => c \notin inserting
      <4>1. c \in c..MaxConsumers
        BY BrowserAssumption DEF Consumers
      <4>2. QED
        BY <4>1 DEF NextConsumer, Numbered
    <3>2. QED
      BY <1>1, <3>1 DEF Submit, SubmitFresh, SubmitJoin, SubmitLook, SubmitInsert
  <2>3. inserting' \subseteq inserting \cup {c}
    BY <1>1 DEF Submit, SubmitFresh, SubmitJoin, SubmitLook, SubmitInsert
  <2>4. Absent(c)
    BY <1>1, SubmitSplit
  <2>5. QED
    BY <1>0, <2>1, <2>2, <2>3, <2>4 DEF InsertersAreNew, Absent
<1>2. ASSUME NEW c \in Consumers, Cancel(c) PROVE InsertersAreNew'
  <2>1. inserting' = inserting
    BY <1>2 DEF Cancel
  <2>2. \A d \in Consumers : Absent(d) => consumer'[d].state = consumer[d].state
    BY <1>2, CancelSplit DEF ConsumersStay, ConsumersCancel
  <2>3. QED
    BY <1>0, <2>1, <2>2 DEF InsertersAreNew, Absent
<1>3. CASE ~\E c \in Consumers : Submit(c) \/ Cancel(c)
  <2>1. \A d \in Consumers : consumer'[d].state = consumer[d].state
    BY <1>3, OldRows DEF ConsumersStay
  <2>2. inserting' = inserting
    BY <1>3 DEF Next, vars, Poll, WaiterLeaves, Heartbeat, Claim, Ended, Restart, LeaseEnds,
                Read, Prepare, Publish, Record, Finalize, HandlerDies, StoreKept
  <2>3. QED
    BY <1>0, <2>1, <2>2 DEF InsertersAreNew, Absent
<1>4. QED
  BY <1>1, <1>2, <1>3
-------------------------------------------------------------------------------
(* The types.                                                                *)

\* A poll hands out a lease of a row that is held, so the task has a public id.
LEMMA StartedTyped ==
  ASSUME TypeOK, PendingRowIsHeld, NEW r \in Rows, Claimable(r), NEW heard \in BOOLEAN,
         Claim(r, heard)
  PROVE  jobs' \subseteq Jobs
<1>1. row[r].pub \in Consumers
  BY DEF PendingRowIsHeld, Claimable, Is, Pending
<1>2. row[r].gen + 1 \in Nat /\ runtime \in Nat /\ jobs \subseteq Jobs
  BY Typed DEF RowType
<1>3. Started(r) \subseteq Jobs
  BY <1>1, <1>2 DEF Started, Jobs
<1>4. QED
  BY <1>2, <1>3 DEF Claim

\* What is not in a row or a consumer.
LEMMA RestTypes ==
  ASSUME TypeOK, PendingRowIsHeld, CallsCarryFrozen, [Next]_vars
  PROVE  /\ inserting' \subseteq Consumers /\ session' \in Nat /\ runtime' \in Nat
         /\ jobs' \subseteq Jobs /\ spent' \in SpentType
<1> DEFINE Goal == /\ inserting' \subseteq Consumers /\ session' \in Nat /\ runtime' \in Nat
                   /\ jobs' \subseteq Jobs /\ spent' \in SpentType
<1>0. /\ inserting \subseteq Consumers /\ session \in Nat /\ runtime \in Nat
      /\ jobs \subseteq Jobs /\ spent \in SpentType
      /\ setup.restarts \in Nat /\ setup.crashes \in Nat
  BY Typed, SetupTyped
<1>1. UNCHANGED <<inserting, session, runtime, jobs, spent>> => Goal
  BY <1>0
<1>2. ASSUME NEW c \in Consumers, Submit(c) PROVE Goal
  <2>1. UNCHANGED <<session, runtime, jobs, spent>>
    BY <1>2 DEF Submit, SubmitFresh, SubmitJoin, SubmitLook, SubmitInsert
  <2>2. inserting' \in {inserting, inserting \cup {c}, inserting \ {c}}
    BY <1>2 DEF Submit, SubmitFresh, SubmitJoin, SubmitLook, SubmitInsert
  <2>3. inserting' \subseteq Consumers
    BY <1>0, <2>2
  <2>4. QED
    BY <1>0, <2>1, <2>3
<1>3. Heartbeat => Goal
  BY <1>0 DEF Heartbeat
<1>4. ASSUME NEW r \in Rows, NEW heard \in BOOLEAN, Claim(r, heard) PROVE Goal
  <2>1. jobs' \subseteq Jobs
    BY <1>4, StartedTyped DEF Claim
  <2>2. QED
    BY <1>0, <1>4, <2>1 DEF Claim
<1>5. ASSUME NEW j \in jobs, Ended(j) PROVE Goal
  BY <1>0, <1>5 DEF Ended
<1>6. Restart => Goal
  <2>1. SUFFICES ASSUME Restart PROVE Goal
    OBVIOUS
  <2>2. spent' \in SpentType
    BY <1>0, <2>1 DEF Restart, SpentType
  <2>3. QED
    BY <1>0, <2>1, <2>2 DEF Restart
<1>7. ASSUME NEW k \in Calls, HandlerDies(k) PROVE Goal
  <2>1. spent' \in SpentType
    BY <1>0, <1>7 DEF HandlerDies, SpentType
  <2>2. QED
    BY <1>0, <1>7, <2>1 DEF HandlerDies
<1>8. ASSUME \/ \E c \in Consumers : Poll(c) \/ Cancel(c) \/ WaiterLeaves(c)
             \/ \E r \in Rows : LeaseEnds(r) \/ Publish(r)
             \/ \E k \in Handlers, j \in jobs, o \in Outcomes : Read(k, j, o)
             \/ \E k \in Handlers : Prepare(k)
             \/ \E k \in Calls : Record(k) \/ Finalize(k)
             \/ UNCHANGED vars
      PROVE  UNCHANGED <<inserting, session, runtime, jobs, spent>>
  BY <1>8 DEF Poll, Cancel, WaiterLeaves, LeaseEnds, Publish, Read, Prepare, Record,
              Finalize, StoreKept, vars
<1>. HIDE DEF Goal
<1>9. Goal
  BY <1>1, <1>2, <1>3, <1>4, <1>5, <1>6, <1>7, <1>8 DEF Next
<1>10. QED
  BY <1>9 DEF Goal

LEMMA TasksTypes ==
  ASSUME TypeOK, HandlesLead, InsertersAreNew, PendingRowIsHeld, CallsCarryFrozen,
         FrozenIsOwn, [Next]_vars
  PROVE  TypeOK'
<1>1. row' \in [Rows -> RowType]
  BY RowSteps, Typed DEF RowStep, Alone
<1>2. consumer' \in [Consumers -> ConsumerType]
  <2>1. ASSUME NEW c \in Consumers, Submit(c) PROVE consumer' \in [Consumers -> ConsumerType]
    BY <2>1, SubmitSplit DEF ConsumersStay, ConsumersAdd
  <2>2. ASSUME NEW c \in Consumers, Cancel(c) PROVE consumer' \in [Consumers -> ConsumerType]
    BY <2>2, CancelSplit DEF ConsumersStay, ConsumersCancel
  <2>3. QED
    BY <2>1, <2>2, OldRows DEF ConsumersStay
<1>3. call' \in [Calls -> CallType] /\ ledger' \subseteq Digests /\ setup' = setup
  <2>1. call \in [Calls -> CallType] /\ ledger \subseteq Digests
    BY Typed
  <2>2. ASSUME NEW k \in Calls, Record(k)
        PROVE  call' \in [Calls -> CallType] /\ ledger' \subseteq Digests
    BY <2>1, <2>2, RecordEffect DEF CallIs
  <2>3. QED
    BY <2>1, <2>2, BridgeFrame DEF CallIs
<1>4. spent' \in SpentType /\ setup \in Setups
  BY RestTypes, Typed
<1>5. spent' \in [restarts : 0..setup'.restarts, crashes : 0..setup'.crashes]
  BY <1>3, <1>4 DEF SpentType
<1>6. QED
  BY <1>1, <1>2, <1>3, <1>4, <1>5, RestTypes
  DEF TypeOK, RowType, ConsumerType, CallType
-------------------------------------------------------------------------------
(* The invariant.                                                            *)

LEMMA TasksInit == Init => TasksInv
<1>1. SUFFICES ASSUME Init PROVE TasksInv
  OBVIOUS
<1>2. /\ row = [r \in Rows |-> NoRow] /\ consumer = [c \in Consumers |-> NoConsumer]
      /\ inserting = {} /\ session = 0 /\ runtime = 1 /\ jobs = {} /\ ledger = {}
      /\ call = [k \in Calls |-> IdleCall] /\ setup \in Setups
      /\ spent = [restarts |-> 0, crashes |-> 0]
  BY <1>1 DEF Init
<1>3. MaxConsumers \in Nat /\ MaxRows \in Nat
  BY BrowserAssumption
<1>4. TypeOK
  <2>1. NoRow \in RowType
    BY <1>3 DEF NoRow, RowType
  <2>2. NoConsumer \in ConsumerType
    BY <1>3 DEF NoConsumer, ConsumerType
  <2>3. IdleCall \in CallType
    BY DEF IdleCall, CallType
  <2>4. spent \in SpentType
    BY <1>2, SetupTyped DEF SpentType
  <2>5. QED
    BY <1>2, <1>3, <2>1, <2>2, <2>3, <2>4, Typed
<1>5. \A r \in Rows : /\ row[r].state = "absent" /\ ~row[r].key /\ row[r].pub = 0
                      /\ row[r].frozen = None /\ row[r].published = None
  BY <1>2 DEF NoRow
<1>6. NotFrozenEarly /\ FrozenIsOwn
  BY <1>5 DEF NotFrozenEarly, FrozenIsOwn, Completing, Is
<1>7. KeyGuardsOpenWork /\ PendingRowIsHeld
  BY <1>5 DEF KeyGuardsOpenWork, PendingRowIsHeld, Is, Open, Pending
<1>8. CallsCarryFrozen
  BY <1>2 DEF CallsCarryFrozen, IdleCall
<1>9. OneStory
  BY <1>2, <1>5 DEF OneStory
<1>10. InsertersAreNew /\ HandlesLead
  BY <1>2, <1>5 DEF InsertersAreNew, HandlesLead, Absent, NoConsumer
<1>11. QED
  BY <1>4, <1>6, <1>7, <1>8, <1>9, <1>10 DEF TasksInv

LEMMA TasksStep == TasksInv /\ [Next]_vars => TasksInv'
<1>1. SUFFICES ASSUME TasksInv, [Next]_vars PROVE TasksInv'
  OBVIOUS
<1>2. /\ TypeOK /\ NotFrozenEarly /\ FrozenIsOwn /\ CallsCarryFrozen /\ OneStory
      /\ KeyGuardsOpenWork /\ InsertersAreNew /\ HandlesLead /\ PendingRowIsHeld
  BY <1>1 DEF TasksInv
<1>3. /\ NotFrozenEarly' /\ FrozenIsOwn' /\ KeyGuardsOpenWork'
      /\ \A q \in Rows : StoryKept(q)
  BY <1>1, <1>2, RowsStep
<1>4. CallsCarryFrozen' /\ OneStory'
  BY <1>1, <1>2, <1>3, CarryStep, OneStoryStep
<1>5. HandlesLead' /\ InsertersAreNew' /\ PendingRowIsHeld' /\ TypeOK'
  BY <1>1, <1>2, LeadStep, InsertersStep, HeldStep, TasksTypes
<1>6. QED
  BY <1>3, <1>4, <1>5 DEF TasksInv

LEMMA TasksAlways == Spec => []TasksInv
BY TasksInit, TasksStep, PTL DEF Spec
-------------------------------------------------------------------------------
(* The theorems.                                                             *)

\* Rows, consumers, calls, leases and ledger keep their types: a lease the
\* companion executes always names a task that had a public id.
THEOREM TasksTypeCorrect == Spec => []TypeOK
<1>1. TasksInv => TypeOK
  BY DEF TasksInv
<1>2. QED
  BY <1>1, TasksAlways, PTL

\* submit_consumer and cancel_consumer keep reference_count, primary_consumer and the
\* public id of a pending acquisition true to its active consumers, in whatever order
\* handles are joined, cancelled and cancelled again.
THEOREM PendingRowsAreHeld == Spec => []PendingRowIsHeld
<1>1. TasksInv => PendingRowIsHeld
  BY DEF TasksInv
<1>2. QED
  BY <1>1, TasksAlways, PTL

\* The unique reuse key belongs to open reusable work alone: every way for a row to
\* end gives it back, and the insert of a new row finds it free.
THEOREM KeyGuardsWork == Spec => []KeyGuardsOpenWork
<1>1. TasksInv => KeyGuardsOpenWork
  BY DEF TasksInv
<1>2. QED
  BY <1>1, TasksAlways, PTL

\* Handlers, retries and the publisher may record and finalize in any order and die
\* between any two steps: the formal source hears only the frozen completion, and
\* what is published is that one, told before.
THEOREM OneStoryTold == Spec => []OneStory
<1>1. TasksInv => OneStory
  BY DEF TasksInv
<1>2. QED
  BY <1>1, TasksAlways, PTL

\* A row that ended keeps its state and result, and a frozen completion is never
\* replaced or dropped: cancel_consumer leaves such rows as they are, and only
\* finalize_acquisition_completion takes a row out of completing.
THEOREM ResultStaysFinal == Spec => ResultIsFinal
<1>1. TasksInv /\ [Next]_vars =>
        \A r \in Rows :
          /\ Is(r, Terminal) => row'[r].state = row[r].state
                                /\ row'[r].published = row[r].published
          /\ Completing(r) => row'[r].frozen = row[r].frozen
                              /\ row'[r].state \in {"completing", row[r].frozen.outcome}
  <2>1. SUFFICES ASSUME TasksInv, [Next]_vars, NEW r \in Rows
        PROVE  /\ Is(r, Terminal) => row'[r].state = row[r].state
                                     /\ row'[r].published = row[r].published
               /\ Completing(r) => row'[r].frozen = row[r].frozen
                                   /\ row'[r].state \in {"completing", row[r].frozen.outcome}
    OBVIOUS
  <2>2. row' = row \/ \E q \in Rows : RowStep(q)
    BY <2>1, RowSteps DEF TasksInv
  <2>3. row'[r] = row[r] \/ RowStep(r)
    BY <2>2 DEF RowStep, Alone
  <2>4. CASE RowStep(r)
    BY <2>4 DEF RowStep, Is, Completing, Inserted, Joined, Turned, Exhausts, Dropped,
                Released, Idem, Froze, Finished, SameStory, Pending, Terminal
  <2>5. QED
    BY <2>3, <2>4 DEF Completing, Is
<1>2. QED
  BY <1>1, TasksAlways, PTL DEF Spec, ResultIsFinal

===============================================================================
