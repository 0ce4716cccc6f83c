----------------------------- MODULE LiveRunsProofs -----------------------------
(***************************************************************************)
(* What LiveRuns promises, proved for every set of requests and every      *)
(* bound.                                                                  *)
(*                                                                         *)
(* The safety properties rest on what the two locks give.  Whoever is past *)
(* the run's lock holds it and started from the run as it is (LockInv);    *)
(* the record, its row and the requests about it agree on how far the      *)
(* monitor has come (ProtocolInv).  Then no check is counted before it is  *)
(* in the run (CountsInv), and none is in the history before the row       *)
(* counts it (HistoryInv).                                                 *)
(***************************************************************************)
EXTENDS LiveRuns, TLAPS

Checking == check.by \in {"loop", "now"}

\* The holder of the run's lock, and the run it started from.
LockInv ==
  /\ \A q \in Replans : replan[q].pc = "locked" =>
       cache.lock = q /\ (cache.present => replan[q].base = cache.run)
  /\ Checking /\ check.pc = "locked" =>
       cache.lock = Monitor /\ (cache.present => check.base = cache.run)
  /\ ~up => \A q \in Replans : replan[q].pc \in {"idle", "answered"}

\* Neither the record nor its row counts more than the run and the snapshot hold.
CountsInv ==
  /\ cache.present => monitor.count <= cache.run.checks /\ saved.count <= cache.run.checks
  /\ disk.present => monitor.count <= disk.run.checks /\ saved.count <= disk.run.checks

\* Who may be at work on the record, and what the row may say meanwhile.
ProtocolInv ==
  /\ start \in {"idle", "saving"} =>
       saved.state = "absent" /\ saved.count = 0 /\ history = <<>>
  /\ start = "idle" => monitor.state = "absent"
  /\ start = "saving" => monitor.state = "active" /\ monitor.count = 0 /\ up /\ monitor.task
  /\ ~up => monitor.state = "absent" /\ check.by = "nobody"
  /\ check.by # "nobody" => monitor.state # "absent" /\ start \notin {"idle", "saving"}
  /\ check.by = "nobody" => check.pc = "idle"
  /\ check.by = "stop" => stop = "asked" /\ check.pc = "saving" /\ monitor.state \in Ended
  /\ Checking => check.pc # "idle"
  /\ Checking /\ check.pc \in {"begun", "looked", "locked"} => monitor.state = "active"
  /\ stop # "idle" => start = "answered"
  /\ stop = "asked" => monitor.state # "absent"
  /\ stop = "answered" =>
       saved.state \in Ended /\ ~Checking /\ monitor.state # "active"
  /\ saved.state \in Ended /\ monitor.state # "absent" => monitor.state = saved.state

\* Every check of the history is one that the row counted before its last.
Behind == \A i \in 1..Len(history) : history[i] < saved.count

\* The row is never ahead of the record, nor the history of the row.
HistoryInv ==
  /\ HistoryIsBacked
  /\ monitor.state # "absent" => saved.count <= monitor.count
  /\ monitor.state = "active" => monitor.count < MaxChecks
  /\ saved.state = "active" => saved.count < MaxChecks
  /\ Checking /\ check.pc = "saving" /\ monitor.state # "failed" =>
       saved.count < monitor.count
  /\ Checking /\ check.pc = "appending" =>
       monitor.count = saved.count /\ saved.count > 0 /\ Behind

RunsInv ==
  /\ TypeOK /\ LockInv /\ AckedReplansKept /\ CountsInv
  /\ ProtocolInv /\ HistoryInv /\ ActiveHasTask

-------------------------------------------------------------------------------
(* What the cache's operations do to the entry, field by field.              *)

Holders   == Replans \cup {Nobody, Monitor}
CacheType == [present : BOOLEAN, run : Run, lock : Holders]
DiskType  == [present : BOOLEAN, run : Run]
SpentType == [crashes : 0..MaxCrashes, files : 0..MaxFaults, saves : 0..MaxFaults]

SameEntry == cache'.present = cache.present /\ cache'.run = cache.run

\* Taking the run's lock, or giving it back, leaves the entry as it is.
LEMMA LockFields ==
  ASSUME cache \in CacheType, NEW h \in Holders, cache' = [cache EXCEPT !.lock = h]
  PROVE  cache' \in CacheType /\ SameEntry /\ cache'.lock = h
BY DEF CacheType, SameEntry

\* The entry, the snapshot and the bounds have their types.
LEMMA CacheTyped ==
  TypeOK => cache \in CacheType /\ disk \in DiskType /\ spent \in SpentType
BY DEF TypeOK, CacheType, DiskType, SpentType, Holders

\* Giving the lock back.
LEMMA UnlockedFields ==
  ASSUME TypeOK, cache' = Unlocked
  PROVE  cache' \in CacheType /\ SameEntry /\ cache'.lock = Nobody
<1>1. cache \in CacheType /\ Nobody \in Holders
  BY CacheTyped DEF Holders
<1>2. QED
  BY <1>1, LockFields DEF Unlocked

\* A change that succeeds reaches memory and snapshot.
LEMMA CommitFields ==
  ASSUME TypeOK, NEW c \in CacheType, Commit(c)
  PROVE  /\ cache' = c /\ disk' \in DiskType /\ spent' = spent
         /\ disk'.present = c.present /\ disk'.run = c.run
BY DEF Commit, Written, DiskType, CacheType

\* After one that fails memory is as it was, and the snapshot may have it or not.
LEMMA RollbackFields ==
  ASSUME TypeOK, NEW c \in CacheType, Rollback(c)
  PROVE  /\ cache' \in CacheType /\ disk' \in DiskType /\ spent' \in SpentType
         /\ SameEntry /\ cache'.lock = c.lock /\ spent'.saves = spent.saves
         /\ disk' = disk \/ (disk'.present = c.present /\ disk'.run = c.run)
<1>1. cache \in CacheType /\ disk \in DiskType /\ spent \in SpentType
  BY CacheTyped
<1>2. Written(c) \in DiskType /\ Written(c).present = c.present /\ Written(c).run = c.run
  BY DEF Written, DiskType, CacheType
<1>3. cache' \in CacheType /\ SameEntry /\ cache'.lock = c.lock
  BY <1>1, LockFields DEF Rollback, CacheType
<1>4. spent' \in SpentType /\ spent'.saves = spent.saves
  BY <1>1, LiveRunsAssumption DEF Rollback, FileFaulty, FileFails, SpentType
<1>5. QED
  BY <1>1, <1>2, <1>3, <1>4 DEF Rollback

\* The entry that a replan or a check hands to replace.
Replaced(r) == [Unlocked EXCEPT !.run = r]

\* It is the entry with another run, given back.
LEMMA ReplacedFields ==
  ASSUME TypeOK, NEW r \in Run
  PROVE  /\ Replaced(r) \in CacheType /\ Replaced(r).present = cache.present
         /\ Replaced(r).run = r /\ Replaced(r).lock = Nobody
<1>1. cache \in CacheType
  BY CacheTyped
<1>2. QED
  BY <1>1 DEF CacheType, Replaced, Unlocked, Holders

\* The entry without its run is an entry.
LEMMA EvictedFields ==
  ASSUME TypeOK
  PROVE  LET c == [cache EXCEPT !.present = FALSE, !.run = NewRun] IN
         c \in CacheType /\ ~c.present /\ c.run = NewRun /\ c.lock = cache.lock
<1>1. cache \in CacheType /\ NewRun \in Run
  BY CacheTyped DEF NewRun, Run
<1>2. QED
  BY <1>1 DEF CacheType

\* An eviction takes the entry from memory and snapshot, or from neither, or, when
\* it fails late, from the snapshot alone.
LEMMA EvictFields ==
  ASSUME TypeOK, Evict
  PROVE  /\ cache' \in CacheType /\ disk' \in DiskType /\ spent' \in SpentType
         /\ cache'.lock = cache.lock
         /\ cache'.present => cache.present /\ cache'.run = cache.run
         /\ disk'.present => disk' = disk
         /\ spent'.saves = spent.saves
<1> DEFINE c == [cache EXCEPT !.present = FALSE, !.run = NewRun]
<1>1. c \in CacheType /\ ~c.present /\ c.lock = cache.lock
  BY EvictedFields
<1>2. Commit(c) \/ Rollback(c)
  BY DEF Evict
<1>3. spent \in SpentType
  BY CacheTyped
<1> HIDE DEF c
<1>4. QED
  BY <1>1, <1>2, <1>3, CommitFields, RollbackFields DEF SameEntry

\* The run a lock holder makes is a run.
LEMMA NextRun ==
  ASSUME NEW r \in Run, NEW q \in Replans
  PROVE  /\ [r EXCEPT !.replans = @ \cup {q}] \in Run
         /\ [r EXCEPT !.replans = @ \cup {q}].checks = r.checks
         /\ [r EXCEPT !.replans = @ \cup {q}].replans = r.replans \cup {q}
BY DEF Run

\* The run a check makes is a run.
LEMMA NextCheck ==
  ASSUME NEW r \in Run
  PROVE  /\ [r EXCEPT !.checks = @ + 1] \in Run
         /\ [r EXCEPT !.checks = @ + 1].checks = r.checks + 1
         /\ [r EXCEPT !.checks = @ + 1].replans = r.replans
BY DEF Run

\* A request that holds the lock started from the run as it is, so what it hands to
\* replace is the next run.
LEMMA ReplaceSplit ==
  ASSUME TypeOK, LockInv, NEW q \in Replans, Replace(q)
  PROVE  LET r == [cache.run EXCEPT !.replans = @ \cup {q}] IN
         \/ cache.present /\ Commit(Replaced(r)) /\ told' = told \cup {q}
         \/ cache.present /\ Rollback(Replaced(r)) /\ told' = told
         \/ ~cache.present /\ cache' = Unlocked /\ UNCHANGED <<disk, told, spent>>
BY DEF Replace, LockInv, Replaced

\* The same of a check.
LEMMA CheckReplaceSplit ==
  ASSUME TypeOK, LockInv, CheckReplace
  PROVE  LET r == [cache.run EXCEPT !.checks = @ + 1] IN
         \/ cache.present /\ Commit(Replaced(r)) /\ monitor' = Counted
         \/ cache.present /\ Rollback(Replaced(r)) /\ Fail
         \/ ~cache.present /\ cache' = Unlocked /\ Fail /\ UNCHANGED <<disk, spent>>
BY DEF CheckReplace, CheckAt, LockInv, Checking, Replaced

\* What an action leaves of entry and snapshot, with their types.
CacheTypes == cache' \in CacheType /\ disk' \in DiskType /\ spent' \in SpentType

\* Every step leaves entry, snapshot and bounds of their types.
LEMMA CacheTypeStep ==
  ASSUME TypeOK, LockInv, [Next]_vars
  PROVE  CacheTypes
<1> USE DEF CacheTypes
<1>0. cache \in CacheType /\ disk \in DiskType /\ spent \in SpentType /\ cache.run \in Run
  BY CacheTyped DEF CacheType
<1>1. CASE Evict
  BY <1>1, EvictFields
<1>2. CASE Rewrite
  BY <1>0, <1>2, CommitFields DEF Rewrite
<1>3. ASSUME NEW q \in Replans, Lock(q)
      PROVE  CacheTypes
  BY <1>0, <1>3, LockFields DEF Lock, Holders
<1>4. ASSUME NEW q \in Replans, GiveUp(q)
      PROVE  CacheTypes
  BY <1>0, <1>4, UnlockedFields DEF GiveUp
<1>5. ASSUME NEW q \in Replans, Replace(q)
      PROVE  CacheTypes
  <2> DEFINE r == [cache.run EXCEPT !.replans = @ \cup {q}]
  <2>1. r \in Run
    BY <1>0, NextRun
  <2>2. \/ Commit(Replaced(r)) \/ Rollback(Replaced(r))
        \/ cache' = Unlocked /\ UNCHANGED <<disk, spent>>
    BY <1>5, ReplaceSplit
  <2> HIDE DEF r
  <2>3. QED
    BY <1>0, <2>1, <2>2, ReplacedFields, CommitFields, RollbackFields, UnlockedFields
<1>6. CASE CheckLock
  BY <1>0, <1>6, LockFields DEF CheckLock, Holders
<1>7. CASE CheckRaises
  BY <1>0, <1>7, UnlockedFields DEF CheckRaises
<1>8. CASE CheckReplace
  <2> DEFINE r == [cache.run EXCEPT !.checks = @ + 1]
  <2>1. r \in Run
    BY <1>0, NextCheck
  <2>2. \/ Commit(Replaced(r)) \/ Rollback(Replaced(r))
        \/ cache' = Unlocked /\ UNCHANGED <<disk, spent>>
    BY <1>8, CheckReplaceSplit
  <2> HIDE DEF r
  <2>3. QED
    BY <1>0, <2>1, <2>2, ReplacedFields, CommitFields, RollbackFields, UnlockedFields
<1>9. CASE StopAsk
  BY <1>0, <1>9, UnlockedFields DEF StopAsk
<1>10. CASE Crash
  BY <1>0, <1>10, LiveRunsAssumption DEF Crash, NewRun, Run, CacheType, Holders, SpentType
<1>11. CASE Startup
  <2>1. PICK keep \in {disk, [present |-> FALSE, run |-> NewRun]} :
          /\ disk' = keep
          /\ cache' = [present |-> keep.present, run |-> keep.run, lock |-> Nobody]
    BY <1>11 DEF Startup
  <2>2. [present |-> FALSE, run |-> NewRun] \in DiskType
    <3>1. NewRun \in Run
      BY DEF NewRun, Run
    <3>2. QED
      BY <3>1 DEF DiskType
  <2>3. keep \in DiskType
    BY <1>0, <2>1, <2>2
  <2>4. QED
    BY <1>0, <1>11, <2>1, <2>3 DEF Startup, CacheType, DiskType, Holders
<1>12. CASE StartSave \/ CheckSave \/ CheckAppend \/ StopSave
  BY <1>0, <1>12, LiveRunsAssumption
     DEF StartSave, CheckSave, CheckAppend, StopSave, SaveFails, SaveFaulty,
         FileFaulty, SpentType, cacheVars
<1>13. CASE UNCHANGED <<cacheVars, spent>>
  BY <1>0, <1>13 DEF cacheVars
<1>14. ASSUME NEW q \in Replans, Look(q)
       PROVE  CacheTypes
  BY <1>13, <1>14 DEF Look
<1>15. CASE Start \/ Begin("loop") \/ Begin("now") \/ CheckLook \/ LoopEnds \/ StopLock
  BY <1>13, <1>15 DEF Start, Begin, CheckLook, LoopEnds, StopLock
<1>16. QED
  BY <1>1, <1>2, <1>3, <1>4, <1>5, <1>6, <1>7, <1>8, <1>9, <1>10, <1>11, <1>12,
     <1>13, <1>14, <1>15 DEF Next, Check, vars
-------------------------------------------------------------------------------
\* Initially the invariant holds.
LEMMA RunsInit == Init => RunsInv
BY LiveRunsAssumption
   DEF Init, RunsInv, TypeOK, Run, States, Ended, NewRun, NoRequest, NoMonitor,
       NoCheck, LockInv, AckedReplansKept, CountsInv, ProtocolInv, HistoryInv,
       HistoryIsBacked, Behind, ActiveHasTask, Checking
-------------------------------------------------------------------------------
\* A replan that was acknowledged stays in the run.
LEMMA KeptStep == RunsInv /\ [Next]_vars => AckedReplansKept'
<1> SUFFICES ASSUME RunsInv, [Next]_vars
             PROVE  AckedReplansKept'
  OBVIOUS
<1>a. TypeOK /\ LockInv /\ AckedReplansKept /\ cache \in CacheType /\ disk \in DiskType
  BY CacheTyped DEF RunsInv
<1>b. cache.run \in Run /\ disk.run \in Run
  BY <1>a DEF CacheType, DiskType
<1> USE DEF AckedReplansKept, vars, cacheVars, requestVars, monitorVars, storeVars
<1>1. CASE Evict
  BY <1>a, <1>1, EvictFields DEF Evict
<1>2. CASE Rewrite
  BY <1>a, <1>2 DEF Rewrite, Commit, Written, CacheType, DiskType
<1>3. ASSUME NEW q \in Replans, Lock(q)
       PROVE  AckedReplansKept'
  BY <1>a, <1>3, LockFields DEF Lock, Holders, SameEntry
<1>4. ASSUME NEW q \in Replans, GiveUp(q)
       PROVE  AckedReplansKept'
  BY <1>a, <1>4, UnlockedFields DEF GiveUp, SameEntry
<1>5. ASSUME NEW q \in Replans, Replace(q)
       PROVE  AckedReplansKept'
  <2> DEFINE r == [cache.run EXCEPT !.replans = @ \cup {q}]
  <2>1. r \in Run /\ r.replans = cache.run.replans \cup {q}
    BY <1>b, NextRun
  <2>2. \/ cache.present /\ Commit(Replaced(r)) /\ told' = told \cup {q}
        \/ cache.present /\ Rollback(Replaced(r)) /\ told' = told
        \/ ~cache.present /\ cache' = Unlocked /\ UNCHANGED <<disk, told, spent>>
    BY <1>a, <1>5, ReplaceSplit
  <2> HIDE DEF r
  <2>3. QED
    BY <1>a, <2>1, <2>2, ReplacedFields, CommitFields, RollbackFields,
       UnlockedFields
       DEF SameEntry
<1>6. CASE CheckLock
  BY <1>a, <1>6, LockFields DEF CheckLock, Holders, SameEntry
<1>7. CASE CheckRaises
  BY <1>a, <1>7, UnlockedFields DEF CheckRaises, SameEntry
<1>8. CASE CheckReplace
  <2> DEFINE r == [cache.run EXCEPT !.checks = @ + 1]
  <2>1. r \in Run /\ r.replans = cache.run.replans /\ told' = told
    BY <1>b, <1>8, NextCheck DEF CheckReplace
  <2>2. \/ cache.present /\ Commit(Replaced(r))
        \/ cache.present /\ Rollback(Replaced(r))
        \/ ~cache.present /\ cache' = Unlocked /\ UNCHANGED <<disk, spent>>
    BY <1>a, <1>8, CheckReplaceSplit
  <2> HIDE DEF r
  <2>3. QED
    BY <1>a, <2>1, <2>2, ReplacedFields, CommitFields, RollbackFields,
       UnlockedFields
       DEF SameEntry
<1>9. CASE StopAsk
  BY <1>a, <1>9, UnlockedFields DEF StopAsk, SameEntry
<1>10. CASE Crash
  BY <1>a, <1>10 DEF Crash
<1>11. CASE Startup
  BY <1>a, <1>11 DEF Startup
<1>12. CASE \/ UNCHANGED vars \/ (\E q \in Replans : Look(q)) \/ Start
            \/ StartSave \/ Begin("loop") \/ Begin("now") \/ CheckLook
            \/ CheckSave \/ CheckAppend \/ LoopEnds \/ StopLock \/ StopSave
  BY <1>a, <1>12 DEF Look, Start, StartSave, Begin, CheckLook, CheckSave,
     CheckAppend, LoopEnds, StopLock, StopSave
<1>13. QED
  BY <1>1, <1>2, <1>3, <1>4, <1>5, <1>6, <1>7, <1>8, <1>9, <1>10, <1>11,
     <1>12 DEF Next, Check

\* Who is past the run's lock holds it, and nobody replaces the run meanwhile.
LEMMA LockStep == RunsInv /\ [Next]_vars => LockInv'
<1> SUFFICES ASSUME RunsInv, [Next]_vars
             PROVE  LockInv'
  OBVIOUS
<1>a. TypeOK /\ LockInv /\ ProtocolInv /\ cache \in CacheType
  BY CacheTyped DEF RunsInv
<1>b. cache.run \in Run /\ (check.by \in {"loop",
"now"} \/ check.pc # "locked" \/ check.by = "stop")
  BY <1>a DEF CacheType, ProtocolInv, TypeOK
<1> USE DEF LockInv, Checking, vars, cacheVars, requestVars, monitorVars, storeVars
<1>1. CASE Evict
  BY <1>a, <1>1, EvictFields DEF Evict
<1>2. CASE Rewrite
  BY <1>a, <1>2 DEF Rewrite, Commit
<1>3. ASSUME NEW q \in Replans, Look(q)
       PROVE  LockInv'
  BY <1>a, <1>3 DEF Look, Goto, TypeOK
<1>4. ASSUME NEW q \in Replans, Lock(q)
       PROVE  LockInv'
  <2>1. CASE cache.present /\ LockFree
    <3>1. SameEntry /\ cache'.lock = q
      BY <1>a, <1>4, <2>1, LockFields DEF Lock, Holders
    <3>2. /\ \A p \in Replans : replan[p].pc # "locked"
          /\ ~(Checking /\ check.pc = "locked")
      BY <1>a, <2>1, LiveRunsAssumption DEF LockFree
    <3>3. replan' = [replan EXCEPT ![q] = [pc |-> "locked", base |-> cache.run]]
      BY <1>4, <2>1 DEF Lock
    <3>4. \A p \in Replans : replan'[p].pc = "locked" => p = q /\ replan'[p].base = cache.run
      BY <1>a, <3>2, <3>3 DEF TypeOK
    <3>5. up /\ up' = up /\ check' = check
      BY <1>4 DEF Lock
    <3>6. QED
      BY <3>1, <3>2, <3>4, <3>5 DEF SameEntry
  <2>2. CASE ~cache.present
    <3>1. up /\ Goto(q, "answered") /\ UNCHANGED <<up, cache, check>>
      BY <1>4, <2>2 DEF Lock
    <3>2. \A p \in Replans : replan'[p].pc = "locked" => replan'[p] = replan[p]
      BY <1>a, <3>1 DEF Goto, TypeOK
    <3>3. QED
      BY <1>a, <3>1, <3>2
  <2>3. QED
    BY <1>4, <2>1, <2>2 DEF Lock
<1>5. ASSUME NEW q \in Replans, GiveUp(q)
       PROVE  LockInv'
  <2>1. SameEntry /\ up /\ up' = up /\ check' = check
    BY <1>a, <1>5, UnlockedFields DEF GiveUp
  <2>2. \A p \in Replans : replan'[p].pc = "locked" => replan'[p] = replan[p] /\ p # q
    BY <1>a, <1>5 DEF GiveUp, Goto, TypeOK
  <2>3. cache.lock = q
    BY <1>a, <1>5 DEF GiveUp
  <2>4. QED
    BY <1>a, <2>1, <2>2, <2>3, LiveRunsAssumption
<1>6. ASSUME NEW q \in Replans, Replace(q)
       PROVE  LockInv'
  <2>1. up /\ up' = up /\ check' = check
    BY <1>6 DEF Replace
  <2>2. \A p \in Replans : replan'[p].pc = "locked" => replan'[p] = replan[p] /\ p # q
    BY <1>a, <1>6 DEF Replace, Goto, TypeOK
  <2>3. cache.lock = q
    BY <1>a, <1>6 DEF Replace
  <2>4. QED
    BY <1>a, <2>1, <2>2, <2>3, LiveRunsAssumption
<1>7. CASE Begin("loop")
  BY <1>a, <1>7 DEF Begin, NoCheck
<1>8. CASE Begin("now")
  BY <1>a, <1>8 DEF Begin, NoCheck
<1>9. CASE CheckLook
  BY <1>a, <1>9 DEF CheckLook, CheckAt, CheckGoto, Fail, TypeOK
<1>10. CASE CheckLock
  <2>1. CASE cache.present /\ LockFree
    <3>1. SameEntry /\ cache'.lock = Monitor
      BY <1>a, <1>10, <2>1, LockFields DEF CheckLock, Holders
    <3>2. \A p \in Replans : replan[p].pc # "locked"
      BY <1>a, <2>1, LiveRunsAssumption DEF LockFree
    <3>3. check'.base = cache.run /\ replan' = replan /\ up /\ up' = up
      BY <1>a, <1>10, <2>1 DEF CheckLock, CheckAt, TypeOK
    <3>4. QED
      BY <3>1, <3>2, <3>3 DEF SameEntry
  <2>2. CASE ~cache.present
    BY <1>a, <1>10, <2>2 DEF CheckLock, CheckAt, Fail, CheckGoto, TypeOK
  <2>3. QED
    BY <1>10, <2>1, <2>2 DEF CheckLock
<1>11. CASE CheckRaises
  <2>1. check'.pc = "saving" /\ replan' = replan /\ up /\ up' = up
    BY <1>a, <1>11 DEF CheckRaises, CheckAt, Fail, CheckGoto, TypeOK
  <2>2. cache.lock = Monitor
    BY <1>a, <1>11 DEF CheckRaises, CheckAt
  <2>3. QED
    BY <1>a, <2>1, <2>2, LiveRunsAssumption
<1>12. CASE CheckReplace
  <2>1. check'.pc = "saving" /\ replan' = replan /\ up /\ up' = up
    BY <1>a, <1>12 DEF CheckReplace, CheckAt, Fail, CheckGoto, TypeOK
  <2>2. cache.lock = Monitor
    BY <1>a, <1>12 DEF CheckReplace, CheckAt
  <2>3. QED
    BY <1>a, <2>1, <2>2, LiveRunsAssumption
<1>13. CASE CheckSave
  BY <1>a, <1>13 DEF CheckSave, CheckAt, CheckGoto, CheckBreaks, NoCheck, TypeOK
<1>14. CASE CheckAppend
  BY <1>a, <1>14 DEF CheckAppend, CheckAt, CheckBreaks, NoCheck
<1>15. CASE StopAsk
  <2>1. /\ replan' = replan /\ up /\ up' = up
        /\ check' \in {check, NoCheck}
        /\ cache' = cache \/ (cache' = Unlocked /\ Checking /\ check.pc = "locked")
        /\ check' = check => cache' = cache \/ check = NoCheck
    BY <1>15 DEF StopAsk
  <2>2. CASE cache' = cache
    BY <1>a, <2>1, <2>2 DEF NoCheck
  <2>3. CASE cache' = Unlocked /\ Checking /\ check.pc = "locked"
    <3>1. \A p \in Replans : replan[p].pc # "locked"
      BY <1>a, <2>3, LiveRunsAssumption
    <3>2. check' = check => cache' = cache
      BY <2>1, <2>3 DEF NoCheck
    <3>3. QED
      BY <1>a, <2>1, <3>1, <3>2 DEF NoCheck
  <2>4. QED
    BY <2>1, <2>2, <2>3
<1>16. CASE StopLock
  BY <1>a, <1>16 DEF StopLock, NoCheck
<1>17. CASE StopSave
  BY <1>a, <1>17 DEF StopSave, NoCheck
<1>18. CASE Crash
  BY <1>a, <1>18 DEF Crash, NoCheck, NoRequest, TypeOK
<1>19. CASE Startup
  <2>1. ~up /\ replan' = replan /\ check' = check
    BY <1>19 DEF Startup, requestVars
  <2>2. \A p \in Replans : replan[p].pc # "locked"
    BY <1>a, <2>1
  <2>3. check.by = "nobody"
    BY <1>a, <2>1 DEF ProtocolInv
  <2>4. up'
    BY <1>19 DEF Startup
  <2>5. QED
    BY <2>1, <2>2, <2>3, <2>4
<1>20. CASE UNCHANGED vars \/ Start \/ StartSave \/ LoopEnds
  BY <1>a, <1>20 DEF Start, StartSave, LoopEnds
<1>21. QED
  BY <1>1, <1>2, <1>3, <1>4, <1>5, <1>6, <1>7, <1>8, <1>9, <1>10, <1>11, <1>12,
     <1>13, <1>14, <1>15, <1>16, <1>17, <1>18, <1>19, <1>20 DEF Next, Check

\* No check is counted that the run does not hold.
LEMMA CountsStep == RunsInv /\ [Next]_vars => CountsInv'
<1> SUFFICES ASSUME RunsInv, [Next]_vars
             PROVE  CountsInv'
  OBVIOUS
<1>a. TypeOK /\ LockInv /\ CountsInv /\ ProtocolInv /\ HistoryInv
      /\ cache \in CacheType /\ disk \in DiskType
  BY CacheTyped DEF RunsInv
<1>b. /\ cache.run \in Run /\ disk.run \in Run /\ cache.run.checks \in Nat /\ disk.run.checks \in Nat
      /\ monitor.count \in Nat /\ saved.count \in Nat
  BY <1>a, LiveRunsAssumption DEF CacheType, DiskType, Run, TypeOK
<1> USE DEF CountsInv, vars, cacheVars, requestVars, monitorVars, storeVars
<1>1. CASE Evict
  BY <1>a, <1>b, <1>1, EvictFields DEF Evict
<1>2. CASE Rewrite
  BY <1>a, <1>b, <1>2 DEF Rewrite, Commit, Written, CacheType, DiskType
<1>3. ASSUME NEW q \in Replans, Lock(q)
       PROVE  CountsInv'
  BY <1>a, <1>b, <1>3, LockFields DEF Lock, Holders, SameEntry
<1>4. ASSUME NEW q \in Replans, GiveUp(q)
       PROVE  CountsInv'
  BY <1>a, <1>b, <1>4, UnlockedFields DEF GiveUp, SameEntry
<1>5. ASSUME NEW q \in Replans, Replace(q)
       PROVE  CountsInv'
  <2> DEFINE r == [cache.run EXCEPT !.replans = @ \cup {q}]
  <2>1. r \in Run /\ r.checks = cache.run.checks /\ monitor' = monitor /\ saved' = saved
    BY <1>b, <1>5, NextRun DEF Replace
  <2>2. \/ cache.present /\ Commit(Replaced(r))
        \/ cache.present /\ Rollback(Replaced(r))
        \/ ~cache.present /\ cache' = Unlocked /\ UNCHANGED <<disk, told, spent>>
    BY <1>a, <1>5, ReplaceSplit
  <2> HIDE DEF r
  <2>3. QED
    BY <1>a, <2>1, <2>2, ReplacedFields, CommitFields, RollbackFields,
       UnlockedFields
       DEF SameEntry
<1>6. CASE Start
  <2>1. monitor'.count = 0 /\ saved' = saved /\ UNCHANGED cacheVars
    BY <1>6 DEF Start
  <2>2. QED
    BY <1>a, <1>b, <2>1
<1>7. CASE StartSave
  <2>1. UNCHANGED cacheVars /\ monitor'.count = monitor.count
    BY <1>a, <1>7 DEF StartSave, CheckBreaks, TypeOK
  <2>2. saved' = saved \/ saved'.count = monitor.count
    BY <1>7 DEF StartSave, Row
  <2>3. QED
    BY <1>a, <2>1, <2>2
<1>8. CASE CheckLook
  <2>1. UNCHANGED <<cacheVars, saved>> /\ monitor'.count = monitor.count
    BY <1>a, <1>8 DEF CheckLook, Fail, TypeOK
  <2>2. QED
    BY <1>a, <2>1
<1>9. CASE CheckLock
  <2>1. SameEntry /\ disk' = disk /\ saved' = saved
    BY <1>a, <1>9, LockFields DEF CheckLock, Holders, SameEntry
  <2>2. monitor'.count = monitor.count
    BY <1>a, <1>9 DEF CheckLock, Fail, TypeOK
  <2>3. QED
    BY <1>a, <2>1, <2>2 DEF SameEntry
<1>10. CASE CheckRaises
  <2>1. SameEntry /\ disk' = disk /\ saved' = saved
    BY <1>a, <1>10, UnlockedFields DEF CheckRaises, SameEntry
  <2>2. monitor'.count = monitor.count
    BY <1>a, <1>10 DEF CheckRaises, Fail, TypeOK
  <2>3. QED
    BY <1>a, <2>1, <2>2 DEF SameEntry
<1>11. CASE CheckReplace
  <2> DEFINE r == [cache.run EXCEPT !.checks = @ + 1]
  <2>1. r \in Run /\ r.checks = cache.run.checks + 1 /\ saved' = saved
    BY <1>b, <1>11, NextCheck DEF CheckReplace
  <2>2. \/ cache.present /\ Commit(Replaced(r)) /\ monitor' = Counted
        \/ cache.present /\ Rollback(Replaced(r)) /\ Fail
        \/ ~cache.present /\ cache' = Unlocked /\ Fail /\ UNCHANGED <<disk, spent>>
    BY <1>a, <1>11, CheckReplaceSplit
  <2>3. /\ Counted.count = monitor.count + 1
        /\ Fail => monitor'.count = monitor.count
    BY <1>a, <1>b DEF Counted, Fail, TypeOK
  <2> HIDE DEF r
  <2>4. /\ Replaced(r) \in CacheType /\ Replaced(r).present = cache.present
        /\ Replaced(r).run = r
    BY <1>a, <2>1, ReplacedFields
  <2>5. CASE cache.present /\ Commit(Replaced(r)) /\ monitor' = Counted
    <3>1. /\ cache'.run = r /\ disk'.run = r
      BY <1>a, <2>4, <2>5, CommitFields
    <3>2. cache.present => monitor.count <= cache.run.checks /\ saved.count <= cache.run.checks
      BY <1>a
    <3>3. QED
      BY <1>b, <2>1, <2>3, <2>5, <3>1, <3>2
  <2>6. CASE cache.present /\ Rollback(Replaced(r)) /\ Fail
    <3>1. /\ SameEntry /\ monitor'.count = monitor.count
          /\ disk' = disk \/ (disk'.run = r /\ disk'.present = cache.present)
      BY <1>a, <2>3, <2>4, <2>6, RollbackFields
    <3>2. monitor.count <= cache.run.checks /\ saved.count <= cache.run.checks
      BY <1>a, <2>6
    <3>3. cache'.present => cache'.run = cache.run
      BY <3>1 DEF SameEntry
    <3>4. CASE disk' = disk
      BY <1>a, <2>1, <3>1, <3>2, <3>3, <3>4
    <3>5. CASE disk'.run = r
      BY <1>b, <2>1, <3>1, <3>2, <3>3, <3>5
    <3>6. QED
      BY <3>1, <3>4, <3>5
  <2>7. CASE ~cache.present /\ cache' = Unlocked /\ Fail /\ UNCHANGED <<disk, spent>>
    BY <1>a, <1>b, <2>1, <2>3, <2>7, UnlockedFields DEF SameEntry
  <2>8. QED
    BY <2>2, <2>5, <2>6, <2>7
<1>12. CASE CheckSave
  <2>1. UNCHANGED cacheVars /\ monitor'.count = monitor.count
    BY <1>a, <1>12 DEF CheckSave, CheckBreaks, TypeOK
  <2>2. saved' = saved \/ saved'.count = monitor.count
    BY <1>12 DEF CheckSave, Row
  <2>3. QED
    BY <1>a, <2>1, <2>2
<1>13. CASE CheckAppend
  <2>1. UNCHANGED <<cacheVars, saved>> /\ monitor'.count = monitor.count
    BY <1>a, <1>13 DEF CheckAppend, CheckBreaks, TypeOK
  <2>2. QED
    BY <1>a, <2>1
<1>14. CASE LoopEnds
  <2>1. UNCHANGED <<cacheVars, saved>> /\ monitor'.count = monitor.count
    BY <1>a, <1>14 DEF LoopEnds, TypeOK
  <2>2. QED
    BY <1>a, <2>1
<1>15. CASE StopAsk
  <2>1. SameEntry /\ disk' = disk /\ monitor'.count = monitor.count
    BY <1>a, <1>15, UnlockedFields DEF StopAsk, SameEntry, TypeOK
  <2>2. saved' = saved \/ saved'.count = monitor.count
    BY <1>15 DEF StopAsk, Row
  <2>3. QED
    BY <1>a, <2>1, <2>2 DEF SameEntry
<1>16. CASE StopLock
  <2>1. UNCHANGED <<cacheVars, saved>> /\ monitor'.count = monitor.count
    BY <1>a, <1>16 DEF StopLock, Stopped, TypeOK
  <2>2. QED
    BY <1>a, <2>1
<1>17. CASE StopSave
  <2>1. UNCHANGED cacheVars /\ monitor'.count = monitor.count
    BY <1>a, <1>17 DEF StopSave, CheckBreaks, TypeOK
  <2>2. saved' = saved \/ saved'.count = monitor.count
    BY <1>17 DEF StopSave, Row
  <2>3. QED
    BY <1>a, <2>1, <2>2
<1>18. CASE Crash
  BY <1>a, <1>b, <1>18 DEF Crash, NoMonitor
<1>19. CASE Startup
  <2>1. PICK keep \in {disk, [present |-> FALSE, run |-> NewRun]} :
          /\ disk' = keep
          /\ cache' = [present |-> keep.present, run |-> keep.run, lock |-> Nobody]
    BY <1>19 DEF Startup
  <2>2. /\ saved'.count = saved.count
        /\ monitor'.count = monitor.count \/ monitor'.count = saved.count
    BY <1>a, <1>19 DEF Startup, Recovered, TypeOK
  <2>3. QED
    BY <1>a, <1>b, <2>1, <2>2
<1>20. CASE \/ UNCHANGED vars \/ (\E q \in Replans : Look(q)) \/ Begin("loop")
            \/ Begin("now")
  BY <1>a, <1>20 DEF Look, Begin
<1>21. QED
  BY <1>1, <1>2, <1>3, <1>4, <1>5, <1>6, <1>7, <1>8, <1>9, <1>10, <1>11, <1>12,
     <1>13, <1>14, <1>15, <1>16, <1>17, <1>18, <1>19, <1>20 DEF Next, Check

\* The cache and the requests leave the monitor alone, and count no failed save.
LEMMA CacheStep ==
  ASSUME TypeOK, LockInv,
         Evict \/ Rewrite \/ \E q \in Replans : Look(q) \/ Lock(q) \/ GiveUp(q) \/ Replace(q)
  PROVE  UNCHANGED <<up, monitorVars, storeVars>> /\ spent'.saves = spent.saves
<1> USE DEF monitorVars, storeVars
<1>1. CASE Evict
  BY <1>1, EvictFields DEF Evict
<1>2. CASE Rewrite
  BY <1>2 DEF Rewrite, Commit
<1>3. ASSUME NEW q \in Replans, Look(q) \/ Lock(q) \/ GiveUp(q)
      PROVE  UNCHANGED <<up, monitorVars, storeVars>> /\ spent'.saves = spent.saves
  BY <1>3 DEF Look, Lock, GiveUp
<1>4. ASSUME NEW q \in Replans, Replace(q)
      PROVE  UNCHANGED <<up, monitorVars, storeVars>> /\ spent'.saves = spent.saves
  <2> DEFINE r == [cache.run EXCEPT !.replans = @ \cup {q}]
  <2>1. r \in Run
    BY CacheTyped, NextRun DEF CacheType
  <2>2. Commit(Replaced(r)) \/ Rollback(Replaced(r)) \/ spent' = spent
    BY <1>4, ReplaceSplit
  <2>3. UNCHANGED <<up, monitorVars, storeVars>>
    BY <1>4 DEF Replace
  <2> HIDE DEF r
  <2>4. QED
    BY <2>1, <2>2, <2>3, ReplacedFields, CommitFields, RollbackFields
<1>5. QED
  BY <1>1, <1>2, <1>3, <1>4

\* The record, its row and the requests keep agreeing.
LEMMA ProtocolStep == RunsInv /\ [Next]_vars => ProtocolInv'
<1> SUFFICES ASSUME RunsInv, [Next]_vars
             PROVE  ProtocolInv'
  OBVIOUS
<1>a. TypeOK /\ ProtocolInv /\ LockInv
  BY DEF RunsInv
<1>m. /\ monitor \in [state : States, count : 0..MaxChecks, task : BOOLEAN]
      /\ check \in [by : {"nobody", "loop", "now", "stop"},
                   pc : {"idle", "begun", "looked", "locked", "saving",
                   "appending"},
                   base : Run]
      /\ saved \in [state : States, count : 0..MaxChecks]
      /\ spent \in [crashes : 0..MaxCrashes, files : 0..MaxFaults, saves : 0..MaxFaults]
  BY DEF RunsInv, TypeOK
<1> USE DEF ProtocolInv, Checking, Ended, States, vars, cacheVars, requestVars,
   monitorVars, storeVars
<1>1. CASE Start
  BY <1>a, <1>m, <1>1 DEF Start
<1>2. CASE StartSave
  BY <1>a, <1>m, <1>2 DEF StartSave, Row, SaveFaulty, FileFaulty, SaveFails
<1>3. CASE Begin("loop")
  BY <1>a, <1>m, <1>3 DEF Begin, NoCheck
<1>4. CASE Begin("now")
  BY <1>a, <1>m, <1>4 DEF Begin, NoCheck
<1>5. CASE CheckLook
  BY <1>a, <1>m, <1>5 DEF CheckLook, CheckAt, CheckGoto, Fail
<1>6. CASE CheckLock
  BY <1>a, <1>m, <1>6 DEF CheckLock, CheckAt, CheckGoto, Fail, LockFree
<1>7. CASE CheckRaises
  BY <1>a, <1>m, <1>7 DEF CheckRaises, CheckAt, CheckGoto, Fail, Unlocked
<1>8. CASE CheckReplace
  BY <1>a, <1>m, <1>8 DEF CheckReplace, CheckAt, CheckGoto, Fail, Unlocked,
     Counted, Commit, Rollback, Written, FileFaulty, FileFails
<1>9. CASE CheckSave
  BY <1>a, <1>m, <1>9 DEF CheckSave, CheckAt, CheckGoto, CheckBreaks, NoCheck,
     Row, SaveFaulty, FileFaulty, SaveFails
<1>10. CASE CheckAppend
  BY <1>a, <1>m, <1>10 DEF CheckAppend, CheckAt, CheckBreaks, NoCheck,
     SaveFaulty, FileFaulty, SaveFails
<1>11. CASE LoopEnds
  BY <1>a, <1>m, <1>11 DEF LoopEnds
<1>12. CASE StopAsk
  BY <1>a, <1>m, <1>12 DEF StopAsk, NoCheck, Unlocked, Row
<1>13. CASE StopLock
  BY <1>a, <1>m, <1>13 DEF StopLock, Stopped, NoCheck
<1>14. CASE StopSave
  BY <1>a, <1>m, <1>14 DEF StopSave, NoCheck, Row, SaveFaulty, FileFaulty, SaveFails
<1>15. CASE Crash
  BY <1>a, <1>m, <1>15 DEF Crash, NoMonitor, NoCheck, NoRequest, NewRun
<1>16. CASE Startup
  BY <1>a, <1>m, <1>16 DEF Startup, Recovered, NewRun
<1>17. CASE \/ UNCHANGED vars \/ Evict \/ Rewrite
          \/ \E q \in Replans : Look(q) \/ Lock(q) \/ GiveUp(q) \/ Replace(q)
  <2>1. UNCHANGED <<up, monitorVars, storeVars>> /\ spent'.saves = spent.saves
    BY <1>a, <1>17, CacheStep
  <2>2. QED
    BY <1>a, <1>m, <2>1
<1>18. QED
  BY <1>1, <1>2, <1>3, <1>4, <1>5, <1>6, <1>7, <1>8, <1>9, <1>10, <1>11, <1>12,
     <1>13, <1>14, <1>15, <1>16, <1>17 DEF Next, Check

\* A monitor does not lose its loop while it is active.
LEMMA TaskStep == RunsInv /\ [Next]_vars => ActiveHasTask'
<1> SUFFICES ASSUME RunsInv, [Next]_vars
             PROVE  ActiveHasTask'
  OBVIOUS
<1>a. TypeOK /\ ProtocolInv /\ LockInv /\ ActiveHasTask /\ spent.saves \in Nat
  BY LiveRunsAssumption DEF RunsInv, TypeOK
<1>m. /\ monitor \in [state : States, count : 0..MaxChecks, task : BOOLEAN]
      /\ check \in [by : {"nobody", "loop", "now", "stop"},
                   pc : {"idle", "begun", "looked", "locked", "saving",
                   "appending"},
                   base : Run]
      /\ saved \in [state : States, count : 0..MaxChecks]
      /\ spent \in [crashes : 0..MaxCrashes, files : 0..MaxFaults, saves : 0..MaxFaults]
  BY DEF RunsInv, TypeOK
<1> USE DEF ActiveHasTask, Checking, Ended, vars, cacheVars, requestVars,
   monitorVars, storeVars
<1>1. CASE Start
  BY <1>a, <1>m, <1>1 DEF Start
<1>2. CASE StartSave
  BY <1>a, <1>m, <1>2 DEF StartSave, Row, SaveFaulty, FileFaulty, SaveFails
<1>3. CASE Begin("loop")
  BY <1>a, <1>m, <1>3 DEF Begin, NoCheck
<1>4. CASE Begin("now")
  BY <1>a, <1>m, <1>4 DEF Begin, NoCheck
<1>5. CASE CheckLook
  BY <1>a, <1>m, <1>5 DEF CheckLook, CheckAt, CheckGoto, Fail
<1>6. CASE CheckLock
  BY <1>a, <1>m, <1>6 DEF CheckLock, CheckAt, CheckGoto, Fail, LockFree
<1>7. CASE CheckRaises
  BY <1>a, <1>m, <1>7 DEF CheckRaises, CheckAt, CheckGoto, Fail, Unlocked
<1>8. CASE CheckReplace
  BY <1>a, <1>m, <1>8 DEF CheckReplace, CheckAt, CheckGoto, Fail, Unlocked,
     Counted, Commit, Rollback, Written, FileFaulty, FileFails
<1>9. CASE CheckSave
  BY <1>a, <1>m, <1>9 DEF CheckSave, CheckAt, CheckGoto, CheckBreaks, NoCheck,
     Row, SaveFaulty, FileFaulty, SaveFails
<1>10. CASE CheckAppend
  BY <1>a, <1>m, <1>10 DEF CheckAppend, CheckAt, CheckBreaks, NoCheck,
     SaveFaulty, FileFaulty, SaveFails
<1>11. CASE LoopEnds
  BY <1>a, <1>m, <1>11 DEF LoopEnds
<1>12. CASE StopAsk
  BY <1>a, <1>m, <1>12 DEF StopAsk, NoCheck, Unlocked, Row
<1>13. CASE StopLock
  BY <1>a, <1>m, <1>13 DEF StopLock, Stopped, NoCheck
<1>14. CASE StopSave
  <2>1. monitor' = monitor /\ monitor.state \in Ended
    BY <1>a, <1>14 DEF StopSave, ProtocolInv
  <2>2. QED
    BY <2>1
<1>15. CASE Crash
  BY <1>a, <1>m, <1>15 DEF Crash, NoMonitor, NoCheck, NoRequest, NewRun
<1>16. CASE Startup
  BY <1>a, <1>m, <1>16 DEF Startup, Recovered, NewRun
<1>17. CASE \/ UNCHANGED vars \/ Evict \/ Rewrite
          \/ \E q \in Replans : Look(q) \/ Lock(q) \/ GiveUp(q) \/ Replace(q)
  <2>1. UNCHANGED <<up, monitorVars, storeVars>> /\ spent'.saves = spent.saves
    BY <1>a, <1>17, CacheStep
  <2>2. QED
    BY <1>a, <1>m, <2>1
<1>18. QED
  BY <1>1, <1>2, <1>3, <1>4, <1>5, <1>6, <1>7, <1>8, <1>9, <1>10, <1>11, <1>12,
     <1>13, <1>14, <1>15, <1>16, <1>17 DEF Next, Check

\* A row that counts no less leaves the history backed, and one that counts more
\* is ahead of all of it.
LEMMA HistoryStays ==
  ASSUME TypeOK, HistoryIsBacked, history' = history, saved'.count \in Nat,
         saved.count <= saved'.count
  PROVE  /\ HistoryIsBacked'
         /\ saved.count < saved'.count => Behind'
         /\ saved'.count = saved.count /\ Behind => Behind'
<1>1. \A i \in 1..Len(history) : history[i] \in Nat
  <2>1. history \in Seq(1..MaxChecks) /\ 1..MaxChecks \subseteq Nat
    BY LiveRunsAssumption DEF TypeOK
  <2> DEFINE S == 1..MaxChecks
  <2> HIDE DEF S
  <2>2. \A i \in 1..Len(history) : history[i] \in S
    <3>1. history \in Seq(S)
      BY <2>1 DEF S
    <3>2. QED
      BY <3>1
  <2>3. QED
    BY <2>1, <2>2 DEF S
<1>2. saved.count \in Nat
  BY LiveRunsAssumption DEF TypeOK
<1>3. \A i \in 1..Len(history) : history[i] <= saved.count
  BY DEF HistoryIsBacked
<1>4. \A i \in 1..Len(history) : history[i] <= saved'.count
  BY <1>1, <1>2, <1>3
<1>5. HistoryIsBacked'
  BY <1>4 DEF HistoryIsBacked
<1>6. saved.count < saved'.count => Behind'
  BY <1>1, <1>2, <1>3 DEF Behind
<1>7. QED
  BY <1>5, <1>6 DEF Behind

\* The history stays in order when a check that the row counts, and that it does
\* not have yet, is appended.
LEMMA HistoryGrows ==
  ASSUME TypeOK, HistoryIsBacked, Behind, monitor.count = saved.count,
         saved' = saved, history' = Append(history, monitor.count)
  PROVE  HistoryIsBacked'
<1> DEFINE n == Len(history)
<1>1. history \in Seq(1..MaxChecks) /\ saved.count \in Nat /\ n \in Nat
  BY LiveRunsAssumption DEF TypeOK
<1>2. /\ Len(history') = n + 1 /\ history'[n + 1] = saved.count
      /\ \A i \in 1..n : history'[i] = history[i] /\ history[i] \in Nat
  BY <1>1, LiveRunsAssumption
<1>3. \A i \in 1..n : history[i] < saved.count
  BY DEF Behind
<1>4. \A i \in 1..(n + 1) : i \in 1..n \/ i = n + 1
  BY <1>1
<1>5. \A i, j \in 1..n : i < j => history[i] < history[j]
  BY DEF HistoryIsBacked
<1> HIDE DEF n
<1>6. \A i \in 1..(n + 1) : history'[i] <= saved.count
  BY <1>1, <1>2, <1>3, <1>4
<1>7. ASSUME NEW i \in 1..(n + 1), NEW j \in 1..(n + 1), i < j
      PROVE  history'[i] < history'[j]
  <2>1. i \in 1..n
    BY <1>1, <1>7
  <2>2. CASE j \in 1..n
    BY <1>2, <1>5, <1>7, <2>1, <2>2
  <2>3. CASE j = n + 1
    BY <1>2, <1>3, <2>1, <2>3
  <2>4. QED
    BY <1>4, <2>2, <2>3
<1>8. QED
  BY <1>2, <1>6, <1>7 DEF HistoryIsBacked

\* The history stays behind the row, and the row behind the record.
LEMMA HistoryStep == RunsInv /\ [Next]_vars => HistoryInv'
<1> SUFFICES ASSUME RunsInv, [Next]_vars
             PROVE  HistoryInv'
  OBVIOUS
<1>a. TypeOK /\ ProtocolInv /\ LockInv /\ HistoryInv
  BY DEF RunsInv
<1>m. /\ monitor \in [state : States, count : 0..MaxChecks, task : BOOLEAN]
      /\ check \in [by : {"nobody", "loop", "now", "stop"},
                   pc : {"idle", "begun", "looked", "locked", "saving",
                   "appending"},
                   base : Run]
      /\ saved \in [state : States, count : 0..MaxChecks]
      /\ history \in Seq(1..MaxChecks) /\ MaxChecks \in Nat \ {0}
  BY LiveRunsAssumption DEF RunsInv, TypeOK
<1> USE DEF HistoryInv, Checking, Ended, States, vars, cacheVars, requestVars,
   monitorVars, storeVars
<1>1. CASE Start
  <2>1. UNCHANGED <<saved, history>>
    BY <1>1 DEF Start
  <2>2. HistoryIsBacked' /\ (Behind => Behind')
    BY <1>a, <1>m, <2>1, HistoryStays
  <2>3. QED
    BY <1>a, <1>m, <1>1, <2>1, <2>2 DEF Start, ProtocolInv
<1>2. CASE StartSave
  <2>1. /\ monitor' = monitor /\ check' = check /\ history' = history
        /\ monitor.state = "active" /\ monitor.count = 0 /\ saved.count = 0
        /\ ~Checking
    BY <1>a, <1>2 DEF StartSave, ProtocolInv
  <2>2. saved' = saved \/ (saved'.count = 0 /\ saved'.state = "active")
    BY <1>2, <2>1 DEF StartSave, Row
  <2>3. HistoryIsBacked'
    BY <1>a, <1>m, <2>1, <2>2, HistoryStays
  <2>4. QED
    BY <1>a, <1>m, <2>1, <2>2, <2>3
<1>3. CASE Begin("loop")
  <2>1. UNCHANGED <<saved, history>>
    BY <1>3 DEF Begin
  <2>2. HistoryIsBacked' /\ (Behind => Behind')
    BY <1>a, <1>m, <2>1, HistoryStays
  <2>3. QED
    BY <1>a, <1>m, <1>3, <2>1, <2>2 DEF Begin, NoCheck
<1>4. CASE Begin("now")
  <2>1. UNCHANGED <<saved, history>>
    BY <1>4 DEF Begin
  <2>2. HistoryIsBacked' /\ (Behind => Behind')
    BY <1>a, <1>m, <2>1, HistoryStays
  <2>3. QED
    BY <1>a, <1>m, <1>4, <2>1, <2>2 DEF Begin, NoCheck
<1>5. CASE CheckLook
  <2>1. UNCHANGED <<saved, history>>
    BY <1>5 DEF CheckLook
  <2>2. HistoryIsBacked' /\ (Behind => Behind')
    BY <1>a, <1>m, <2>1, HistoryStays
  <2>3. QED
    BY <1>a, <1>m, <1>5, <2>1, <2>2 DEF CheckLook, CheckAt, CheckGoto, Fail,
       ProtocolInv
<1>6. CASE CheckLock
  <2>1. UNCHANGED <<saved, history>>
    BY <1>6 DEF CheckLock
  <2>2. HistoryIsBacked' /\ (Behind => Behind')
    BY <1>a, <1>m, <2>1, HistoryStays
  <2>3. QED
    BY <1>a, <1>m, <1>6, <2>1, <2>2 DEF CheckLock, CheckAt, CheckGoto, Fail,
       LockFree, ProtocolInv
<1>7. CASE CheckRaises
  <2>1. UNCHANGED <<saved, history>>
    BY <1>7 DEF CheckRaises
  <2>2. HistoryIsBacked' /\ (Behind => Behind')
    BY <1>a, <1>m, <2>1, HistoryStays
  <2>3. QED
    BY <1>a, <1>m, <1>7, <2>1, <2>2 DEF CheckRaises, CheckAt, CheckGoto, Fail,
       Unlocked, ProtocolInv
<1>8. CASE CheckReplace
  <2>1. /\ Checking /\ check.pc = "locked" /\ monitor.state = "active"
        /\ UNCHANGED <<saved, history>>
    BY <1>a, <1>8 DEF CheckReplace, CheckAt, ProtocolInv
  <2>2. check'.pc = "saving"
    BY <1>m, <1>8 DEF CheckReplace, CheckGoto, Fail
  <2>3. monitor' = Counted \/ Fail
    BY <1>8 DEF CheckReplace
  <2>4. \/ monitor'.state = "failed" /\ monitor'.count = monitor.count
        \/ /\ monitor'.count = monitor.count + 1
           /\ monitor'.state = "active" => monitor.count + 1 < MaxChecks
    <3>1. CASE monitor' = Counted
      BY <1>m, <3>1 DEF Counted
    <3>2. CASE Fail
      BY <1>m, <3>2 DEF Fail
    <3>3. QED
      BY <2>3, <3>1, <3>2
  <2>5. HistoryIsBacked'
    BY <1>a, <1>m, <2>1, HistoryStays
  <2>6. QED
    BY <1>a, <1>m, <2>1, <2>2, <2>4, <2>5
<1>9. CASE CheckSave
  <2>1. /\ Checking /\ check.pc = "saving" /\ history' = history
        /\ monitor'.state = monitor.state /\ monitor'.count = monitor.count
        /\ monitor.state # "absent"
    BY <1>a, <1>m, <1>9 DEF CheckSave, CheckAt, CheckBreaks, ProtocolInv
  <2>2. \/ saved' = saved /\ ~Checking'
        \/ /\ saved'.count = monitor.count /\ saved'.state = monitor.state
           /\ ~Checking' \/ (check'.pc = "appending" /\ monitor.state # "failed")
    BY <1>m, <1>9 DEF CheckSave, CheckBreaks, CheckGoto, NoCheck, Row
  <2>3. saved.count <= saved'.count /\ saved'.count \in Nat
    BY <1>a, <1>m, <2>1, <2>2
  <2>4. HistoryIsBacked' /\ (saved.count < saved'.count => Behind')
    BY <1>a, <2>1, <2>3, HistoryStays
  <2>5. QED
    BY <1>a, <1>m, <2>1, <2>2, <2>4
<1>10. CASE CheckAppend
  <2>1. /\ Checking /\ check.pc = "appending" /\ saved' = saved /\ ~Checking'
        /\ monitor'.state = monitor.state /\ monitor'.count = monitor.count
    BY <1>a, <1>m, <1>10 DEF CheckAppend, CheckAt, CheckBreaks, NoCheck
  <2>2. history' = history \/ history' = Append(history, monitor.count)
    BY <1>10 DEF CheckAppend
  <2>3. HistoryIsBacked'
    BY <1>a, <1>m, <2>1, <2>2, HistoryGrows, HistoryStays
  <2>4. QED
    BY <1>a, <1>m, <2>1, <2>3
<1>11. CASE LoopEnds
  <2>1. UNCHANGED <<saved, history>>
    BY <1>11 DEF LoopEnds
  <2>2. HistoryIsBacked' /\ (Behind => Behind')
    BY <1>a, <1>m, <2>1, HistoryStays
  <2>3. QED
    BY <1>a, <1>m, <1>11, <2>1, <2>2 DEF LoopEnds
<1>12. CASE StopAsk
  <2>1. /\ monitor'.state = monitor.state /\ monitor'.count = monitor.count
        /\ monitor.state # "absent"
    BY <1>m, <1>12 DEF StopAsk
  <2>2. \/ UNCHANGED <<check, saved, history>>
        \/ /\ ~Checking' /\ Checking
           /\ \/ saved' = saved
              \/ saved'.state = monitor.state /\ saved'.count = monitor.count
           /\ \/ history' = history
              \/ /\ check.pc = "appending" /\ saved' = saved
                 /\ history' = Append(history, monitor.count)
    BY <1>m, <1>12 DEF StopAsk, NoCheck, Row
  <2>3. saved.count <= saved'.count /\ saved'.count \in Nat
    BY <1>a, <1>m, <2>1, <2>2
  <2>4. HistoryIsBacked' /\ (saved' = saved /\ history' = history /\ Behind => Behind')
    BY <1>a, <1>m, <2>2, <2>3, HistoryGrows, HistoryStays
  <2>5. QED
    BY <1>a, <1>m, <2>1, <2>2, <2>4
<1>13. CASE StopLock
  <2>1. UNCHANGED <<saved, history>>
    BY <1>13 DEF StopLock
  <2>2. HistoryIsBacked' /\ (Behind => Behind')
    BY <1>a, <1>m, <2>1, HistoryStays
  <2>3. QED
    BY <1>a, <1>m, <1>13, <2>1, <2>2 DEF StopLock, Stopped, NoCheck
<1>14. CASE StopSave
  <2>1. monitor' = monitor /\ history' = history /\ monitor.state # "absent"
    BY <1>a, <1>14 DEF StopSave, ProtocolInv
  <2>2. /\ saved' = saved \/ (saved'.state = monitor.state /\ saved'.count = monitor.count)
        /\ ~Checking'
    BY <1>14 DEF StopSave, Row, NoCheck
  <2>3. saved.count <= saved'.count /\ saved'.count \in Nat
    BY <1>a, <1>m, <2>1, <2>2
  <2>4. HistoryIsBacked'
    BY <1>a, <2>1, <2>3, HistoryStays
  <2>5. QED
    BY <1>a, <1>m, <2>1, <2>2, <2>4
<1>15. CASE Crash
  <2>1. UNCHANGED <<saved, history>>
    BY <1>15 DEF Crash
  <2>2. HistoryIsBacked' /\ (Behind => Behind')
    BY <1>a, <1>m, <2>1, HistoryStays
  <2>3. QED
    BY <1>a, <1>m, <1>15, <2>1, <2>2 DEF Crash, NoMonitor, NoCheck, NoRequest,
       NewRun
<1>16. CASE Startup
  <2>1. /\ check' = check /\ check.by = "nobody" /\ history' = history
        /\ monitor.state = "absent"
    BY <1>a, <1>16 DEF Startup, ProtocolInv
  <2>2. \/ UNCHANGED <<monitor, saved>>
        \/ saved.state = "active" /\ saved' = saved /\ monitor' = Recovered
        \/ saved' = [saved EXCEPT !.state = "failed"] /\ monitor' = monitor
    BY <1>16 DEF Startup
  <2>3. saved'.count = saved.count
    BY <1>m, <2>2
  <2>4. HistoryIsBacked'
    BY <1>a, <1>m, <2>1, <2>3, HistoryStays
  <2>5. QED
    BY <1>a, <1>m, <2>1, <2>2, <2>3, <2>4 DEF Recovered
<1>17. CASE \/ UNCHANGED vars \/ Evict \/ Rewrite
          \/ \E q \in Replans : Look(q) \/ Lock(q) \/ GiveUp(q) \/ Replace(q)
  <2>1. UNCHANGED <<up, monitorVars, storeVars>> /\ spent'.saves = spent.saves
    BY <1>a, <1>17, CacheStep
  <2>2. QED
    BY <1>a, <1>m, <2>1, HistoryStays
<1>18. QED
  BY <1>1, <1>2, <1>3, <1>4, <1>5, <1>6, <1>7, <1>8, <1>9, <1>10, <1>11, <1>12,
     <1>13, <1>14, <1>15, <1>16, <1>17 DEF Next, Check

\* The types of the variables that are not the cache's.
RequestTypes ==
  /\ replan \in [Replans -> [pc : {"idle", "looked", "locked", "answered"}, base : Run]]
  /\ told \subseteq Replans

MonitorTypes ==
  /\ up \in BOOLEAN
  /\ monitor \in [state : States, count : 0..MaxChecks, task : BOOLEAN]
  /\ check \in [by : {"nobody", "loop", "now", "stop"},
                pc : {"idle", "begun", "looked", "locked", "saving", "appending"},
                base : Run]
  /\ start \in {"idle", "saving", "answered", "failed"}
  /\ stop \in {"idle", "asked", "answered"}
  /\ saved \in [state : States, count : 0..MaxChecks]

\* Every step leaves the requests of their types.
LEMMA RequestTypeStep == RunsInv /\ [Next]_vars => RequestTypes'
<1> SUFFICES ASSUME RunsInv, [Next]_vars
             PROVE  RequestTypes'
  OBVIOUS
<1>a. RequestTypes /\ cache.run \in Run
  BY CacheTyped DEF RunsInv, TypeOK, CacheType, RequestTypes
<1> USE DEF RequestTypes, requestVars
<1>1. ASSUME NEW q \in Replans, Look(q)
       PROVE  RequestTypes'
  <2>1. /\ told' = told
        /\ \/ replan' = [replan EXCEPT ![q].pc = "answered"]
           \/ replan' = [replan EXCEPT ![q].pc = "looked"]
    BY <1>1 DEF Look, Goto
  <2>2. QED
    BY <1>a, <2>1
<1>2. ASSUME NEW q \in Replans, Lock(q)
       PROVE  RequestTypes'
  <2>1. /\ told' = told
        /\ \/ replan' = [replan EXCEPT ![q] = [pc |-> "locked", base |-> cache.run]]
           \/ replan' = [replan EXCEPT ![q].pc = "answered"]
    BY <1>2 DEF Lock, Goto
  <2>2. QED
    BY <1>a, <2>1
<1>3. ASSUME NEW q \in Replans, GiveUp(q)
       PROVE  RequestTypes'
  BY <1>a, <1>3 DEF GiveUp, Goto
<1>4. ASSUME NEW q \in Replans, Replace(q)
       PROVE  RequestTypes'
  <2>1. /\ told' \in {told, told \cup {q}}
        /\ replan' = [replan EXCEPT ![q].pc = "answered"]
    BY <1>4 DEF Replace, Goto
  <2>2. QED
    BY <1>a, <2>1
<1>5. CASE Crash
  <2>1. NoRequest \in [pc : {"idle"}, base : Run]
    BY DEF NoRequest, NewRun, Run
  <2>2. QED
    BY <1>a, <1>5, <2>1 DEF Crash
<1>6. CASE \/ UNCHANGED vars \/ Evict \/ Rewrite \/ Start \/ StartSave
           \/ Begin("loop") \/ Begin("now") \/ CheckLook \/ CheckLock
           \/ CheckRaises \/ CheckReplace \/ CheckSave \/ CheckAppend
           \/ LoopEnds \/ StopAsk \/ StopLock \/ StopSave \/ Startup
  BY <1>a, <1>6 DEF vars, Evict, Rewrite, Start, StartSave, Begin, CheckLook,
     CheckLock, CheckRaises, CheckReplace, CheckSave, CheckAppend, LoopEnds,
     StopAsk, StopLock, StopSave, Startup
<1>7. QED
  BY <1>1, <1>2, <1>3, <1>4, <1>5, <1>6 DEF Next, Check

\* A transaction that raises leaves the record of its type.
LEMMA BreaksType ==
  ASSUME MonitorTypes, CheckBreaks \/ monitor' = monitor
  PROVE  monitor' \in [state : States, count : 0..MaxChecks, task : BOOLEAN]
<1> DEFINE b == monitor.task /\ check.by # "loop"
<1>1. b \in BOOLEAN
  OBVIOUS
<1>2. monitor' = monitor \/ monitor' = [monitor EXCEPT !.task = b]
  BY DEF CheckBreaks
<1> HIDE DEF b
<1>3. QED
  BY <1>1, <1>2 DEF MonitorTypes

\* The history numbers checks of the monitor.
LEMMA HistoryTypeStep == RunsInv /\ [Next]_vars => history' \in Seq(1..MaxChecks)
<1> SUFFICES ASSUME RunsInv, [Next]_vars
             PROVE  history' \in Seq(1..MaxChecks)
  OBVIOUS
<1>1. history \in Seq(1..MaxChecks) /\ monitor.count \in 0..MaxChecks /\ MaxChecks \in Nat
  BY LiveRunsAssumption DEF RunsInv, TypeOK
<1>2. Checking /\ check.pc = "appending" => monitor.count \in 1..MaxChecks
  <2>1. Checking /\ check.pc = "appending" => monitor.count > 0
    BY DEF RunsInv, HistoryInv
  <2>2. QED
    BY <1>1, <2>1
<1>3. \/ history' = history
      \/ Checking /\ check.pc = "appending" /\ history' = Append(history, monitor.count)
  BY DEF Next, Check, vars, cacheVars, requestVars, monitorVars, storeVars, Evict,
         Rewrite, Look, Lock, GiveUp, Replace, Start, StartSave, Begin, CheckLook,
         CheckLock, CheckRaises, CheckReplace, CheckSave, CheckAppend, CheckAt,
         LoopEnds, StopAsk, StopLock, StopSave, Crash, Startup, Checking
<1>4. CASE history' = history
  BY <1>1, <1>4
<1>5. CASE Checking /\ check.pc = "appending" /\ history' = Append(history, monitor.count)
  <2>1. monitor.count \in 1..MaxChecks
    BY <1>2, <1>5
  <2>2. QED
    BY <1>1, <1>5, <2>1
<1>6. QED
  BY <1>3, <1>4, <1>5

\* Every step leaves the monitor, its row and its history of their types.
LEMMA MonitorTypeStep == RunsInv /\ [Next]_vars => MonitorTypes'
<1> SUFFICES ASSUME RunsInv, [Next]_vars
             PROVE  MonitorTypes'
  OBVIOUS
<1>a. MonitorTypes /\ cache.run \in Run /\ MaxChecks \in Nat \ {0}
  BY CacheTyped, LiveRunsAssumption DEF RunsInv, TypeOK, CacheType, MonitorTypes
<1>b. ProtocolInv /\ HistoryInv
  BY DEF RunsInv
<1>c. /\ NoCheck \in [by : {"nobody"}, pc : {"idle"}, base : Run]
      /\ {"absent", "active", "stopped", "completed", "failed"} \subseteq States
  BY DEF NoCheck, NewRun, Run, States, Ended
<1> USE DEF MonitorTypes, vars, cacheVars, requestVars, monitorVars, storeVars
<1>1. CASE Start
  BY <1>a, <1>b, <1>c, <1>1 DEF Start
<1>2. CASE StartSave
  BY <1>a, <1>b, <1>c, <1>2 DEF StartSave, Row, SaveFaulty, FileFaulty, SaveFails
<1>3. CASE Begin("loop")
  BY <1>a, <1>b, <1>c, <1>3 DEF Begin, NoCheck
<1>4. CASE Begin("now")
  BY <1>a, <1>b, <1>c, <1>4 DEF Begin, NoCheck
<1>5. CASE CheckLook
  BY <1>a, <1>b, <1>c, <1>5 DEF CheckLook, CheckAt, CheckGoto, Fail
<1>6. CASE CheckLock
  <2>1. CASE /\ check' = [check EXCEPT !.pc = "locked", !.base = cache.run]
             /\ UNCHANGED monitor
    BY <1>a, <1>6, <2>1 DEF CheckLock
  <2>2. CASE Fail
    BY <1>a, <1>b, <1>c, <1>6, <2>2 DEF CheckLock, CheckAt, CheckGoto, Fail
  <2>3. QED
    BY <1>6, <2>1, <2>2 DEF CheckLock
<1>7. CASE CheckRaises
  BY <1>a, <1>b, <1>c, <1>7 DEF CheckRaises, CheckAt, CheckGoto, Fail, Unlocked
<1>8. CASE CheckReplace
  <2>1. monitor.count + 1 \in 0..MaxChecks
    BY <1>a, <1>b, <1>8 DEF CheckReplace, CheckAt, ProtocolInv, HistoryInv, Checking
  <2>2. \/ monitor' = Counted
        \/ monitor' = [monitor EXCEPT !.state = "failed"]
    BY <1>8 DEF CheckReplace, Fail
  <2>3. /\ check' = [check EXCEPT !.pc = "saving"]
        /\ UNCHANGED <<up, start, stop, saved>>
    BY <1>8 DEF CheckReplace, CheckGoto, Fail
  <2>4. Counted \in [state : States, count : 0..MaxChecks, task : BOOLEAN]
    BY <1>a, <1>c, <2>1 DEF Counted
  <2>5. QED
    BY <1>a, <1>c, <2>2, <2>3, <2>4
<1>9. CASE CheckSave
  <2>1. saved' \in {saved, Row(monitor)} /\ UNCHANGED <<up, start, stop>>
    BY <1>9 DEF CheckSave
  <2>2. check' \in {NoCheck, [check EXCEPT !.pc = "appending"]}
    BY <1>9 DEF CheckSave, CheckBreaks, CheckGoto
  <2>3. monitor' \in [state : States, count : 0..MaxChecks, task : BOOLEAN]
    BY <1>a, <1>9, BreaksType DEF CheckSave
  <2>4. QED
    BY <1>a, <1>c, <2>1, <2>2, <2>3 DEF Row
<1>10. CASE CheckAppend
  <2>1. check' = NoCheck /\ UNCHANGED <<up, start, stop, saved>>
    BY <1>10 DEF CheckAppend, CheckBreaks
  <2>2. monitor' \in [state : States, count : 0..MaxChecks, task : BOOLEAN]
    BY <1>a, <1>10, BreaksType DEF CheckAppend
  <2>3. QED
    BY <1>a, <1>c, <2>1, <2>2
<1>11. CASE LoopEnds
  BY <1>a, <1>b, <1>c, <1>11 DEF LoopEnds
<1>12. CASE StopAsk
  <2>1. /\ check' \in {check, NoCheck} /\ stop' = "asked" /\ UNCHANGED <<up, start>>
        /\ saved' \in {saved, Row(monitor)} /\ monitor' = [monitor EXCEPT !.task = FALSE]
    BY <1>12 DEF StopAsk
  <2>2. Row(monitor) \in [state : States, count : 0..MaxChecks]
    BY <1>a DEF Row
  <2>3. NoCheck \in [by : {"nobody", "loop", "now", "stop"},
                     pc : {"idle", "begun", "looked", "locked", "saving",
                     "appending"},
                     base : Run]
    BY <1>c
  <2>4. monitor' \in [state : States, count : 0..MaxChecks, task : BOOLEAN]
    BY <1>a, <2>1
  <2>5. saved' \in [state : States, count : 0..MaxChecks]
    BY <1>a, <2>1, <2>2
  <2>6. check' \in [by : {"nobody", "loop", "now", "stop"},
                    pc : {"idle", "begun", "looked", "locked", "saving",
                          "appending"},
                    base : Run]
    BY <1>a, <2>1, <2>3
  <2>7. up' = up /\ start' = start /\ stop' \in {"idle", "asked", "answered"}
    BY <2>1
  <2>8. QED
    BY <1>a, <2>4, <2>5, <2>6, <2>7
<1>13. CASE StopLock
  BY <1>a, <1>b, <1>c, <1>13 DEF StopLock, Stopped, NoCheck
<1>14. CASE StopSave
  BY <1>a, <1>b, <1>c, <1>14 DEF StopSave, NoCheck, Row, SaveFaulty, FileFaulty,
     SaveFails
<1>15. CASE Crash
  <2>1. up' = FALSE /\ monitor' = NoMonitor /\ check' = NoCheck /\ saved' = saved
    BY <1>15 DEF Crash
  <2>2. /\ start' \in {"failed", start} /\ stop' \in {"idle", stop}
    BY <1>15 DEF Crash
  <2>3. NoMonitor \in [state : States, count : 0..MaxChecks, task : BOOLEAN]
    BY <1>a, <1>c DEF NoMonitor
  <2>4. NoCheck \in [by : {"nobody", "loop", "now", "stop"},
                     pc : {"idle", "begun", "looked", "locked", "saving",
                     "appending"},
                     base : Run]
    BY <1>c
  <2>5. /\ monitor' \in [state : States, count : 0..MaxChecks, task : BOOLEAN]
        /\ saved' \in [state : States, count : 0..MaxChecks]
        /\ up' \in BOOLEAN
    BY <1>a, <2>1, <2>3
  <2>6. check' \in [by : {"nobody", "loop", "now", "stop"},
                    pc : {"idle", "begun", "looked", "locked", "saving",
                          "appending"},
                    base : Run]
    BY <2>1, <2>4
  <2>7. /\ start' \in {"idle", "saving", "answered", "failed"}
        /\ stop' \in {"idle", "asked", "answered"}
    BY <1>a, <2>2
  <2>8. QED
    BY <2>5, <2>6, <2>7
<1>16. CASE Startup
  <2>1. /\ up' = TRUE /\ UNCHANGED <<check, start, stop>>
        /\ monitor' = monitor \/ monitor' = Recovered
        /\ saved' = saved \/ saved' = [saved EXCEPT !.state = "failed"]
    BY <1>16 DEF Startup
  <2>2. Recovered \in [state : States, count : 0..MaxChecks, task : BOOLEAN]
    BY <1>a, <1>c DEF Recovered
  <2>3. QED
    BY <1>a, <1>c, <2>1, <2>2
<1>17. CASE \/ UNCHANGED vars
            \/ (\E q \in Replans : Look(q) \/ Lock(q) \/ GiveUp(q) \/ Replace(q))
            \/ Evict \/ Rewrite
  BY <1>a, <1>b, <1>c, <1>17 DEF Evict, Rewrite, Look, Lock, GiveUp, Replace
<1>18. QED
  BY <1>1, <1>2, <1>3, <1>4, <1>5, <1>6, <1>7, <1>8, <1>9, <1>10, <1>11, <1>12,
     <1>13, <1>14, <1>15, <1>16, <1>17 DEF Next, Check

\* Every step keeps the types.
LEMMA TypeStep == RunsInv /\ [Next]_vars => TypeOK'
<1> SUFFICES ASSUME RunsInv, [Next]_vars
             PROVE  TypeOK'
  OBVIOUS
<1>1. CacheTypes
  BY CacheTypeStep DEF RunsInv
<1>2. RequestTypes' /\ MonitorTypes' /\ history' \in Seq(1..MaxChecks)
  BY RequestTypeStep, MonitorTypeStep, HistoryTypeStep
<1>3. QED
  BY <1>1, <1>2
     DEF CacheTypes, CacheType, DiskType, SpentType, Holders, RequestTypes,
         MonitorTypes, TypeOK
-------------------------------------------------------------------------------
\* The invariant is inductive.
LEMMA RunsStep == RunsInv /\ [Next]_vars => RunsInv'
BY TypeStep, LockStep, KeptStep, CountsStep, ProtocolStep, HistoryStep, TaskStep
   DEF RunsInv

\* In every reachable state of every instance the invariant holds.
LEMMA RunsAlways == Spec => []RunsInv
<1>1. Init => RunsInv
  BY RunsInit
<1>2. RunsInv /\ [Next]_vars => RunsInv'
  BY RunsStep
<1>3. QED
  BY <1>1, <1>2, PTL DEF Spec

\* Every variable of LiveRuns keeps its type: no check is counted beyond
\* max_checks, and the history numbers checks of the monitor.
THEOREM RunsTyped == Spec => []TypeOK
<1>1. RunsInv => TypeOK
  BY DEF RunsInv
<1>2. QED
  BY <1>1, RunsAlways, PTL

\* A replan whose caller was told that the run was replanned is in the run and in the
\* snapshot as long as the run is there (replace and _persist_locked under entry.lock).
THEOREM AckedReplanSurvives == Spec => []AckedReplansKept
<1>1. RunsInv => AckedReplansKept
  BY DEF RunsInv
<1>2. QED
  BY <1>1, RunsAlways, PTL

\* The record counts no check that the run does not hold, and the row none that the
\* snapshot does not hold (replace before status.check_count, save_status after it).
THEOREM CheckIsNeverSkipped == Spec => []CountedChecksAreInTheRun
<1>1. RunsInv => CountedChecksAreInTheRun
  BY DEF RunsInv, CountsInv, CountedChecksAreInTheRun
<1>2. QED
  BY <1>1, RunsAlways, PTL

\* The stored history is in order, without repeats and behind the row (append_check
\* after save_status, _check_once under the record's lock).
THEOREM HistoryNeverAhead == Spec => []HistoryIsBacked
<1>1. RunsInv => HistoryIsBacked
  BY DEF RunsInv, HistoryInv
<1>2. QED
  BY <1>1, RunsAlways, PTL

\* Once stop was answered no check is under way and the row says that the monitor has
\* ended, restarts included.
THEOREM StopIsFinal == Spec => []StoppedIsQuiet
<1>1. RunsInv => StoppedIsQuiet
  BY DEF RunsInv, ProtocolInv, StoppedIsQuiet, Checking
<1>2. QED
  BY <1>1, RunsAlways, PTL

\* An active monitor has its loop as long as no transaction of the store failed, after
\* recover too.
THEOREM ActiveMonitorRuns == Spec => []ActiveHasTask
<1>1. RunsInv => ActiveHasTask
  BY DEF RunsInv
<1>2. QED
  BY <1>1, RunsAlways, PTL

\* What a row says of a monitor that ended is never taken back: stop writes the state
\* it finds, and recover only takes up rows that are active.
THEOREM EndIsForGood == Spec => EndedStaysEnded
<1>1. RunsInv /\ [Next]_vars => (saved.state \in Ended => saved'.state = saved.state)
  <2> SUFFICES ASSUME RunsInv, [Next]_vars, saved.state \in Ended
               PROVE  saved'.state = saved.state
    OBVIOUS
  <2>1. /\ start = "saving" => saved.state = "absent"
        /\ check.by # "nobody" => monitor.state # "absent"
        /\ monitor.state # "absent" => monitor.state = saved.state
    BY DEF RunsInv, ProtocolInv
  <2>2. /\ saved.state # "absent" /\ saved.state # "active"
    BY DEF Ended
  <2>3. \/ saved' = saved
        \/ start = "saving"
        \/ /\ check.by # "nobody" /\ saved' = Row(monitor)
        \/ saved.state = "active"
    BY DEF Next, Check, vars, cacheVars, requestVars, monitorVars, storeVars, Evict,
           Rewrite, Look, Lock, GiveUp, Replace, Start, StartSave, Begin, CheckLook,
           CheckLock, CheckRaises, CheckReplace, CheckSave, CheckAppend, CheckAt,
           LoopEnds, StopAsk, StopLock, StopSave, Crash, Startup
  <2>4. QED
    BY <2>1, <2>2, <2>3 DEF Row
<1>2. QED
  BY <1>1, RunsAlways, PTL DEF Spec, EndedStaysEnded

===============================================================================
