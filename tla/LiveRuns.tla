-------------------------------- MODULE LiveRuns --------------------------------
(***************************************************************************)
(* One cached live run, the requests that replan it and the monitor that   *)
(* revalidates it periodically.                                            *)
(* Source: LiveRunCache, the endpoints of live plans and live monitors and *)
(* the monitor's callback in main.py, agents/live_monitor.py and           *)
(* persistence/live_monitors.py.                                           *)
(*                                                                         *)
(* An operation of the cache holds the cache's lock and writes its         *)
(* snapshot without an await: it is a step.  So is a transaction of the    *)
(* monitor store.  What a run holds is abstracted to the replans and the   *)
(* checks that went into it.  Other runs are there as what they do to this *)
(* one: they push it out and they rewrite the snapshot.                    *)
(***************************************************************************)
EXTENDS Naturals, Sequences

CONSTANTS
  Replans,     \* requests to replan or to modify the run
  Nobody,      \* holds no lock
  Monitor,     \* the monitor's callback, as the holder of the run's lock
  MaxChecks,   \* max_checks of the monitor
  MaxCrashes,  \* bound: ends of the API process, closed or killed
  MaxFaults    \* bound: snapshots and transactions that fail

ASSUME LiveRunsAssumption ==
  /\ MaxChecks \in Nat \ {0} /\ MaxCrashes \in Nat /\ MaxFaults \in Nat
  /\ Nobody \notin Replans /\ Monitor \notin Replans /\ Nobody # Monitor

VARIABLES
  up,        \* does the API process run?
  cache,     \* the entry of the run in memory and who holds its lock
  disk,      \* the entry of the run in the snapshot file
  replan,    \* where each request is, and the run it started from
  told,      \* requests whose caller was told that the run was replanned
  monitor,   \* the record of the registry
  check,     \* who holds the record's lock, and where it is
  start,     \* the request that started the monitor
  stop,      \* the request that stops it
  saved,     \* the monitor's row
  history,   \* the sequence numbers of its check rows, in the order of insertion
  spent      \* crashes and faults so far

cacheVars   == <<cache, disk>>
requestVars == <<replan, told>>
monitorVars == <<monitor, check, start, stop>>
storeVars   == <<saved, history>>
vars        == <<up, cacheVars, requestVars, monitorVars, storeVars, spent>>

Ended  == {"stopped", "completed", "failed"}
States == {"absent", "active"} \cup Ended
Run    == [replans : SUBSET Replans, checks : Nat]
NewRun == [replans |-> {}, checks |-> 0]

NoRequest == [pc |-> "idle", base |-> NewRun]
NoMonitor == [state |-> "absent", count |-> 0, task |-> FALSE]
NoCheck   == [by |-> "nobody", pc |-> "idle", base |-> NewRun]

TypeOK ==
  /\ up \in BOOLEAN
  /\ cache \in [present : BOOLEAN, run : Run, lock : Replans \cup {Nobody, Monitor}]
  /\ disk \in [present : BOOLEAN, run : Run]
  /\ replan \in [Replans -> [pc : {"idle", "looked", "locked", "answered"}, base : Run]]
  /\ told \subseteq Replans
  /\ monitor \in [state : States, count : 0..MaxChecks, task : BOOLEAN]
  /\ check \in [by : {"nobody", "loop", "now", "stop"},
                pc : {"idle", "begun", "looked", "locked", "saving", "appending"},
                base : Run]
  /\ start \in {"idle", "saving", "answered", "failed"}
  /\ stop \in {"idle", "asked", "answered"}
  /\ saved \in [state : States, count : 0..MaxChecks]
  /\ history \in Seq(1..MaxChecks)
  /\ spent \in [crashes : 0..MaxCrashes, files : 0..MaxFaults, saves : 0..MaxFaults]

\* A run has been planned and put in the cache.
Init ==
  /\ up = TRUE
  /\ cache = [present |-> TRUE, run |-> NewRun, lock |-> Nobody]
  /\ disk = [present |-> TRUE, run |-> NewRun]
  /\ replan = [q \in Replans |-> NoRequest] /\ told = {}
  /\ monitor = NoMonitor /\ check = NoCheck
  /\ start = "idle" /\ stop = "idle"
  /\ saved = [state |-> "absent", count |-> 0] /\ history = <<>>
  /\ spent = [crashes |-> 0, files |-> 0, saves |-> 0]
-------------------------------------------------------------------------------
(* The cache.  A change is made in memory and written out; when the write     *)
(* raises, memory is put back, but the snapshot may have been renamed before. *)

Written(c)   == [present |-> c.present, run |-> c.run]
FileFaulty   == spent.files + spent.saves < MaxFaults
FileFails    == spent' = [spent EXCEPT !.files = @ + 1]

\* Mutant: the change is not written out.
CommitUnwritten(c) == cache' = c /\ UNCHANGED <<disk, spent>>

Commit(c) == cache' = c /\ disk' = Written(c) /\ UNCHANGED spent

\* The lock is given back whatever happens to the change.
Rollback(c) ==
  /\ FileFaulty /\ FileFails
  /\ cache' = [cache EXCEPT !.lock = c.lock]
  /\ \/ disk' = disk
     \/ disk' = Written(c)

\* put of another run at capacity, or any operation once the time to live is over.
Evict ==
  /\ up /\ cache.present
  /\ LET c == [cache EXCEPT !.present = FALSE, !.run = NewRun] IN
       Commit(c) \/ Rollback(c)
  /\ UNCHANGED <<up, requestVars, monitorVars, storeVars>>

\* An operation on another run, or a get that moves this one to the end.
Rewrite ==
  /\ up /\ disk # Written(cache)
  /\ Commit(cache)
  /\ UNCHANGED <<up, requestVars, monitorVars, storeVars>>
-------------------------------------------------------------------------------
(* live_agent_event_replan_endpoint and modify_live_agent_plan_endpoint.     *)

Goto(q, pc) == replan' = [replan EXCEPT ![q].pc = pc]
Unlocked    == [cache EXCEPT !.lock = Nobody]

\* The first get.
Look(q) ==
  /\ up /\ replan[q].pc = "idle"
  /\ Goto(q, IF cache.present THEN "looked" ELSE "answered")
  /\ UNCHANGED <<up, cacheVars, told, monitorVars, storeVars, spent>>

\* Mutant: the request does not wait for the lock.
LockFreeNoWait == TRUE

LockFree == cache.lock = Nobody

\* async with entry.lock, and the second get.
Lock(q) ==
  /\ up /\ replan[q].pc = "looked"
  /\ \/ /\ cache.present /\ LockFree
        /\ cache' = [cache EXCEPT !.lock = q]
        /\ replan' = [replan EXCEPT ![q] = [pc |-> "locked", base |-> cache.run]]
     \/ /\ ~cache.present
        /\ Goto(q, "answered") /\ UNCHANGED cache
  /\ UNCHANGED <<up, disk, told, monitorVars, storeVars, spent>>

\* Mutant: a request that gives up keeps the lock.
GiveUpLocked(q) ==
  /\ up /\ replan[q].pc = "locked"
  /\ Goto(q, "answered")
  /\ UNCHANGED <<up, cacheVars, told, monitorVars, storeVars, spent>>

\* The live system refuses, or asks back, and nothing is replaced.
GiveUp(q) ==
  /\ up /\ replan[q].pc = "locked"
  /\ cache' = Unlocked
  /\ Goto(q, "answered")
  /\ UNCHANGED <<up, disk, told, monitorVars, storeVars, spent>>

\* _advance_cached_live_run, or a plan modified, and replace.  A global replan
\* takes the place of the run it was asked for and counts as a replan of it.
Replace(q) ==
  /\ up /\ replan[q].pc = "locked"
  /\ LET base == replan[q].base
         c == [Unlocked EXCEPT !.run = [base EXCEPT !.replans = @ \cup {q}]]
     IN \/ cache.present /\ Commit(c) /\ told' = told \cup {q}
        \/ cache.present /\ Rollback(c) /\ UNCHANGED told
        \/ ~cache.present /\ cache' = Unlocked /\ UNCHANGED <<disk, told, spent>>
  /\ Goto(q, "answered")
  /\ UNCHANGED <<up, monitorVars, storeVars>>
-------------------------------------------------------------------------------
(* The monitor's own transactions.  A save or an append may raise.           *)

SaveFaulty == FileFaulty
SaveFails  == spent' = [spent EXCEPT !.saves = @ + 1]

\* Mutant: a row that exists keeps its count.
RowUncounted(m) == [state |-> m.state, count |-> saved.count]

Row(m) == [state |-> m.state, count |-> m.count]

\* start_live_monitor_endpoint and registry.start: the loop exists before the row.
Start ==
  /\ up /\ start = "idle" /\ cache.present
  /\ monitor' = [state |-> "active", count |-> 0, task |-> TRUE]
  /\ start' = "saving"
  /\ UNCHANGED <<up, cacheVars, requestVars, check, stop, storeVars, spent>>

StartSave ==
  /\ up /\ start = "saving"
  /\ \/ start' = "answered" /\ saved' = Row(monitor) /\ UNCHANGED spent
     \/ start' = "failed" /\ SaveFaulty /\ SaveFails /\ UNCHANGED saved
  /\ UNCHANGED <<up, cacheVars, requestVars, monitor, check, stop, history>>

\* _check_once takes the record's lock: the loop after its sleep, or check_now.
\* The row of a new monitor is written within the first interval.
Begin(by) ==
  /\ up /\ check.by = "nobody" /\ monitor.state = "active"
  /\ CASE by = "loop" -> monitor.task /\ start # "saving"
       [] by = "now"  -> start = "answered"
  /\ check' = [NoCheck EXCEPT !.by = by, !.pc = "begun"]
  /\ UNCHANGED <<up, cacheVars, requestVars, monitor, start, stop, storeVars, spent>>

CheckAt(pc)   == up /\ check.by \in {"loop", "now"} /\ check.pc = pc
CheckGoto(pc) == check' = [check EXCEPT !.pc = pc]
Fail          == monitor' = [monitor EXCEPT !.state = "failed"] /\ CheckGoto("saving")

\* _perform_live_monitor_check: the first get, the lock and the second get.
CheckLook ==
  /\ CheckAt("begun")
  /\ \/ cache.present /\ CheckGoto("looked") /\ UNCHANGED monitor
     \/ ~cache.present /\ Fail
  /\ UNCHANGED <<up, cacheVars, requestVars, start, stop, storeVars, spent>>

CheckLock ==
  /\ CheckAt("looked")
  /\ \/ /\ cache.present /\ LockFree
        /\ cache' = [cache EXCEPT !.lock = Monitor]
        /\ check' = [check EXCEPT !.pc = "locked", !.base = cache.run]
        /\ UNCHANGED monitor
     \/ ~cache.present /\ Fail /\ UNCHANGED cache
  /\ UNCHANGED <<up, disk, requestVars, start, stop, storeVars, spent>>

\* The package is not accepted or not fresh enough any more, or its replan raises.
CheckRaises ==
  /\ CheckAt("locked")
  /\ cache' = Unlocked /\ Fail
  /\ UNCHANGED <<up, disk, requestVars, start, stop, storeVars, spent>>

\* replace; when it succeeds the check is counted before the next await.
\* Mutant: one check too many.
CountedLate ==
  LET n == monitor.count + 1 IN
  [monitor EXCEPT !.count = n, !.state = IF n > MaxChecks THEN "completed" ELSE @]

Counted ==
  LET n == monitor.count + 1 IN
  [monitor EXCEPT !.count = n, !.state = IF n >= MaxChecks THEN "completed" ELSE @]

CheckReplace ==
  /\ CheckAt("locked")
  /\ LET c == [Unlocked EXCEPT !.run = [check.base EXCEPT !.checks = @ + 1]] IN
       \/ cache.present /\ Commit(c) /\ monitor' = Counted /\ CheckGoto("saving")
       \/ cache.present /\ Rollback(c) /\ Fail
       \/ ~cache.present /\ cache' = Unlocked /\ Fail /\ UNCHANGED <<disk, spent>>
  /\ UNCHANGED <<up, requestVars, start, stop, storeVars>>

\* A raise ends the loop, or the request that asked for the check.
CheckBreaks ==
  /\ check' = NoCheck
  /\ monitor' = [monitor EXCEPT !.task = @ /\ check.by # "loop"]

CheckSave ==
  /\ CheckAt("saving")
  /\ \/ /\ saved' = Row(monitor) /\ UNCHANGED <<monitor, spent>>
        /\ IF monitor.state = "failed" THEN check' = NoCheck ELSE CheckGoto("appending")
     \/ CheckBreaks /\ SaveFaulty /\ SaveFails /\ UNCHANGED saved
  /\ UNCHANGED <<up, cacheVars, requestVars, start, stop, history>>

CheckAppend ==
  /\ CheckAt("appending")
  /\ \/ history' = Append(history, monitor.count) /\ check' = NoCheck
        /\ UNCHANGED <<monitor, spent>>
     \/ CheckBreaks /\ SaveFaulty /\ SaveFails /\ UNCHANGED history
  /\ UNCHANGED <<up, cacheVars, requestVars, start, stop, saved>>

\* _run looks at the state again.
LoopEnds ==
  /\ up /\ monitor.task /\ check.by # "loop" /\ monitor.state \in Ended
  /\ monitor' = [monitor EXCEPT !.task = FALSE]
  /\ UNCHANGED <<up, cacheVars, requestVars, check, start, stop, storeVars, spent>>
-------------------------------------------------------------------------------
(* stop: cancel the task and wait for it, then take the record's lock.       *)

\* The cancelled task lets go of what it holds; the transaction it was in may
\* have been committed.
StopAsk ==
  /\ up /\ start = "answered" /\ stop # "asked" /\ monitor.state # "absent"
  /\ stop' = "asked"
  /\ monitor' = [monitor EXCEPT !.task = FALSE]
  /\ IF check.by = "loop"
       THEN /\ check' = NoCheck
            /\ cache' = IF check.pc = "locked" THEN Unlocked ELSE cache
            /\ saved' \in {saved} \cup (IF check.pc = "saving" THEN {Row(monitor)} ELSE {})
            /\ history' \in {history} \cup
                 (IF check.pc = "appending" THEN {Append(history, monitor.count)} ELSE {})
       ELSE UNCHANGED <<check, cache, saved, history>>
  /\ UNCHANGED <<up, disk, requestVars, start, spent>>

\* Mutant: whatever the monitor came to, it is stopped.
StoppedAlways == [monitor EXCEPT !.state = "stopped"]

Stopped == [monitor EXCEPT !.state = IF @ = "active" THEN "stopped" ELSE @]

StopLock ==
  /\ up /\ stop = "asked" /\ check.by = "nobody"
  /\ monitor' = Stopped
  /\ check' = [NoCheck EXCEPT !.by = "stop", !.pc = "saving"]
  /\ UNCHANGED <<up, cacheVars, requestVars, start, stop, storeVars, spent>>

\* Mutant: the stop is not stored.
StopSaveMemory ==
  /\ up /\ check.by = "stop"
  /\ stop' = "answered" /\ check' = NoCheck
  /\ UNCHANGED <<up, cacheVars, requestVars, monitor, start, storeVars, spent>>

StopSave ==
  /\ up /\ check.by = "stop"
  /\ \/ saved' = Row(monitor) /\ stop' = "answered" /\ UNCHANGED spent
     \/ stop' = "idle" /\ SaveFaulty /\ SaveFails /\ UNCHANGED saved
  /\ check' = NoCheck
  /\ UNCHANGED <<up, cacheVars, requestVars, monitor, start, history>>
-------------------------------------------------------------------------------
(* The process ends, by lifespan or by force, and another one starts.        *)

Crash ==
  /\ up /\ spent.crashes < MaxCrashes
  /\ up' = FALSE
  /\ spent' = [spent EXCEPT !.crashes = @ + 1]
  /\ cache' = [present |-> FALSE, run |-> NewRun, lock |-> Nobody]
  /\ replan' = [q \in Replans |->
       IF replan[q].pc = "idle" THEN NoRequest ELSE [NoRequest EXCEPT !.pc = "answered"]]
  /\ monitor' = NoMonitor /\ check' = NoCheck
  /\ start' = IF start = "saving" THEN "failed" ELSE start
  /\ stop' = IF stop = "asked" THEN "idle" ELSE stop
  /\ UNCHANGED <<disk, told, storeVars>>

\* Mutant: the record is there again, its loop is not.
RecoveredIdle == [state |-> "active", count |-> saved.count, task |-> FALSE]

Recovered == [state |-> "active", count |-> saved.count, task |-> TRUE]

\* _restore leaves out what has outlived its time; recover takes up the active
\* monitor if its run is there, and ends it otherwise.
Startup ==
  /\ ~up /\ up' = TRUE
  /\ \E keep \in {disk, [present |-> FALSE, run |-> NewRun]} :
       /\ disk' = keep
       /\ cache' = [present |-> keep.present, run |-> keep.run, lock |-> Nobody]
  /\ IF saved.state = "active"
       THEN IF cache'.present
              THEN monitor' = Recovered /\ UNCHANGED saved
              ELSE saved' = [saved EXCEPT !.state = "failed"] /\ UNCHANGED monitor
       ELSE UNCHANGED <<monitor, saved>>
  /\ UNCHANGED <<requestVars, check, start, stop, history, spent>>
-------------------------------------------------------------------------------
Check == \/ Begin("loop") \/ Begin("now")
         \/ CheckLook \/ CheckLock \/ CheckRaises \/ CheckReplace
         \/ CheckSave \/ CheckAppend \/ LoopEnds

Next ==
  \/ Evict \/ Rewrite
  \/ \E q \in Replans : Look(q) \/ Lock(q) \/ GiveUp(q) \/ Replace(q)
  \/ Start \/ StartSave
  \/ Check
  \/ StopAsk \/ StopLock \/ StopSave
  \/ Crash \/ Startup

\* The event loop runs what is ready, a replan has a timeout, and a process that
\* ended is started again.
Fairness ==
  /\ \A q \in Replans : WF_vars(Lock(q)) /\ WF_vars(GiveUp(q) \/ Replace(q))
  /\ WF_vars(StartSave)
  /\ WF_vars(Begin("loop"))
  /\ WF_vars(CheckLook \/ CheckLock \/ CheckRaises \/ CheckReplace
             \/ CheckSave \/ CheckAppend)
  /\ WF_vars(StopLock) /\ WF_vars(StopSave)
  /\ WF_vars(Startup)

Spec == Init /\ [][Next]_vars /\ Fairness
-------------------------------------------------------------------------------
\* A replan whose caller was told so is in the run, in memory and in the
\* snapshot, as long as the run is there: two requests and a check that wait for
\* one another on each other's run lose nothing, nor does a write that fails.
AckedReplansKept ==
  /\ cache.present => told \subseteq cache.run.replans
  /\ disk.present => told \subseteq disk.run.replans

\* A check that the monitor counts has gone into the run, and one that its row
\* counts has gone into the snapshot: a crash may repeat a check, not skip one.
CountedChecksAreInTheRun ==
  /\ cache.present => monitor.count <= cache.run.checks
  /\ disk.present => saved.count <= disk.run.checks

\* The history numbers checks upwards, each once, and none that the row does not
\* count.
HistoryIsBacked ==
  /\ \A i \in 1..Len(history) : history[i] <= saved.count
  /\ \A i, j \in 1..Len(history) : i < j => history[i] < history[j]

\* Once its caller was told that the monitor is stopped no check is under way or
\* can be, and no restart takes it up again.
StoppedIsQuiet ==
  stop = "answered" => saved.state \in Ended /\ check.by \notin {"loop", "now"}

\* A monitor that is active has a loop, unless a stop is on its way: it is not
\* silently active.  A transaction that raises in the loop is the exception.
ActiveHasTask ==
  monitor.state = "active" /\ spent.saves = 0 => monitor.task \/ stop = "asked"

\* What the row says of a monitor that ended is never taken back.
EndedStaysEnded == [][saved.state \in Ended => saved'.state = saved.state]_vars

\* A monitor ends, by its last check if by nothing else, unless a transaction of
\* the store failed.
MonitorEnds == saved.state = "active" ~> saved.state # "active" \/ spent.saves > 0
===============================================================================
