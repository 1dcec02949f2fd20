----------------------------- MODULE BackupCoord -----------------------------
(***************************************************************************)
(* The backup coordinators of several core_data processes and the object   *)
(* store they publish archives to.                                         *)
(*                                                                         *)
(* A trigger takes a Redis lock under the process's mutex, records         *)
(* "running" and starts a run, which uploads under a temporary key, moves  *)
(* the object to its own archive key and then deletes every other managed  *)
(* object.  The status lives in memory and in Redis; Status() copies the   *)
(* Redis one over the other without holding the mutex in between.  The     *)
(* minute's cron tick claims the day first.  Runs are numbered in the      *)
(* order in which they take the lock; a run's number is its lock token,    *)
(* its archive key and, with "temp", its upload key.                       *)
(*                                                                         *)
(* One day is modelled.  The lock, renewed at a third of its lease by a     *)
(* renewal whose failure cancels the run, expires only after its run is    *)
(* over; the day's claim expires when no run or tick stands behind it.     *)
(***************************************************************************)
EXTENDS Integers, FiniteSets

CONSTANTS Nodes,      \* core_data processes
          MaxRuns,    \* bound: runs that ever take the lock
          MaxFaults   \* bound: crashes and failed Redis writes

ASSUME BackupConstants == MaxRuns \in Nat /\ MaxFaults \in Nat

Runs == 1..MaxRuns
States == {"idle", "running", "succeeded", "failed", "disabled"}
Status == [state : States, archive : 0..MaxRuns]
NoStatus == [state |-> "none", archive |-> 0]
Keys == Runs \X {"temp", "archive"}
Nobody == "nobody"

VARIABLES
  proc,       \* [Nodes -> life of the process]
  mem,        \* [Nodes -> Coordinator.status]
  poll,       \* [Nodes -> what a Status() call has loaded, or NoStatus]
  cron,       \* [Nodes -> progress of the cron tick]
  rpc, node, scheduled, \* per run: progress, process, started by the cron tick
  todo, final,          \* per run: keys to delete, the status to save
  runs,       \* runs so far
  lock,       \* Redis lock: a run or 0
  st,         \* Redis status
  claim, dayDone,               \* Redis: scheduled-running and scheduled-done of the day
  objects,    \* managed keys in the object store
  completed,  \* history: times the day was marked done
  faults

process == <<proc, poll, cron>>
run     == <<rpc, node, scheduled, todo, final, runs>>
day     == <<claim, dayDone, completed>>
vars    == <<process, mem, run, lock, st, day, objects, faults>>

TypeOK ==
  /\ proc \in [Nodes -> {"up", "stopping", "down", "boot"}]
  /\ mem \in [Nodes -> Status]
  /\ poll \in [Nodes -> Status \cup {NoStatus}]
  /\ cron \in [Nodes -> {"idle", "claimed", "trigger", "release"}]
  /\ rpc \in [Runs -> {"new", "save", "upload", "move", "list", "cleanup", "succeeded",
                       "failed", "final", "unlock", "over"}]
  /\ node \in [Runs -> Nodes \cup {Nobody}]
  /\ scheduled \in [Runs -> BOOLEAN]
  /\ todo \in [Runs -> SUBSET Keys]
  /\ final \in [Runs -> Status]
  /\ runs \in 0..MaxRuns
  /\ lock \in 0..MaxRuns
  /\ st \in Status \cup {NoStatus}
  /\ claim \in BOOLEAN /\ dayDone \in BOOLEAN
  /\ objects \in SUBSET Keys
  /\ completed \in Nat
  /\ faults \in 0..MaxFaults

Idle == [state |-> "idle", archive |-> 0]

Init ==
  /\ proc = [n \in Nodes |-> "up"]
  /\ mem = [n \in Nodes |-> Idle]
  /\ poll = [n \in Nodes |-> NoStatus]
  /\ cron = [n \in Nodes |-> "idle"]
  /\ rpc = [r \in Runs |-> "new"]
  /\ node = [r \in Runs |-> Nobody]
  /\ scheduled = [r \in Runs |-> FALSE]
  /\ todo = [r \in Runs |-> {}]
  /\ final = [r \in Runs |-> Idle]
  /\ runs = 0 /\ lock = 0 /\ st = NoStatus
  /\ claim = FALSE /\ dayDone = FALSE /\ completed = 0
  /\ objects = {}
  /\ faults = 0

-----------------------------------------------------------------------------
(* Helpers.                                                                *)

Fault == faults < MaxFaults /\ faults' = faults + 1
Goto(r, where) == rpc' = [rpc EXCEPT ![r] = where]

\* What a goroutine held is gone when it is over.
Finish(R) ==
  /\ rpc' = [r \in Runs |-> IF r \in R THEN "over" ELSE rpc[r]]
  /\ node' = [r \in Runs |-> IF r \in R THEN Nobody ELSE node[r]]
  /\ scheduled' = [r \in Runs |-> r \notin R /\ scheduled[r]]
  /\ todo' = [r \in Runs |-> IF r \in R THEN {} ELSE todo[r]]
  /\ final' = [r \in Runs |-> IF r \in R THEN Idle ELSE final[r]]

\* A run's goroutine, or the trigger that starts it, is still executing.
Active(r) == rpc[r] \notin {"new", "over"}

\* Trigger holds Coordinator.mu while it saves the status.
MutexFree(n) == \A r \in Runs : node[r] = n => rpc[r] # "save"

-----------------------------------------------------------------------------
(* The cron tick and the trigger.                                          *)

\* Defect: a day that is done can be claimed again.
DayUnclaimed == ~claim
\* claimDayScript.
DayOpen == ~claim /\ ~dayDone

ClaimDay(n) ==
  /\ proc[n] = "up" /\ cron[n] = "idle" /\ DayOpen
  /\ claim' = TRUE
  /\ cron' = [cron EXCEPT ![n] = "claimed"]
  /\ UNCHANGED <<proc, mem, poll, run, lock, st, dayDone, completed, objects, faults>>

\* Defect: the process trusts its own status.
LockIgnored == TRUE
LockFree == lock = 0

\* Trigger up to the lock: the status in memory and the Redis lock decide.
Trigger(n, sched) ==
  /\ proc[n] = "up" /\ MutexFree(n) /\ mem[n].state # "running"
  /\ cron[n] = "claimed" \/ ~sched
  /\ LockFree /\ runs < MaxRuns
  /\ lock' = runs + 1 /\ runs' = runs + 1
  /\ Goto(runs + 1, "save")
  /\ node' = [node EXCEPT ![runs + 1] = n]
  /\ scheduled' = [scheduled EXCEPT ![runs + 1] = sched]
  /\ mem' = [mem EXCEPT ![n] = [state |-> "running", archive |-> 0]]
  /\ cron' = IF sched THEN [cron EXCEPT ![n] = "trigger"] ELSE cron
  /\ UNCHANGED <<proc, poll, todo, final, st, day, objects, faults>>

\* The status is recorded before the run starts; if that fails, the lock is
\* given back and the process is idle again.
SaveRunning(r) ==
  /\ rpc[r] = "save"
  /\ \/ /\ Goto(r, "upload") /\ st' = mem[node[r]]
        /\ cron' = IF scheduled[r] THEN [cron EXCEPT ![node[r]] = "idle"] ELSE cron
        /\ UNCHANGED <<mem, lock, faults, node, scheduled, todo, final>>
     \/ /\ Fault /\ Finish({r}) /\ lock' = 0
        /\ mem' = [mem EXCEPT ![node[r]] = Idle]
        /\ cron' = IF scheduled[r] THEN [cron EXCEPT ![node[r]] = "release"] ELSE cron
        /\ UNCHANGED st
  /\ UNCHANGED <<proc, poll, runs, day, objects>>

\* A scheduled trigger is refused (already running, locked, disabled, stopping
\* or misconfigured): the day's claim is dropped, whoever made it.
ReleaseClaim(n) ==
  /\ cron[n] \in {"claimed", "release"} /\ MutexFree(n)
  /\ cron' = [cron EXCEPT ![n] = "idle"]
  /\ claim' = FALSE
  /\ UNCHANGED <<proc, mem, poll, run, lock, st, dayDone, completed, objects, faults>>

-----------------------------------------------------------------------------
(* A run.  The object store is reached only while the run is not cancelled. *)

Running(r) == proc[node[r]] = "up"

\* Defect: room is made for the upload before it is an archive.
UploadMakesRoom(r) ==
  /\ rpc[r] = "upload" /\ Running(r)
  /\ Goto(r, "move")
  /\ objects' = {<<r, "temp">>}
  /\ UNCHANGED <<process, mem, node, scheduled, todo, final, runs, lock, st, day, faults>>

Upload(r) ==
  /\ rpc[r] = "upload" /\ Running(r)
  /\ Goto(r, "move")
  /\ objects' = objects \cup {<<r, "temp">>}
  /\ UNCHANGED <<process, mem, node, scheduled, todo, final, runs, lock, st, day, faults>>

\* The upload is downloaded and verified, then moved to the archive's key.
MoveArchive(r) ==
  /\ rpc[r] = "move" /\ Running(r) /\ <<r, "temp">> \in objects
  /\ Goto(r, "list")
  /\ objects' = (objects \ {<<r, "temp">>}) \cup {<<r, "archive">>}
  /\ UNCHANGED <<process, mem, node, scheduled, todo, final, runs, lock, st, day, faults>>

\* Defect: uploads that were never moved are not recognised as managed.
ListArchives(r) == (Runs \X {"archive"}) \cap (objects \ {<<r, "archive">>})
\* Defect: the archive just published is not spared.
ListAll(r) == objects
Listed(r) == objects \ {<<r, "archive">>}

\* The archive is verified again under its key, then the others are listed.
List(r) ==
  /\ rpc[r] = "list" /\ Running(r) /\ <<r, "archive">> \in objects
  /\ Goto(r, "cleanup")
  /\ todo' = [todo EXCEPT ![r] = Listed(r)]
  /\ UNCHANGED <<process, mem, node, scheduled, final, runs, lock, st, day, objects, faults>>

DeleteOld(r) ==
  /\ rpc[r] = "cleanup" /\ Running(r)
  /\ \E k \in todo[r] :
       /\ objects' = objects \ {k}
       /\ todo' = [todo EXCEPT ![r] = @ \ {k}]
  /\ UNCHANGED <<process, mem, rpc, node, scheduled, final, runs, lock, st, day, faults>>

RunSucceeds(r) ==
  /\ rpc[r] = "cleanup" /\ todo[r] = {}
  /\ Goto(r, "succeeded")
  /\ UNCHANGED <<process, mem, node, scheduled, todo, final, runs, lock, st, day, objects, faults>>

\* A command, an object store call or a verification fails, or the context is
\* cancelled; the deferred deletion of the upload may fail too.
RunFails(r) ==
  /\ rpc[r] \in {"upload", "move", "list", "cleanup"}
  /\ Goto(r, "failed")
  /\ todo' = [todo EXCEPT ![r] = {}]
  /\ objects' \in {objects, objects \ {<<r, "temp">>}}
  /\ UNCHANGED <<process, mem, node, scheduled, final, runs, lock, st, day, faults>>

-----------------------------------------------------------------------------
(* The end of a run.                                                       *)

\* CompleteDay or ReleaseDay, whose errors are logged, then the status in
\* memory, whatever a Status() call has made of it meanwhile.
SettleRun(r) ==
  /\ rpc[r] \in {"succeeded", "failed"} /\ MutexFree(node[r])
  /\ \/ /\ scheduled[r] /\ rpc[r] = "succeeded"
        /\ dayDone' = TRUE /\ claim' = FALSE /\ completed' = completed + 1
        /\ UNCHANGED faults
     \/ /\ scheduled[r] /\ rpc[r] = "failed"
        /\ claim' = FALSE /\ UNCHANGED <<dayDone, completed, faults>>
     \/ /\ scheduled[r] /\ Fault /\ UNCHANGED day
     \/ /\ ~scheduled[r] /\ UNCHANGED <<day, faults>>
  /\ final' = [final EXCEPT ![r] =
       IF rpc[r] = "succeeded" THEN [state |-> "succeeded", archive |-> r]
       ELSE [mem[node[r]] EXCEPT !.state = "failed"]]
  /\ mem' = [mem EXCEPT ![node[r]] = final'[r]]
  /\ Goto(r, "final")
  /\ UNCHANGED <<process, node, scheduled, todo, runs, lock, st, objects>>

\* The copy made under the mutex is saved; an error is logged.
SaveFinal(r) ==
  /\ rpc[r] = "final"
  /\ Goto(r, "unlock")
  /\ \/ st' = final[r] /\ UNCHANGED faults
     \/ Fault /\ UNCHANGED st
  /\ UNCHANGED <<process, mem, node, scheduled, todo, final, runs, lock, day, objects>>

Unlock(r) ==
  /\ rpc[r] = "unlock"
  /\ Finish({r})
  /\ \/ lock' = (IF lock = r THEN 0 ELSE lock) /\ UNCHANGED faults
     \/ Fault /\ UNCHANGED lock
  /\ UNCHANGED <<process, mem, runs, st, day, objects>>

-----------------------------------------------------------------------------
(* Status(): load without the mutex, store with it.                        *)

LoadStatus(n) ==
  /\ proc[n] = "up" /\ st # NoStatus
  /\ poll' = [poll EXCEPT ![n] = st]
  /\ UNCHANGED <<proc, cron, mem, run, lock, st, day, objects, faults>>

StoreStatus(n) ==
  /\ proc[n] = "up" /\ poll[n] # NoStatus /\ MutexFree(n)
  /\ mem' = [mem EXCEPT ![n] = poll[n]]
  /\ poll' = [poll EXCEPT ![n] = NoStatus]
  /\ UNCHANGED <<proc, cron, run, lock, st, day, objects, faults>>

-----------------------------------------------------------------------------
(* Processes stop, die and start again; the TTLs of Redis.                 *)

\* Stop: no new trigger, the current run's context is cancelled.
Stop(n) ==
  /\ proc[n] = "up" /\ MutexFree(n)
  /\ proc' = [proc EXCEPT ![n] = "stopping"]
  /\ UNCHANGED <<mem, poll, cron, run, lock, st, day, objects, faults>>

\* The process exits, after Stop or on its own: its goroutines are gone.
Exit(n) ==
  /\ \/ proc[n] = "stopping" /\ UNCHANGED faults
     \/ proc[n] \in {"up", "boot"} /\ Fault
  /\ proc' = [proc EXCEPT ![n] = "down"]
  /\ poll' = [poll EXCEPT ![n] = NoStatus]
  /\ cron' = [cron EXCEPT ![n] = "idle"]
  /\ mem' = [mem EXCEPT ![n] = Idle]
  /\ Finish({r \in Runs : node[r] = n})
  /\ UNCHANGED <<runs, lock, st, day, objects>>

\* Defect: whatever is loaded becomes the status, found or not.
LoadedAsIs == st
\* Defect: a run that Redis says is running is left to finish.
LoadedRunning == IF st = NoStatus THEN Idle ELSE st
\* newCoordinatorDynamic: "backup interrupted by service restart".
Loaded ==
  IF st = NoStatus THEN Idle
  ELSE IF st.state = "running" THEN [st EXCEPT !.state = "failed"] ELSE st

\* A changed status is persisted: the interrupted run, or "disabled" when the
\* switch is off.
Start(n) ==
  /\ proc[n] = "down"
  /\ \/ /\ mem' = [mem EXCEPT ![n] = Loaded]
        /\ proc' = [proc EXCEPT ![n] = IF st.state = "running" THEN "boot" ELSE "up"]
     \/ /\ mem' = [mem EXCEPT ![n] = [state |-> "disabled", archive |-> 0]]
        /\ proc' = [proc EXCEPT ![n] = "boot"]
  /\ UNCHANGED <<poll, cron, run, lock, st, day, objects, faults>>

SaveStartup(n) ==
  /\ proc[n] = "boot"
  /\ proc' = [proc EXCEPT ![n] = "up"]
  /\ \/ st' = mem[n] /\ UNCHANGED faults
     \/ Fault /\ UNCHANGED st
  /\ UNCHANGED <<mem, poll, cron, run, lock, day, objects>>

LockExpires ==
  /\ lock # 0 /\ ~Active(lock)
  /\ lock' = 0
  /\ UNCHANGED <<process, mem, run, st, day, objects, faults>>

ClaimExpires ==
  /\ claim
  /\ \A n \in Nodes : cron[n] = "idle"
  /\ \A r \in Runs : scheduled[r] => ~Active(r)
  /\ claim' = FALSE
  /\ UNCHANGED <<process, mem, run, lock, st, dayDone, completed, objects, faults>>

-----------------------------------------------------------------------------
RunStep(r) ==
  \/ SaveRunning(r) \/ Upload(r) \/ MoveArchive(r) \/ List(r) \/ DeleteOld(r)
  \/ RunSucceeds(r) \/ RunFails(r) \/ SettleRun(r) \/ SaveFinal(r) \/ Unlock(r)

Next ==
  \/ \E n \in Nodes, sched \in BOOLEAN : Trigger(n, sched)
  \/ \E n \in Nodes : \/ ClaimDay(n) \/ ReleaseClaim(n) \/ LoadStatus(n) \/ StoreStatus(n)
                      \/ Stop(n) \/ Exit(n) \/ Start(n) \/ SaveStartup(n)
  \/ \E r \in Runs : RunStep(r)
  \/ LockExpires \/ ClaimExpires

Spec == Init /\ [][Next]_vars

\* Runs end, one way or another; a process that exited is started again.
Fairness ==
  /\ \A r \in Runs : WF_vars(RunStep(r))
  /\ \A n \in Nodes : WF_vars(Start(n)) /\ WF_vars(SaveStartup(n))
LiveSpec == Spec /\ Fairness

-----------------------------------------------------------------------------
(* Properties.                                                             *)

\* At most one run, of whatever process, is between taking the lock and
\* giving it back: two of them would delete each other's archives.
RunExclusion == \A r, q \in Runs : Active(r) /\ Active(q) => r = q

\* When the last word is "succeeded" and nothing runs, the store holds that
\* archive and nothing else: no leftover of an earlier, interrupted run.
KeepsOnlyNewest ==
  st.state = "succeeded" /\ lock = 0 => objects = {<<st.archive, "archive">>}

\* A status "succeeded" names an archive that can be restored, or a later
\* run's archive has replaced it.
SucceededIsRestorable ==
  st.state = "succeeded" =>
    \E r \in Runs : r >= st.archive /\ <<r, "archive">> \in objects

\* The day's backup is marked done once, however often processes tick, fail,
\* release the day and retry.
DayCompletedOnce == completed <= 1

\* What a restorer can rely on: the archives in the store, the run that the
\* status "succeeded" names, and the day.
Archived == {r \in Runs : <<r, "archive">> \in objects}
Named == IF st.state = "succeeded" THEN st.archive ELSE 0

\* The coordinators and their runs keep the promise of Archives: the newest
\* archive is never deleted, an older one only after a newer one was moved to
\* its key, success is reported and the day completed only when the rest is
\* gone (Runner.Run, Runner.cleanup, Coordinator.run).
A == INSTANCE Archives WITH archives <- Archived, named <- Named, day <- dayDone
ArchivesKept == A!Spec

\* A status "running" that no run stands behind is cleared by the next process
\* that starts, once Redis takes its writes again.
RestartClearsRunning ==
  (/\ st.state = "running" /\ lock = 0 /\ faults = MaxFaults
   /\ \E n \in Nodes : proc[n] = "down")
  ~> (st.state # "running" \/ lock # 0)
=============================================================================
