-------------------------- MODULE BackupCoordProofs --------------------------
(***************************************************************************)
(* Proofs about BackupCoord: type correctness, that at most one run of     *)
(* any process is between taking the backup lock and giving it back, that  *)
(* the day is marked done once, that a status "succeeded" names the only   *)
(* object in the store, and that the runs keep the promise of Archives.    *)
(***************************************************************************)
EXTENDS BackupCoord, TLAPS

\* A run that is still executing has a process and holds the lock; a lock
\* names a run that has taken it.
Placed == \A r \in Runs : Active(r) => node[r] \in Nodes
HoldsLock == \A r \in Runs : Active(r) => lock = r

IInv == TypeOK /\ Placed /\ HoldsLock

-----------------------------------------------------------------------------
(* Type correctness, with the placement of runs.                           *)

TypeInv == TypeOK /\ Placed

LEMMA TypeInit == Init => TypeInv
<1> SUFFICES ASSUME Init PROVE TypeInv
  OBVIOUS
<1>1. Idle \in Status /\ 0 \in 0..MaxRuns /\ 0 \in 0..MaxFaults
  BY BackupConstants DEF Idle, Status, States
<1>2. Placed
  BY DEF Init, Placed, Active
<1>3. /\ proc \in [Nodes -> {"up", "stopping", "down", "boot"}]
      /\ mem \in [Nodes -> Status]
      /\ poll \in [Nodes -> Status \cup {NoStatus}]
      /\ cron \in [Nodes -> {"idle", "claimed", "trigger", "release"}]
  BY <1>1 DEF Init
<1>4. /\ rpc \in [Runs -> {"new", "save", "upload", "move", "list", "cleanup", "succeeded",
                           "failed", "final", "unlock", "over"}]
      /\ node \in [Runs -> Nodes \cup {Nobody}]
      /\ scheduled \in [Runs -> BOOLEAN]
      /\ todo \in [Runs -> SUBSET Keys]
      /\ final \in [Runs -> Status]
  BY <1>1 DEF Init
<1> QED BY <1>1, <1>2, <1>3, <1>4 DEF Init, TypeInv, TypeOK

LEMMA FinishType ==
  ASSUME TypeInv, NEW R \in SUBSET Runs, Finish(R)
  PROVE  /\ rpc' \in [Runs -> {"new", "save", "upload", "move", "list", "cleanup", "succeeded",
                               "failed", "final", "unlock", "over"}]
         /\ node' \in [Runs -> Nodes \cup {Nobody}]
         /\ scheduled' \in [Runs -> BOOLEAN]
         /\ todo' \in [Runs -> SUBSET Keys]
         /\ final' \in [Runs -> Status]
         /\ Placed'
<1>1. Idle \in Status
  BY BackupConstants DEF Idle, Status, States
<1>2. /\ rpc' \in [Runs -> {"new", "save", "upload", "move", "list", "cleanup", "succeeded",
                            "failed", "final", "unlock", "over"}]
      /\ node' \in [Runs -> Nodes \cup {Nobody}]
      /\ scheduled' \in [Runs -> BOOLEAN]
  BY DEF Finish, TypeInv, TypeOK
<1>3. todo' \in [Runs -> SUBSET Keys] /\ final' \in [Runs -> Status]
  BY <1>1 DEF Finish, TypeInv, TypeOK
<1>4. Placed'
  BY DEF Finish, TypeInv, Placed, Active
<1> QED BY <1>2, <1>3, <1>4

\* Memory and Redis hold the same kind of status.
LEMMA StatusType ==
  ASSUME TypeInv
  PROVE  /\ Idle \in Status
         /\ \A n \in Nodes : mem[n] \in Status
         /\ \A m \in Status : [m EXCEPT !.state = "failed"] \in Status
         /\ \A a \in 0..MaxRuns : \A s \in States : [state |-> s, archive |-> a] \in Status
         /\ Loaded \in Status
<1>1. Idle \in Status /\ \A n \in Nodes : mem[n] \in Status
  BY BackupConstants DEF Idle, Status, States, TypeInv, TypeOK
<1>2. \A m \in Status : [m EXCEPT !.state = "failed"] \in Status
  BY DEF Status, States
<1>3. \A a \in 0..MaxRuns : \A s \in States : [state |-> s, archive |-> a] \in Status
  BY DEF Status
<1>4. Loaded \in Status
  BY <1>1, <1>2 DEF Loaded, TypeInv, TypeOK
<1> QED BY <1>1, <1>2, <1>3, <1>4

LEMMA CronType ==
  ASSUME TypeInv,
         NEW n \in Nodes,
         \/ ClaimDay(n) \/ ReleaseClaim(n) \/ LoadStatus(n) \/ StoreStatus(n) \/ Stop(n)
         \/ \E sched \in BOOLEAN : Trigger(n, sched)
  PROVE  TypeInv'
<1>1. CASE ClaimDay(n) \/ ReleaseClaim(n) \/ LoadStatus(n) \/ StoreStatus(n) \/ Stop(n)
  <2>1. UNCHANGED run
    BY <1>1 DEF ClaimDay, ReleaseClaim, LoadStatus, StoreStatus, Stop
  <2>2. Placed'
    BY <2>1 DEF TypeInv, Placed, Active, run
  <2> QED BY <1>1, <2>1, <2>2 DEF TypeInv, TypeOK, ClaimDay, ReleaseClaim, LoadStatus,
          StoreStatus, Stop, Fault, run, day
<1>2. ASSUME NEW sched \in BOOLEAN, Trigger(n, sched)
      PROVE  TypeInv'
  <2>1. runs + 1 \in Runs
    BY <1>2, BackupConstants DEF Trigger, TypeInv, TypeOK, Runs
  <2>2. [state |-> "running", archive |-> 0] \in Status
    BY BackupConstants DEF Status, States
  <2>3. Placed'
    BY <1>2, <2>1 DEF Trigger, Goto, TypeInv, TypeOK, Placed, Active
  <2>4. runs' \in 0..MaxRuns /\ lock' \in 0..MaxRuns
    BY <1>2, <2>1, BackupConstants DEF Trigger, Runs
  <2>5. /\ cron' \in [Nodes -> {"idle", "claimed", "trigger", "release"}]
        /\ mem' \in [Nodes -> Status]
    BY <1>2, <2>2 DEF Trigger, TypeInv, TypeOK
  <2> QED BY <1>2, <2>1, <2>3, <2>4, <2>5 DEF Trigger, Goto, TypeInv, TypeOK, day
<1> QED BY <1>1, <1>2

LEMMA RunType ==
  ASSUME TypeInv, NEW r \in Runs, RunStep(r)
  PROVE  TypeInv'
<1>a. Active(r) => node[r] \in Nodes
  BY DEF TypeInv, Placed
<1>1. CASE SaveRunning(r)
  <2>1. node[r] \in Nodes /\ mem[node[r]] \in Status
    BY <1>1, <1>a, StatusType DEF SaveRunning, Active
  <2>2. /\ st' \in Status \cup {NoStatus} /\ mem' \in [Nodes -> Status]
        /\ lock' \in 0..MaxRuns /\ faults' \in 0..MaxFaults
    BY <1>1, <2>1, StatusType, BackupConstants DEF SaveRunning, TypeInv, TypeOK, Fault
  <2>3. cron' \in [Nodes -> {"idle", "claimed", "trigger", "release"}]
    BY <1>1 DEF SaveRunning, TypeInv, TypeOK
  <2>4. CASE Goto(r, "upload") /\ UNCHANGED <<node, scheduled, todo, final>>
    <3>1. Placed'
      BY <2>1, <2>4 DEF Goto, TypeInv, TypeOK, Placed, Active
    <3> QED BY <1>1, <2>2, <2>3, <2>4, <3>1 DEF SaveRunning, Goto, TypeInv, TypeOK, day
  <2>5. CASE Finish({r})
    BY <1>1, <2>2, <2>3, <2>5, FinishType DEF SaveRunning, TypeInv, TypeOK, day
  <2> QED BY <1>1, <2>4, <2>5 DEF SaveRunning
<1>2. CASE Upload(r) \/ MoveArchive(r) \/ DeleteOld(r) \/ RunFails(r)
  <2>1. Active(r)
    BY <1>2 DEF Upload, MoveArchive, DeleteOld, RunFails, Active
  <2>2. objects' \in SUBSET Keys
    BY <1>2 DEF Upload, MoveArchive, DeleteOld, RunFails, TypeInv, TypeOK, Keys
  <2>3. rpc' \in [Runs -> {"new", "save", "upload", "move", "list", "cleanup", "succeeded",
                           "failed", "final", "unlock", "over"}]
    BY <1>2 DEF Upload, MoveArchive, DeleteOld, RunFails, Goto, TypeInv, TypeOK
  <2>4. todo' \in [Runs -> SUBSET Keys]
    BY <1>2 DEF Upload, MoveArchive, DeleteOld, RunFails, TypeInv, TypeOK
  <2>5. Placed'
    BY <1>2, <1>a, <2>1 DEF Upload, MoveArchive, DeleteOld, RunFails, Goto, TypeInv, TypeOK,
       Placed, Active
  <2> QED BY <1>2, <2>2, <2>3, <2>4, <2>5 DEF Upload, MoveArchive, DeleteOld, RunFails,
          TypeInv, TypeOK, process, day
<1>3. CASE List(r)
  <2>1. Listed(r) \in SUBSET Keys
    BY DEF Listed, TypeInv, TypeOK
  <2>2. Placed'
    BY <1>3, <1>a DEF List, Goto, TypeInv, TypeOK, Placed, Active
  <2> QED BY <1>3, <2>1, <2>2 DEF List, Goto, TypeInv, TypeOK, process, day
<1>4. CASE RunSucceeds(r)
  BY <1>4, <1>a DEF RunSucceeds, Goto, TypeInv, TypeOK, Placed, Active, process, day
<1>5. CASE SettleRun(r)
  <2>1. node[r] \in Nodes /\ mem[node[r]] \in Status /\ r \in 0..MaxRuns
    BY <1>5, <1>a, StatusType, BackupConstants DEF SettleRun, Active, Runs
  <2>2. [state |-> "succeeded", archive |-> r] \in Status
    BY <2>1, StatusType DEF States
  <2>3. final' \in [Runs -> Status] /\ final'[r] \in Status
    BY <1>5, <2>1, <2>2, StatusType DEF SettleRun, TypeInv, TypeOK
  <2>4. mem' \in [Nodes -> Status]
    BY <1>5, <2>3 DEF SettleRun, TypeInv, TypeOK
  <2>5. /\ claim' \in BOOLEAN /\ dayDone' \in BOOLEAN /\ completed' \in Nat
        /\ faults' \in 0..MaxFaults
    <3>1. claim' \in BOOLEAN /\ dayDone' \in BOOLEAN
      BY <1>5, Zenon DEF SettleRun, TypeInv, TypeOK, day
    <3>2. completed' \in {completed, completed + 1} /\ faults' \in 0..MaxFaults
      <4>1. completed' \in {completed, completed + 1}
        BY <1>5 DEF SettleRun, day
      <4>2. UNCHANGED faults \/ Fault
        BY <1>5, Zenon DEF SettleRun
      <4> QED BY <4>1, <4>2, BackupConstants DEF Fault, TypeInv, TypeOK
    <3> QED BY <3>1, <3>2 DEF TypeInv, TypeOK
  <2>6. Placed'
    BY <1>5, <2>1 DEF SettleRun, Goto, TypeInv, TypeOK, Placed, Active
  <2> QED BY <1>5, <2>3, <2>4, <2>5, <2>6 DEF SettleRun, Goto, TypeInv, TypeOK, process
<1>6. CASE SaveFinal(r)
  <2>1. Placed'
    BY <1>6, <1>a DEF SaveFinal, Goto, TypeInv, TypeOK, Placed, Active
  <2>2. final[r] \in Status /\ st' \in Status \cup {NoStatus} /\ faults' \in 0..MaxFaults
    BY <1>6, BackupConstants DEF SaveFinal, Fault, TypeInv, TypeOK
  <2> QED BY <1>6, <2>1, <2>2 DEF SaveFinal, Goto, TypeInv, TypeOK, process, day
<1>7. CASE Unlock(r)
  <2>1. lock' \in 0..MaxRuns /\ faults' \in 0..MaxFaults
    BY <1>7, BackupConstants DEF Unlock, Fault, TypeInv, TypeOK
  <2> QED BY <1>7, <2>1, FinishType DEF Unlock, TypeInv, TypeOK, process, day
<1> QED BY <1>1, <1>2, <1>3, <1>4, <1>5, <1>6, <1>7 DEF RunStep

LEMMA ProcessType ==
  ASSUME TypeInv, NEW n \in Nodes, Exit(n) \/ Start(n) \/ SaveStartup(n)
  PROVE  TypeInv'
<1>1. CASE Exit(n)
  <2>1. Finish({r \in Runs : node[r] = n})
    BY <1>1 DEF Exit
  <2>2. /\ proc' \in [Nodes -> {"up", "stopping", "down", "boot"}]
        /\ cron' \in [Nodes -> {"idle", "claimed", "trigger", "release"}]
        /\ poll' \in [Nodes -> Status \cup {NoStatus}]
        /\ mem' \in [Nodes -> Status]
        /\ faults' \in 0..MaxFaults
    BY <1>1, StatusType, BackupConstants DEF Exit, Fault, TypeInv, TypeOK
  <2> QED BY <1>1, <2>1, <2>2, FinishType DEF Exit, TypeInv, TypeOK, day
<1>2. CASE Start(n)
  <2>1. [state |-> "disabled", archive |-> 0] \in Status
    BY BackupConstants DEF Status, States
  <2>2. /\ proc' \in [Nodes -> {"up", "stopping", "down", "boot"}]
        /\ mem' \in [Nodes -> Status]
    BY <1>2, <2>1, StatusType DEF Start, TypeInv, TypeOK
  <2>3. Placed'
    BY <1>2 DEF Start, TypeInv, Placed, Active, run
  <2> QED BY <1>2, <2>2, <2>3 DEF Start, TypeInv, TypeOK, run, day
<1>3. CASE SaveStartup(n)
  <2>1. st' \in Status \cup {NoStatus} /\ faults' \in 0..MaxFaults
    BY <1>3, StatusType, BackupConstants DEF SaveStartup, Fault, TypeInv, TypeOK
  <2>2. Placed'
    BY <1>3 DEF SaveStartup, TypeInv, Placed, Active, run
  <2> QED BY <1>3, <2>1, <2>2 DEF SaveStartup, TypeInv, TypeOK, run, day
<1> QED BY <1>1, <1>2, <1>3

LEMMA TypeNext == TypeInv /\ [Next]_vars => TypeInv'
<1> SUFFICES ASSUME TypeInv, [Next]_vars PROVE TypeInv'
  OBVIOUS
<1>1. CASE UNCHANGED vars
  BY <1>1 DEF vars, process, run, day, TypeInv, TypeOK, Placed, Active
<1>2. CASE LockExpires \/ ClaimExpires
  <2>1. lock' \in 0..MaxRuns /\ claim' \in BOOLEAN
    <3>1. lock' \in {0, lock}
      BY <1>2 DEF LockExpires, ClaimExpires
    <3>2. claim' \in BOOLEAN
      BY <1>2, Zenon DEF LockExpires, ClaimExpires, TypeInv, TypeOK, day
    <3> QED BY <3>1, <3>2, BackupConstants DEF TypeInv, TypeOK
  <2>2. UNCHANGED <<process, mem, run, st, dayDone, completed, objects, faults>>
    BY <1>2 DEF LockExpires, ClaimExpires, day
  <2>3. Placed'
    BY <2>2 DEF TypeInv, Placed, Active, run
  <2> QED BY <2>1, <2>2, <2>3 DEF TypeInv, TypeOK, process, run
<1> QED BY <1>1, <1>2, CronType, RunType, ProcessType DEF Next

(* Every variable keeps its type, for any number of processes, runs and    *)
(* faults; in particular a status is always one that JSON could have held. *)
THEOREM TypeCorrect == Spec => []TypeOK
<1>1. TypeInv => TypeOK
  BY DEF TypeInv
<1> QED BY <1>1, TypeInit, TypeNext, PTL DEF Spec

-----------------------------------------------------------------------------
(* Exclusion.                                                              *)

LEMMA LockInit == Init => HoldsLock
BY DEF Init, HoldsLock, Active

\* The steps that free the lock, or that take it.
LEMMA LockNext ==
  ASSUME TypeInv, HoldsLock, [Next]_vars
  PROVE  HoldsLock'
<1>t. /\ rpc \in [Runs -> {"new", "save", "upload", "move", "list", "cleanup", "succeeded",
                           "failed", "final", "unlock", "over"}]
      /\ runs \in 0..MaxRuns /\ 0 \notin Runs
  BY DEF TypeInv, TypeOK, Runs
<1>1. CASE UNCHANGED <<rpc, lock>>
  BY <1>1 DEF HoldsLock, Active
<1>2. ASSUME NEW n \in Nodes, NEW sched \in BOOLEAN, Trigger(n, sched)
      PROVE  HoldsLock'
  <2>1. \A r \in Runs : ~Active(r)
    BY <1>2, <1>t DEF Trigger, LockFree, HoldsLock
  <2> QED BY <1>2, <1>t, <2>1 DEF Trigger, Goto, HoldsLock, Active
<1>3. ASSUME NEW r \in Runs, RunStep(r)
      PROVE  HoldsLock'
  <2>1. CASE SaveRunning(r) /\ Goto(r, "upload") /\ UNCHANGED lock
    BY <1>t, <2>1 DEF SaveRunning, Goto, HoldsLock, Active
  <2>2. CASE Finish({r}) /\ Active(r) /\ lock' \in {0, lock}
    BY <2>2 DEF Finish, HoldsLock, Active
  <2>3. CASE \/ Upload(r) \/ MoveArchive(r) \/ List(r) \/ DeleteOld(r) \/ RunSucceeds(r)
             \/ RunFails(r) \/ SettleRun(r) \/ SaveFinal(r)
    BY <1>t, <2>3 DEF Upload, MoveArchive, List, DeleteOld, RunSucceeds, RunFails, SettleRun,
       SaveFinal, Goto, HoldsLock, Active
  <2>4. CASE Unlock(r)
    BY <2>2, <2>4 DEF Unlock, Active
  <2>5. CASE SaveRunning(r) /\ Finish({r}) /\ lock' = 0
    BY <2>2, <2>5 DEF SaveRunning, Active
  <2> QED BY <1>3, <2>1, <2>3, <2>4, <2>5 DEF RunStep, SaveRunning
<1>4. ASSUME NEW n \in Nodes, Exit(n)
      PROVE  HoldsLock'
  BY <1>4 DEF Exit, Finish, HoldsLock, Active
<1>5. CASE LockExpires
  BY <1>5 DEF LockExpires, run, HoldsLock, Active
<1>6. ASSUME NEW n \in Nodes,
             \/ ClaimDay(n) \/ ReleaseClaim(n) \/ LoadStatus(n) \/ StoreStatus(n) \/ Stop(n)
             \/ Start(n) \/ SaveStartup(n)
      PROVE  UNCHANGED <<rpc, lock>>
  BY <1>6 DEF ClaimDay, ReleaseClaim, LoadStatus, StoreStatus, Stop, Start, SaveStartup, run
<1>7. CASE ClaimExpires \/ UNCHANGED vars
  BY <1>1, <1>7 DEF ClaimExpires, run, vars
<1> QED BY <1>1, <1>2, <1>3, <1>4, <1>5, <1>6, <1>7 DEF Next

(* No two runs, of the same process or of two, are ever between SetNX on   *)
(* the backup lock and its deletion, whatever Status() calls, crashes and  *)
(* failed Redis writes have made of the statuses in memory.                *)
THEOREM ExclusionCorrect == Spec => []RunExclusion
<1>1. IInv => RunExclusion
  BY DEF IInv, HoldsLock, RunExclusion
<1>2. Init => IInv
  BY TypeInit, LockInit DEF IInv, TypeInv
<1>3. IInv /\ [Next]_vars => IInv'
  BY TypeNext, LockNext DEF IInv, TypeInv
<1> QED BY <1>1, <1>2, <1>3, PTL DEF Spec

-----------------------------------------------------------------------------
(* The day.  Its claim is carried by one cron tick, then by the run that   *)
(* the tick has started, until that run settles.                           *)

Pending(r) ==
  scheduled[r] /\ rpc[r] \in {"upload", "move", "list", "cleanup", "succeeded", "failed"}

DayInv ==
  /\ \A n \in Nodes : cron[n] # "idle" => claim /\ ~dayDone
  /\ \A n, m \in Nodes : cron[n] # "idle" /\ cron[m] # "idle" => n = m
  /\ \A r \in Runs : Pending(r) => claim /\ ~dayDone /\ \A n \in Nodes : cron[n] = "idle"
  /\ \A r \in Runs : scheduled[r] /\ rpc[r] = "save" => cron[node[r]] = "trigger"
  /\ completed = IF dayDone THEN 1 ELSE 0

LEMMA DayInit == Init => DayInv
BY DEF Init, DayInv, Pending

\* Steps of the cron tick and of the trigger.
LEMMA TickDay ==
  ASSUME IInv, DayInv, NEW n \in Nodes,
         ClaimDay(n) \/ ReleaseClaim(n) \/ \E sched \in BOOLEAN : Trigger(n, sched)
  PROVE  DayInv'
<1>t. /\ cron \in [Nodes -> {"idle", "claimed", "trigger", "release"}]
      /\ rpc \in [Runs -> {"new", "save", "upload", "move", "list", "cleanup", "succeeded",
                           "failed", "final", "unlock", "over"}]
      /\ node \in [Runs -> Nodes \cup {Nobody}] /\ scheduled \in [Runs -> BOOLEAN]
      /\ runs \in 0..MaxRuns
  BY DEF IInv, TypeOK
<1>1. CASE ClaimDay(n)
  <2>1. \A m \in Nodes : cron[m] = "idle"
    BY <1>1 DEF ClaimDay, DayOpen, DayInv
  <2>2. \A r \in Runs : ~Pending(r) /\ ~(scheduled[r] /\ rpc[r] = "save")
    <3>1. \A r \in Runs : ~Pending(r)
      BY <1>1 DEF ClaimDay, DayOpen, DayInv
    <3>2. \A r \in Runs : rpc[r] = "save" => node[r] \in Nodes
      BY DEF IInv, Placed, Active
    <3> QED BY <2>1, <3>1, <3>2 DEF DayInv
  <2>3. UNCHANGED <<rpc, node, scheduled, dayDone, completed>>
    BY <1>1 DEF ClaimDay, run
  <2>4. claim' /\ ~dayDone /\ cron' = [cron EXCEPT ![n] = "claimed"]
    BY <1>1 DEF ClaimDay, DayOpen
  <2> QED BY <1>t, <2>1, <2>2, <2>3, <2>4 DEF DayInv, Pending
<1>2. CASE ReleaseClaim(n)
  <2>1. \A m \in Nodes : m # n => cron[m] = "idle"
    BY <1>2 DEF ReleaseClaim, DayInv
  <2>2. \A r \in Runs : ~Pending(r)
    BY <1>2 DEF ReleaseClaim, DayInv
  <2>3. \A r \in Runs : ~(scheduled[r] /\ rpc[r] = "save")
    <3>1. \A r \in Runs : rpc[r] = "save" => node[r] \in Nodes
      BY DEF IInv, Placed, Active
    <3> QED BY <1>2, <2>1, <3>1 DEF ReleaseClaim, DayInv
  <2>4. /\ UNCHANGED <<rpc, node, scheduled, dayDone, completed>>
        /\ cron' = [cron EXCEPT ![n] = "idle"]
    BY <1>2 DEF ReleaseClaim, run
  <2> QED BY <1>t, <2>1, <2>2, <2>3, <2>4 DEF DayInv, Pending
<1>3. ASSUME NEW sched \in BOOLEAN, Trigger(n, sched)
      PROVE  DayInv'
  <2>1. \A r \in Runs : ~Active(r)
    BY <1>3 DEF Trigger, LockFree, IInv, HoldsLock, Runs
  <2>2. \A r \in Runs : ~Pending(r) /\ rpc[r] # "save"
    BY <2>1 DEF Pending, Active
  <2>3. /\ rpc' = [rpc EXCEPT ![runs + 1] = "save"]
        /\ node' = [node EXCEPT ![runs + 1] = n]
        /\ scheduled' = [scheduled EXCEPT ![runs + 1] = sched]
        /\ UNCHANGED <<claim, dayDone, completed>>
    BY <1>3 DEF Trigger, Goto, day
  <2>4. \A m \in Nodes : cron'[m] # "idle" => cron[m] # "idle"
    BY <1>3, <1>t DEF Trigger
  <2>5. sched => cron'[n] = "trigger"
    BY <1>3, <1>t DEF Trigger
  <2>6. \A r \in Runs : ~Pending(r)' /\ (scheduled'[r] /\ rpc'[r] = "save" => cron'[node'[r]] = "trigger")
    BY <1>t, <2>2, <2>3, <2>5 DEF Pending
  <2>7. /\ \A m \in Nodes : cron'[m] # "idle" => claim' /\ ~dayDone'
        /\ \A m, k \in Nodes : cron'[m] # "idle" /\ cron'[k] # "idle" => m = k
        /\ completed' = IF dayDone' THEN 1 ELSE 0
    BY <2>3, <2>4 DEF DayInv
  <2> QED BY <2>6, <2>7 DEF DayInv
<1> QED BY <1>1, <1>2, <1>3

\* A run hands the claim on, gives it back, or marks the day done.
LEMMA RunDay ==
  ASSUME IInv, DayInv, NEW r \in Runs, RunStep(r)
  PROVE  DayInv'
<1>t. /\ cron \in [Nodes -> {"idle", "claimed", "trigger", "release"}]
      /\ rpc \in [Runs -> {"new", "save", "upload", "move", "list", "cleanup", "succeeded",
                           "failed", "final", "unlock", "over"}]
      /\ node \in [Runs -> Nodes \cup {Nobody}] /\ scheduled \in [Runs -> BOOLEAN]
  BY DEF IInv, TypeOK
<1>a. Active(r) => node[r] \in Nodes /\ \A q \in Runs : q # r => ~Active(q)
  BY DEF IInv, Placed, HoldsLock
<1>b. \A q \in Runs : Pending(q) \/ rpc[q] = "save" => Active(q)
  BY DEF Pending, Active
<1>1. CASE SaveRunning(r)
  <2>1. Active(r) /\ rpc[r] = "save" /\ UNCHANGED <<claim, dayDone, completed>>
    BY <1>1 DEF SaveRunning, Active, day
  <2>2. \A q \in Runs : q # r => ~Pending(q) /\ rpc[q] # "save"
    BY <1>a, <1>b, <2>1
  <2>3. \A q \in Runs : q # r => rpc'[q] = rpc[q]
    BY <1>1, <1>t DEF SaveRunning, Goto, Finish
  <2>4. \A m \in Nodes : cron'[m] # "idle" => cron[m] # "idle"
    <3>1. scheduled[r] => cron[node[r]] # "idle"
      BY <2>1 DEF DayInv
    <3> QED BY <1>1, <1>t, <3>1 DEF SaveRunning
  <2>5. Pending(r)' => claim' /\ ~dayDone' /\ \A m \in Nodes : cron'[m] = "idle"
    <3>1. ASSUME Pending(r)' PROVE scheduled[r] /\ cron' = [cron EXCEPT ![node[r]] = "idle"]
      BY <1>1, <3>1 DEF SaveRunning, Pending, Finish
    <3> QED BY <1>a, <1>t, <2>1, <3>1 DEF DayInv
  <2>6. rpc'[r] # "save"
    BY <1>1, <1>t DEF SaveRunning, Goto, Finish
  <2>7. \A q \in Runs : q # r => ~Pending(q)' /\ rpc'[q] # "save"
    <3>1. \A q \in Runs : q # r => scheduled'[q] = scheduled[q]
      BY <1>1, <1>t DEF SaveRunning, Finish
    <3> QED BY <2>2, <2>3, <3>1 DEF Pending
  <2>8. /\ \A m \in Nodes : cron'[m] # "idle" => claim' /\ ~dayDone'
        /\ \A m, k \in Nodes : cron'[m] # "idle" /\ cron'[k] # "idle" => m = k
        /\ completed' = IF dayDone' THEN 1 ELSE 0
    BY <2>1, <2>4 DEF DayInv
  <2> QED BY <2>5, <2>6, <2>7, <2>8 DEF DayInv
<1>2. CASE Upload(r) \/ MoveArchive(r) \/ List(r) \/ DeleteOld(r) \/ RunSucceeds(r) \/ RunFails(r)
  <2>1. UNCHANGED <<cron, node, scheduled, claim, dayDone, completed>>
    BY <1>2 DEF Upload, MoveArchive, List, DeleteOld, RunSucceeds, RunFails, process, day
  <2>2. \A q \in Runs : (Pending(q)' => Pending(q)) /\ (rpc'[q] = "save" => rpc[q] = "save")
    BY <1>2, <1>t, <2>1 DEF Upload, MoveArchive, List, DeleteOld, RunSucceeds, RunFails, Goto, Pending
  <2> QED BY <2>1, <2>2 DEF DayInv
<1>3. CASE SettleRun(r)
  <2>1. Active(r) /\ UNCHANGED <<cron, node, scheduled>> /\ rpc' = [rpc EXCEPT ![r] = "final"]
    BY <1>3 DEF SettleRun, Active, Goto, process
  <2>2. \A q \in Runs : ~Pending(q)' /\ rpc'[q] # "save"
    BY <1>a, <1>b, <1>t, <2>1 DEF Pending
  <2>3. CASE UNCHANGED day
    BY <2>1, <2>2, <2>3 DEF DayInv, day
  <2>4. CASE ~UNCHANGED day
    <3>1. Pending(r)
      BY <1>3, <2>4, Zenon DEF SettleRun, Pending
    <3>2. ~dayDone /\ \A n \in Nodes : cron[n] = "idle"
      BY <3>1 DEF DayInv
    <3>3. completed = 0
      BY <3>2 DEF DayInv
    <3>4. \/ dayDone' = TRUE /\ completed' = completed + 1
          \/ dayDone' = dayDone /\ completed' = completed
      BY <1>3, Zenon DEF SettleRun, day
    <3>5. completed' = IF dayDone' THEN 1 ELSE 0
      <4>1. CASE dayDone' = TRUE /\ completed' = completed + 1
        BY <3>3, <4>1
      <4>2. CASE dayDone' = dayDone /\ completed' = completed
        BY <3>2, <3>3, <4>2
      <4> QED BY <3>4, <4>1, <4>2
    <3> QED BY <2>1, <2>2, <3>2, <3>5 DEF DayInv
  <2> QED BY <2>3, <2>4
<1>4. CASE SaveFinal(r) \/ Unlock(r)
  <2>1. UNCHANGED <<cron, claim, dayDone, completed>>
    BY <1>4 DEF SaveFinal, Unlock, process, day
  <2>2. \A q \in Runs : /\ Pending(q)' => Pending(q)
                        /\ scheduled'[q] /\ rpc'[q] = "save" =>
                             scheduled[q] /\ rpc[q] = "save" /\ node'[q] = node[q]
    BY <1>4, <1>t DEF SaveFinal, Unlock, Finish, Goto, Pending
  <2> QED BY <2>1, <2>2 DEF DayInv
<1> QED BY <1>1, <1>2, <1>3, <1>4 DEF RunStep

LEMMA DayNext ==
  ASSUME IInv, DayInv, [Next]_vars
  PROVE  DayInv'
<1>1. ASSUME NEW n \in Nodes, Exit(n)
      PROVE  DayInv'
  <2>1. \A m \in Nodes : cron'[m] # "idle" => m # n /\ cron[m] # "idle"
    BY <1>1 DEF Exit, IInv, TypeOK
  <2>2. \A q \in Runs : /\ Pending(q)' => Pending(q)
                        /\ scheduled'[q] /\ rpc'[q] = "save" =>
                             scheduled[q] /\ rpc[q] = "save" /\ node'[q] = node[q] /\ node[q] # n
    BY <1>1 DEF Exit, Finish, Pending, IInv, TypeOK
  <2>3. \A m \in Nodes : m # n => cron'[m] = cron[m]
    BY <1>1 DEF Exit, IInv, TypeOK
  <2>4. \A q \in Runs : rpc[q] = "save" => node[q] \in Nodes
    BY DEF IInv, Placed, Active
  <2>5. UNCHANGED <<claim, dayDone, completed>>
    BY <1>1 DEF Exit, day
  <2>6. \A q \in Runs : scheduled'[q] /\ rpc'[q] = "save" => cron'[node'[q]] = "trigger"
    BY <2>2, <2>3, <2>4 DEF DayInv
  <2>7. \A q \in Runs : Pending(q)' => claim' /\ ~dayDone' /\ \A m \in Nodes : cron'[m] = "idle"
    BY <2>1, <2>2, <2>5 DEF DayInv
  <2> QED BY <2>1, <2>5, <2>6, <2>7 DEF DayInv
<1>2. CASE ClaimExpires
  <2>1. \A r \in Runs : ~Pending(r)
    BY <1>2 DEF ClaimExpires, Pending, Active
  <2>2. UNCHANGED <<cron, rpc, node, scheduled, dayDone, completed>>
    BY <1>2 DEF ClaimExpires, process, run
  <2>3. \A n \in Nodes : cron[n] = "idle"
    BY <1>2 DEF ClaimExpires
  <2> QED BY <2>1, <2>2, <2>3 DEF DayInv, Pending
<1>3. CASE UNCHANGED <<cron, run, day>>
  BY <1>3 DEF DayInv, Pending, run, day
<1>4. ASSUME NEW n \in Nodes,
             LoadStatus(n) \/ StoreStatus(n) \/ Stop(n) \/ Start(n) \/ SaveStartup(n)
      PROVE  UNCHANGED <<cron, run, day>>
  BY <1>4 DEF LoadStatus, StoreStatus, Stop, Start, SaveStartup
<1>5. CASE LockExpires \/ UNCHANGED vars
  BY <1>3, <1>5 DEF LockExpires, vars, process
<1> QED BY <1>1, <1>2, <1>3, <1>4, <1>5, TickDay, RunDay DEF Next

LEMMA IInvInit == Init => IInv
BY TypeInit, LockInit DEF IInv, TypeInv

LEMMA IInvNext == IInv /\ [Next]_vars => IInv'
BY TypeNext, LockNext DEF IInv, TypeInv

(* The day's backup is marked done once: of all processes' ticks and runs  *)
(* one at a time carries the day's claim, and a day that is done cannot be *)
(* claimed again (claimDayScript, CompleteDay, ReleaseDay).                *)
THEOREM DayCorrect == Spec => []DayCompletedOnce
<1>1. DayInv => DayCompletedOnce
  BY DEF DayInv, DayCompletedOnce
<1>2. Init => IInv /\ DayInv
  BY IInvInit, DayInit
<1>3. IInv /\ DayInv /\ [Next]_vars => (IInv /\ DayInv)'
  BY IInvNext, DayNext
<1> QED BY <1>1, <1>2, <1>3, PTL DEF Spec

-----------------------------------------------------------------------------
(* The object store.  A run that works has replaced the status by          *)
(* "running", and only a run that has cleaned up writes "succeeded".       *)

Working == {"upload", "move", "list", "cleanup", "succeeded", "failed", "final"}

\* A run executes in a process that is alive; what that process remembers
\* when it saves its status.
Alive == \A r \in Runs : Active(r) => proc[node[r]] \in {"up", "stopping"}
Saving == \A r \in Runs : rpc[r] = "save" => mem[node[r]].state = "running"
Booting == \A n \in Nodes : proc[n] = "boot" => mem[n].state \in {"failed", "disabled"}

\* What a run knows of the objects once it has listed them.
Clean(r) ==
  /\ rpc[r] = "cleanup" => objects \ todo[r] = {<<r, "archive">>}
  /\ rpc[r] = "succeeded" => objects = {<<r, "archive">>}
  /\ rpc[r] = "final" /\ final[r].state = "succeeded" =>
       final[r].archive = r /\ objects = {<<r, "archive">>}
Cleaned == \A r \in Runs : Clean(r)

\* The status "succeeded" names the only object, and nobody is at work.
Succeeded ==
  st.state = "succeeded" =>
    /\ st.archive \in Runs /\ objects = {<<st.archive, "archive">>}
    /\ \A r \in Runs : rpc[r] \notin Working

MemInv == Alive /\ Saving /\ Booting
ObjInv == MemInv /\ Cleaned /\ Succeeded

LEMMA ObjInit == Init => ObjInv
<1> SUFFICES ASSUME Init PROVE ObjInv
  OBVIOUS
<1>1. Alive /\ Saving /\ Booting /\ Cleaned
  BY DEF Init, Alive, Active, Saving, Booting, Cleaned, Clean
<1>2. Succeeded
  BY DEF Init, Succeeded, NoStatus
<1> QED BY <1>1, <1>2 DEF ObjInv, MemInv

\* Steps of the processes leave the objects and the runs that work alone.
LEMMA NodeMem ==
  ASSUME IInv, MemInv, NEW n \in Nodes,
         \/ ClaimDay(n) \/ ReleaseClaim(n) \/ LoadStatus(n) \/ StoreStatus(n)
         \/ Stop(n) \/ Exit(n) \/ Start(n) \/ SaveStartup(n)
  PROVE  MemInv'
<1>t. /\ proc \in [Nodes -> {"up", "stopping", "down", "boot"}]
      /\ mem \in [Nodes -> Status]
      /\ \A r \in Runs : Active(r) => node[r] \in Nodes
  BY DEF IInv, TypeOK, Placed
<1>a. \A r \in Runs : rpc[r] = "save" => Active(r)
  BY DEF Active
<1>1. CASE ClaimDay(n) \/ ReleaseClaim(n) \/ LoadStatus(n)
  BY <1>1 DEF ClaimDay, ReleaseClaim, LoadStatus, run, MemInv, Alive, Saving, Booting, Active
<1>2. CASE StoreStatus(n)
  <2>1. /\ \A r \in Runs : rpc[r] = "save" => node[r] # n
        /\ proc[n] = "up" /\ UNCHANGED <<proc, rpc, node>>
        /\ \A m \in Nodes : m # n => mem'[m] = mem[m]
    BY <1>2, <1>t DEF StoreStatus, MutexFree, run
  <2> QED BY <1>t, <1>a, <2>1 DEF MemInv, Alive, Saving, Booting, Active
<1>3. CASE Stop(n)
  <2>1. proc' = [proc EXCEPT ![n] = "stopping"] /\ UNCHANGED <<mem, rpc, node>>
    BY <1>3 DEF Stop, run
  <2> QED BY <1>t, <2>1 DEF MemInv, Alive, Saving, Booting, Active
<1>4. CASE Exit(n)
  <2>1. /\ \A r \in Runs : Active(r)' => Active(r) /\ node'[r] = node[r] /\ node[r] # n
        /\ \A r \in Runs : rpc'[r] = "save" => rpc[r] = "save"
        /\ \A m \in Nodes : m # n => mem'[m] = mem[m] /\ proc'[m] = proc[m]
        /\ proc'[n] = "down"
    BY <1>4, <1>t DEF Exit, Finish, Active
  <2>2. \A r \in Runs : rpc'[r] = "save" => Active(r)'
    BY DEF Active
  <2> QED BY <1>t, <1>a, <2>1, <2>2 DEF MemInv, Alive, Saving, Booting
<1>5. CASE Start(n)
  <2>1. /\ UNCHANGED <<rpc, node>>
        /\ \A m \in Nodes : m # n => mem'[m] = mem[m] /\ proc'[m] = proc[m]
        /\ \A r \in Runs : Active(r) => node[r] # n
    BY <1>5, <1>t DEF Start, run, MemInv, Alive
  <2>2. proc'[n] = "boot" => mem'[n].state \in {"failed", "disabled"}
    <3>1. CASE mem' = [mem EXCEPT ![n] = [state |-> "disabled", archive |-> 0]]
      BY <1>t, <3>1
    <3>2. CASE /\ mem' = [mem EXCEPT ![n] = Loaded]
               /\ proc' = [proc EXCEPT ![n] = IF st.state = "running" THEN "boot" ELSE "up"]
      <4>1. ASSUME st.state = "running" PROVE mem'[n].state = "failed"
        <5>1. st \in Status
          BY <4>1 DEF IInv, TypeOK, NoStatus
        <5>2. Loaded = [st EXCEPT !.state = "failed"]
          BY <4>1 DEF Loaded, NoStatus
        <5> QED BY <1>t, <3>2, <5>1, <5>2 DEF Status
      <4> QED BY <1>t, <3>2, <4>1
    <3> QED BY <1>5, <3>1, <3>2 DEF Start
  <2>3. \A r \in Runs : Active(r)' <=> Active(r)
    BY <2>1 DEF Active
  <2> QED BY <1>t, <1>a, <2>1, <2>2, <2>3 DEF MemInv, Alive, Saving, Booting
<1>6. CASE SaveStartup(n)
  <2>1. proc' = [proc EXCEPT ![n] = "up"] /\ UNCHANGED <<mem, rpc, node>>
    BY <1>6 DEF SaveStartup, run
  <2> QED BY <1>t, <2>1 DEF MemInv, Alive, Saving, Booting, Active
<1> QED BY <1>1, <1>2, <1>3, <1>4, <1>5, <1>6

LEMMA NodeObj ==
  ASSUME IInv, ObjInv, NEW n \in Nodes,
         \/ ClaimDay(n) \/ ReleaseClaim(n) \/ LoadStatus(n) \/ StoreStatus(n)
         \/ Stop(n) \/ Exit(n) \/ Start(n) \/ SaveStartup(n)
  PROVE  ObjInv'
<1>1. MemInv'
  BY NodeMem DEF ObjInv
<1>2. CASE UNCHANGED <<run, st, objects>>
  BY <1>1, <1>2 DEF ObjInv, Cleaned, Clean, Succeeded, run
<1>3. CASE Exit(n)
  <2>1. \A r \in Runs : rpc'[r] # "over" =>
          rpc'[r] = rpc[r] /\ todo'[r] = todo[r] /\ final'[r] = final[r]
    BY <1>3 DEF Exit, Finish
  <2>2. UNCHANGED <<st, objects>>
    BY <1>3 DEF Exit
  <2>3. Cleaned'
    BY <2>1, <2>2 DEF ObjInv, Cleaned, Clean
  <2>4. Succeeded'
    BY <2>1, <2>2 DEF ObjInv, Succeeded, Working
  <2> QED BY <1>1, <2>3, <2>4 DEF ObjInv
<1>4. CASE SaveStartup(n)
  <2>1. UNCHANGED <<run, objects>>
    BY <1>4 DEF SaveStartup
  <2>2. st' = st \/ st'.state \in {"failed", "disabled"}
    BY <1>4 DEF SaveStartup, ObjInv, MemInv, Booting
  <2>3. Cleaned'
    BY <2>1 DEF ObjInv, Cleaned, Clean, run
  <2>4. Succeeded'
    BY <2>1, <2>2 DEF ObjInv, Succeeded, run
  <2> QED BY <1>1, <2>3, <2>4 DEF ObjInv
<1>5. CASE ClaimDay(n) \/ ReleaseClaim(n) \/ LoadStatus(n) \/ StoreStatus(n) \/ Stop(n) \/ Start(n)
  BY <1>2, <1>5 DEF ClaimDay, ReleaseClaim, LoadStatus, StoreStatus, Stop, Start
<1> QED BY <1>3, <1>4, <1>5

LEMMA TriggerObj ==
  ASSUME IInv, ObjInv, NEW n \in Nodes, NEW sched \in BOOLEAN, Trigger(n, sched)
  PROVE  ObjInv'
<1>1. \A r \in Runs : ~Active(r)
  BY DEF Trigger, LockFree, IInv, HoldsLock, Runs
<1>2. /\ rpc' = [rpc EXCEPT ![runs + 1] = "save"]
      /\ node' = [node EXCEPT ![runs + 1] = n]
      /\ mem' = [mem EXCEPT ![n] = [state |-> "running", archive |-> 0]]
      /\ proc[n] = "up" /\ UNCHANGED <<proc, todo, final, st, objects>>
  BY DEF Trigger, Goto
<1>t. /\ rpc \in [Runs -> {"new", "save", "upload", "move", "list", "cleanup", "succeeded",
                           "failed", "final", "unlock", "over"}]
      /\ node \in [Runs -> Nodes \cup {Nobody}] /\ mem \in [Nodes -> Status]
  BY DEF IInv, TypeOK
<1>3. \A r \in Runs : Active(r)' => rpc'[r] = "save" /\ node'[r] = n
  BY <1>1, <1>2, <1>t DEF Active
<1>4. mem'[n].state = "running"
  BY <1>2, <1>t
<1>5. Alive' /\ Saving' /\ Booting'
  <2>1. Alive'
    BY <1>2, <1>3 DEF Alive
  <2>2. Saving'
    <3>1. \A r \in Runs : rpc'[r] = "save" => Active(r)'
      BY DEF Active
    <3> QED BY <1>3, <1>4, <3>1 DEF Saving
  <2>3. Booting'
    BY <1>2, <1>t DEF ObjInv, MemInv, Booting
  <2> QED BY <2>1, <2>2, <2>3
<1>6. \A r \in Runs : rpc'[r] \notin Working
  <2>1. \A r \in Runs : rpc'[r] \in Working => Active(r)'
    BY DEF Working, Active
  <2> QED BY <1>3, <2>1 DEF Working
<1>7. Cleaned'
  BY <1>6 DEF Cleaned, Clean, Working
<1>8. Succeeded'
  BY <1>2, <1>6 DEF ObjInv, Succeeded
<1> QED BY <1>5, <1>7, <1>8 DEF ObjInv, MemInv

\* The other runs are not there: only r's own knowledge is at stake.
LEMMA RunAlone ==
  ASSUME IInv, NEW r \in Runs, RunStep(r)
  PROVE  /\ node[r] \in Nodes
         /\ \A q \in Runs : q # r => ~Active(q) /\ rpc'[q] = rpc[q]
         /\ \A q \in Runs : Active(q)' => q = r /\ node'[q] = node[q]
<1>t. rpc \in [Runs -> {"new", "save", "upload", "move", "list", "cleanup", "succeeded",
                        "failed", "final", "unlock", "over"}]
  BY DEF IInv, TypeOK
<1>1. Active(r)
  BY DEF RunStep, SaveRunning, Upload, MoveArchive, List, DeleteOld, RunSucceeds, RunFails,
     SettleRun, SaveFinal, Unlock, Active
<1>2. node[r] \in Nodes /\ \A q \in Runs : q # r => ~Active(q)
  BY <1>1 DEF IInv, Placed, HoldsLock
<1>3. \A q \in Runs : q # r => rpc'[q] = rpc[q]
  <2>1. CASE SaveRunning(r) \/ Unlock(r)
    BY <1>t, <2>1 DEF SaveRunning, Unlock, Goto, Finish
  <2>2. CASE ~(SaveRunning(r) \/ Unlock(r))
    BY <1>t, <2>2 DEF RunStep, Upload, MoveArchive, List, DeleteOld, RunSucceeds, RunFails,
       SettleRun, SaveFinal, Goto
  <2> QED BY <2>1, <2>2
<1>4. Active(r)' => node'[r] = node[r]
  <2>1. CASE SaveRunning(r) \/ Unlock(r)
    BY <1>t, <2>1 DEF SaveRunning, Unlock, Goto, Finish, Active
  <2>2. CASE ~(SaveRunning(r) \/ Unlock(r))
    BY <2>2 DEF RunStep, Upload, MoveArchive, List, DeleteOld, RunSucceeds, RunFails,
       SettleRun, SaveFinal
  <2> QED BY <2>1, <2>2
<1>5. \A q \in Runs : Active(q)' => q = r
  BY <1>2, <1>3 DEF Active
<1> QED BY <1>2, <1>3, <1>4, <1>5

LEMMA RunMem ==
  ASSUME IInv, MemInv, NEW r \in Runs, RunStep(r)
  PROVE  MemInv'
<1>t. /\ proc \in [Nodes -> {"up", "stopping", "down", "boot"}]
      /\ rpc \in [Runs -> {"new", "save", "upload", "move", "list", "cleanup", "succeeded",
                           "failed", "final", "unlock", "over"}]
      /\ mem \in [Nodes -> Status]
  BY DEF IInv, TypeOK
<1>1. proc[node[r]] \in {"up", "stopping"} /\ UNCHANGED proc
  <2>1. Active(r)
    BY DEF RunStep, SaveRunning, Upload, MoveArchive, List, DeleteOld, RunSucceeds, RunFails,
       SettleRun, SaveFinal, Unlock, Active
  <2>2. UNCHANGED proc
    BY DEF RunStep, SaveRunning, Upload, MoveArchive, List, DeleteOld, RunSucceeds, RunFails,
       SettleRun, SaveFinal, Unlock, process
  <2> QED BY <2>1, <2>2 DEF MemInv, Alive
<1>2. Alive'
  BY <1>1, RunAlone DEF Alive
<1>3. Saving'
  <2>1. rpc'[r] # "save"
    <3>1. CASE SaveRunning(r) \/ Unlock(r)
      BY <1>t, <3>1 DEF SaveRunning, Unlock, Goto, Finish
    <3>2. CASE ~(SaveRunning(r) \/ Unlock(r))
      BY <1>t, <3>2 DEF RunStep, Upload, MoveArchive, List, DeleteOld, RunSucceeds, RunFails,
         SettleRun, SaveFinal, Goto
    <3> QED BY <3>1, <3>2
  <2>2. \A q \in Runs : rpc'[q] = "save" => Active(q)'
    BY DEF Active
  <2> QED BY <2>1, <2>2, RunAlone DEF Saving
<1>4. \A m \in Nodes : m # node[r] => mem'[m] = mem[m]
  BY <1>t, RunAlone DEF RunStep, SaveRunning, Upload, MoveArchive, List, DeleteOld, RunSucceeds,
     RunFails, SettleRun, SaveFinal, Unlock
<1>5. Booting'
  BY <1>1, <1>4 DEF MemInv, Booting
<1> QED BY <1>2, <1>3, <1>5 DEF MemInv

LEMMA RunObj ==
  ASSUME IInv, ObjInv, NEW r \in Runs, RunStep(r)
  PROVE  ObjInv'
<1>t. /\ rpc \in [Runs -> {"new", "save", "upload", "move", "list", "cleanup", "succeeded",
                           "failed", "final", "unlock", "over"}]
      /\ todo \in [Runs -> SUBSET Keys] /\ final \in [Runs -> Status] /\ mem \in [Nodes -> Status]
  BY DEF IInv, TypeOK
<1>1. MemInv'
  BY RunMem DEF ObjInv
<1>2. \A q \in Runs : q # r => rpc'[q] \notin Working
  BY RunAlone DEF Active, Working
<1>3. ASSUME Clean(r)' PROVE Cleaned'
  BY <1>2, <1>3 DEF Cleaned, Clean, Working
<1>4. ASSUME rpc[r] \in Working PROVE st.state # "succeeded"
  BY <1>4 DEF ObjInv, Succeeded
<1>5. CASE SaveRunning(r)
  <2>1. \/ rpc'[r] = "upload" /\ st' = mem[node[r]]
        \/ rpc'[r] = "over" /\ st' = st
    BY <1>5, <1>t DEF SaveRunning, Goto, Finish
  <2>2. mem[node[r]].state = "running" /\ UNCHANGED objects
    BY <1>5 DEF SaveRunning, ObjInv, MemInv, Saving
  <2>3. Clean(r)'
    BY <2>1 DEF Clean
  <2>4. Succeeded'
    <3>1. CASE st' = mem[node[r]]
      BY <2>2, <3>1 DEF Succeeded
    <3>2. CASE rpc'[r] = "over" /\ st' = st
      BY <1>2, <2>2, <3>2 DEF ObjInv, Succeeded, Working
    <3> QED BY <2>1, <3>1, <3>2
  <2> QED BY <1>1, <1>3, <2>3, <2>4 DEF ObjInv
<1>6. CASE Upload(r) \/ MoveArchive(r) \/ RunFails(r)
  <2>1. rpc'[r] \in {"move", "list", "failed"} /\ rpc[r] \in Working /\ UNCHANGED st
    BY <1>6, <1>t DEF Upload, MoveArchive, RunFails, Goto, Working
  <2> QED BY <1>1, <1>3, <1>4, <2>1 DEF ObjInv, Clean, Succeeded
<1>7. CASE List(r)
  <2>1. /\ rpc'[r] = "cleanup" /\ rpc[r] \in Working /\ UNCHANGED <<st, objects>>
        /\ todo'[r] = objects \ {<<r, "archive">>} /\ <<r, "archive">> \in objects
    BY <1>7, <1>t DEF List, Listed, Goto, Working
  <2>2. Clean(r)'
    BY <2>1 DEF Clean
  <2> QED BY <1>1, <1>3, <1>4, <2>1, <2>2 DEF ObjInv, Succeeded
<1>8. CASE DeleteOld(r)
  <2>1. PICK k \in todo[r] : objects' = objects \ {k} /\ todo' = [todo EXCEPT ![r] = @ \ {k}]
    BY <1>8 DEF DeleteOld
  <2>2. rpc[r] = "cleanup" /\ UNCHANGED <<rpc, st>>
    BY <1>8 DEF DeleteOld
  <2>3. objects \ todo[r] = {<<r, "archive">>}
    BY <2>2 DEF ObjInv, Cleaned, Clean
  <2>4. objects' \ todo'[r] = objects \ todo[r]
    BY <1>t, <2>1
  <2>5. Clean(r)'
    BY <2>2, <2>3, <2>4 DEF Clean
  <2> QED BY <1>1, <1>3, <1>4, <2>2, <2>5 DEF ObjInv, Succeeded, Working
<1>9. CASE RunSucceeds(r)
  <2>1. /\ rpc'[r] = "succeeded" /\ rpc[r] = "cleanup" /\ todo[r] = {}
        /\ UNCHANGED <<st, objects>>
    BY <1>9, <1>t DEF RunSucceeds, Goto
  <2>2. objects = {<<r, "archive">>}
    BY <2>1 DEF ObjInv, Cleaned, Clean
  <2>3. Clean(r)'
    BY <2>1, <2>2 DEF Clean
  <2> QED BY <1>1, <1>3, <1>4, <2>1, <2>3 DEF ObjInv, Succeeded, Working
<1>10. CASE SettleRun(r)
  <2>1. /\ rpc'[r] = "final" /\ rpc[r] \in {"succeeded", "failed"} /\ UNCHANGED <<st, objects>>
        /\ final'[r] = IF rpc[r] = "succeeded" THEN [state |-> "succeeded", archive |-> r]
                       ELSE [mem[node[r]] EXCEPT !.state = "failed"]
    BY <1>10, <1>t DEF SettleRun, Goto
  <2>2. mem[node[r]] \in Status
    BY <1>t, RunAlone
  <2>3. CASE rpc[r] = "succeeded"
    <3>1. objects = {<<r, "archive">>}
      BY <2>3 DEF ObjInv, Cleaned, Clean
    <3>2. final'[r].archive = r
      BY <2>1, <2>3
    <3>3. Clean(r)'
      BY <2>1, <3>1, <3>2 DEF Clean
    <3> QED BY <1>1, <1>3, <1>4, <2>1, <3>3 DEF ObjInv, Succeeded, Working
  <2>4. CASE rpc[r] = "failed"
    <3>1. final'[r].state = "failed"
      BY <2>1, <2>2, <2>4 DEF Status
    <3>2. Clean(r)'
      BY <2>1, <3>1 DEF Clean
    <3> QED BY <1>1, <1>3, <1>4, <2>1, <3>2 DEF ObjInv, Succeeded, Working
  <2> QED BY <2>1, <2>3, <2>4
<1>11. CASE SaveFinal(r)
  <2>1. /\ rpc'[r] = "unlock" /\ rpc[r] = "final" /\ UNCHANGED objects
        /\ st' \in {st, final[r]}
    BY <1>11, <1>t DEF SaveFinal, Goto
  <2>2. Clean(r)'
    BY <2>1 DEF Clean
  <2>3. Succeeded'
    <3>1. SUFFICES ASSUME st'.state = "succeeded" PROVE Succeeded'
      BY DEF Succeeded
    <3>2. st' = final[r] /\ final[r].state = "succeeded"
      BY <1>4, <2>1, <3>1 DEF Working
    <3>3. final[r].archive = r /\ objects = {<<r, "archive">>}
      BY <2>1, <3>2 DEF ObjInv, Cleaned, Clean
    <3>4. \A q \in Runs : rpc'[q] \notin Working
      BY <1>2, <2>1 DEF Working
    <3> QED BY <2>1, <3>2, <3>3, <3>4 DEF Succeeded
  <2> QED BY <1>1, <1>3, <2>2, <2>3 DEF ObjInv
<1>12. CASE Unlock(r)
  <2>1. rpc'[r] = "over" /\ UNCHANGED <<st, objects>>
    BY <1>12 DEF Unlock, Finish
  <2>2. \A q \in Runs : rpc'[q] \notin Working
    BY <1>2, <2>1 DEF Working
  <2>3. Clean(r)'
    BY <2>1 DEF Clean
  <2>4. Succeeded'
    BY <2>1, <2>2 DEF ObjInv, Succeeded
  <2> QED BY <1>1, <1>3, <2>3, <2>4 DEF ObjInv
<1> QED BY <1>5, <1>6, <1>7, <1>8, <1>9, <1>10, <1>11, <1>12 DEF RunStep

LEMMA ObjNext ==
  ASSUME IInv, ObjInv, [Next]_vars
  PROVE  ObjInv'
<1>1. CASE UNCHANGED <<process, mem, run, st, objects>>
  BY <1>1 DEF ObjInv, MemInv, Alive, Saving, Booting, Cleaned, Clean, Succeeded, Active, process, run
<1>2. CASE LockExpires \/ ClaimExpires \/ UNCHANGED vars
  BY <1>1, <1>2 DEF LockExpires, ClaimExpires, vars
<1> QED BY <1>2, NodeObj, TriggerObj, RunObj DEF Next

LEMMA ObjCorrect == Spec => []ObjInv
<1>1. Init => IInv /\ ObjInv
  BY IInvInit, ObjInit
<1>2. IInv /\ ObjInv /\ [Next]_vars => (IInv /\ ObjInv)'
  BY IInvNext, ObjNext
<1> QED BY <1>1, <1>2, PTL DEF Spec

(* When the last word is "succeeded", the store holds the named archive    *)
(* and nothing else: a run deletes what it finds, leftovers of dead runs   *)
(* included, before it reports its success (Runner.Run, cleanup).          *)
THEOREM NewestKept == Spec => []KeepsOnlyNewest
<1>1. ObjInv => KeepsOnlyNewest
  BY DEF ObjInv, Succeeded, KeepsOnlyNewest
<1> QED BY <1>1, ObjCorrect, PTL

(* A status "succeeded" names an archive that is there, at every moment    *)
(* until the next run has replaced the status.                             *)
THEOREM RestorableCorrect == Spec => []SucceededIsRestorable
<1>1. ObjInv => SucceededIsRestorable
  <2> SUFFICES ASSUME ObjInv, st.state = "succeeded"
               PROVE  \E r \in Runs : r >= st.archive /\ <<r, "archive">> \in objects
    BY DEF SucceededIsRestorable
  <2>1. st.archive \in Runs /\ objects = {<<st.archive, "archive">>}
    BY DEF ObjInv, Succeeded
  <2>2. st.archive >= st.archive /\ <<st.archive, "archive">> \in objects
    BY <2>1 DEF Runs
  <2> QED BY <2>1, <2>2
<1> QED BY <1>1, ObjCorrect, PTL

-----------------------------------------------------------------------------
(* The promise of Archives.  The run at work is the newest one, and its    *)
(* archive is there only after it was moved to its key.                    *)

Newest ==
  /\ \A r \in Runs : Active(r) => r = runs
  /\ \A r \in Archived : r <= runs /\ rpc[r] \notin {"save", "upload", "move"}

LEMMA NewestInit == Init => Newest
BY DEF Init, Newest, Archived, Active

LEMMA NewestNext ==
  ASSUME IInv, Newest, [Next]_vars
  PROVE  Newest'
<1>t. /\ rpc \in [Runs -> {"new", "save", "upload", "move", "list", "cleanup", "succeeded",
                           "failed", "final", "unlock", "over"}]
      /\ runs \in 0..MaxRuns /\ Archived \subseteq Runs /\ Runs \subseteq Nat
  BY DEF IInv, TypeOK, Archived, Runs
<1>1. CASE UNCHANGED <<rpc, runs, objects>>
  BY <1>1 DEF Newest, Archived, Active
<1>2. ASSUME NEW n \in Nodes, NEW sched \in BOOLEAN, Trigger(n, sched)
      PROVE  Newest'
  <2>1. \A r \in Runs : ~Active(r)
    BY <1>2 DEF Trigger, LockFree, IInv, HoldsLock, Runs
  <2>2. runs' = runs + 1 /\ rpc' = [rpc EXCEPT ![runs + 1] = "save"] /\ UNCHANGED objects
    BY <1>2 DEF Trigger, Goto
  <2>3. \A r \in Runs : Active(r)' => r = runs'
    BY <1>t, <2>1, <2>2 DEF Active
  <2>4. \A r \in Archived' : r <= runs' /\ rpc'[r] \notin {"save", "upload", "move"}
    <3>1. Archived' = Archived
      BY <2>2 DEF Archived
    <3> QED BY <1>t, <2>2, <3>1 DEF Newest
  <2> QED BY <2>3, <2>4 DEF Newest
<1>3. ASSUME NEW r \in Runs, RunStep(r)
      PROVE  Newest'
  <2>1. /\ Active(r) /\ r = runs
        /\ runs' = runs /\ \A q \in Runs : q # r => rpc'[q] = rpc[q]
    <3>1. Active(r) /\ runs' = runs
      BY <1>3 DEF RunStep, SaveRunning, Upload, MoveArchive, List, DeleteOld, RunSucceeds,
         RunFails, SettleRun, SaveFinal, Unlock, Active
    <3> QED BY <1>3, <3>1, RunAlone DEF Newest
  <2>2. \A q \in Runs : Active(q)' => q = runs'
    BY <1>3, <2>1, RunAlone
  <2>3. \A q \in Archived' : q \in Archived \/ (q = r /\ rpc'[r] = "list")
    <3>1. CASE MoveArchive(r)
      BY <1>t, <3>1 DEF MoveArchive, Archived, Goto
    <3>2. CASE ~MoveArchive(r)
      <4>1. \A q \in Runs : <<q, "archive">> \in objects' => <<q, "archive">> \in objects
        BY <1>3, <3>2 DEF RunStep, SaveRunning, Upload, List, DeleteOld, RunSucceeds, RunFails,
           SettleRun, SaveFinal, Unlock
      <4> QED BY <4>1 DEF Archived
    <3> QED BY <3>1, <3>2
  <2>4. r \in Archived => rpc'[r] \notin {"save", "upload", "move"}
    <3>1. ASSUME r \in Archived PROVE ~SaveRunning(r) /\ ~Upload(r) /\ ~MoveArchive(r)
      BY <3>1 DEF Newest, SaveRunning, Upload, MoveArchive
    <3>2. CASE Unlock(r)
      BY <3>2 DEF Unlock, Finish
    <3>3. CASE \/ List(r) \/ DeleteOld(r) \/ RunSucceeds(r) \/ RunFails(r) \/ SettleRun(r)
               \/ SaveFinal(r)
      BY <1>t, <3>3 DEF List, DeleteOld, RunSucceeds, RunFails, SettleRun, SaveFinal, Goto
    <3> QED BY <1>3, <3>1, <3>2, <3>3 DEF RunStep
  <2>5. ASSUME NEW q \in Archived'
        PROVE  q <= runs' /\ rpc'[q] \notin {"save", "upload", "move"}
    <3>1. q \in Runs
      BY <2>5 DEF Archived
    <3>2. CASE q \in Archived /\ q # r
      BY <2>1, <3>1, <3>2 DEF Newest
    <3>3. CASE q = r
      BY <1>t, <2>1, <2>3, <2>4, <2>5, <3>3
    <3> QED BY <2>3, <2>5, <3>2, <3>3
  <2> QED BY <2>2, <2>5 DEF Newest
<1>4. ASSUME NEW n \in Nodes, Exit(n)
      PROVE  Newest'
  <2>1. UNCHANGED <<runs, objects>> /\ \A r \in Runs : rpc'[r] \in {rpc[r], "over"}
    BY <1>4 DEF Exit, Finish
  <2> QED BY <1>t, <2>1 DEF Newest, Archived, Active
<1>5. ASSUME NEW n \in Nodes,
             \/ ClaimDay(n) \/ ReleaseClaim(n) \/ LoadStatus(n) \/ StoreStatus(n) \/ Stop(n)
             \/ Start(n) \/ SaveStartup(n)
      PROVE  UNCHANGED <<rpc, runs, objects>>
  BY <1>5 DEF ClaimDay, ReleaseClaim, LoadStatus, StoreStatus, Stop, Start, SaveStartup, run
<1>6. CASE LockExpires \/ ClaimExpires \/ UNCHANGED vars
  BY <1>1, <1>6 DEF LockExpires, ClaimExpires, run, vars
<1> QED BY <1>1, <1>2, <1>3, <1>4, <1>5, <1>6 DEF Next

LEMMA ArchivesInit == Init => A!Init
BY DEF Init, A!Init, Archived, Named, NoStatus

\* What a run does to the archives.
LEMMA RunArchives ==
  ASSUME IInv, DayInv, ObjInv, Newest, NEW r \in Runs, RunStep(r)
  PROVE  A!Next \/ UNCHANGED A!vars
<1>t. /\ rpc \in [Runs -> {"new", "save", "upload", "move", "list", "cleanup", "succeeded",
                           "failed", "final", "unlock", "over"}]
      /\ todo \in [Runs -> SUBSET Keys]
      /\ Archived \subseteq Runs /\ Runs \subseteq Nat \ {0}
  BY DEF IInv, TypeOK, Archived, Runs
<1>1. ASSUME rpc[r] \in Working PROVE Named = 0
  BY <1>1 DEF ObjInv, Succeeded, Named
<1>2. ASSUME objects = {<<r, "archive">>} PROVE Archived = {r}
  BY <1>2 DEF Archived
<1>3. CASE SaveRunning(r)
  <2>1. mem[node[r]].state = "running"
    BY <1>3 DEF SaveRunning, ObjInv, MemInv, Saving
  <2>2. UNCHANGED <<objects, dayDone>> /\ (st' = mem[node[r]] \/ UNCHANGED st)
    BY <1>3 DEF SaveRunning, day
  <2>3. CASE st' = mem[node[r]]
    <3>1. A!Withdraw
      BY <2>1, <2>2, <2>3 DEF A!Withdraw, Archived, Named
    <3> QED BY <3>1 DEF A!Next
  <2>4. CASE UNCHANGED st
    BY <2>2, <2>4 DEF A!vars, Archived, Named
  <2> QED BY <2>2, <2>3, <2>4
<1>4. CASE Upload(r) \/ List(r) \/ RunSucceeds(r) \/ RunFails(r) \/ Unlock(r)
  <2>1. UNCHANGED <<st, dayDone>>
    BY <1>4 DEF Upload, List, RunSucceeds, RunFails, Unlock, day
  <2>2. \A q \in Runs : <<q, "archive">> \in objects' <=> <<q, "archive">> \in objects
    BY <1>4 DEF Upload, List, RunSucceeds, RunFails, Unlock
  <2> QED BY <2>1, <2>2 DEF A!vars, Archived, Named
<1>5. CASE MoveArchive(r)
  <2>1. UNCHANGED <<st, dayDone>> /\ rpc[r] = "move"
    BY <1>5 DEF MoveArchive, day
  <2>2. Archived' = Archived \cup {r}
    BY <1>5 DEF MoveArchive, Archived
  <2>3. \A q \in Archived : q < r
    <3>1. r = runs /\ r \notin Archived
      BY <2>1 DEF Newest, Active
    <3> QED BY <1>t, <3>1 DEF Newest
  <2>4. A!Publish(r)
    BY <1>1, <2>1, <2>2, <2>3 DEF A!Publish, Working, Named
  <2> QED BY <2>4 DEF A!Next
<1>6. CASE DeleteOld(r)
  <2>1. PICK k \in todo[r] : objects' = objects \ {k}
    BY <1>6 DEF DeleteOld
  <2>2. UNCHANGED <<st, dayDone>> /\ rpc[r] = "cleanup"
    BY <1>6 DEF DeleteOld, day
  <2>3. k # <<r, "archive">> /\ r \in Archived
    BY <2>1, <2>2 DEF ObjInv, Cleaned, Clean, Archived
  <2>4. ASSUME NEW q \in Runs, k = <<q, "archive">>, q \in Archived
        PROVE  A!Retire(q)
    <3>1. q < r
      <4>1. r = runs
        BY <2>2 DEF Newest, Active
      <4> QED BY <1>t, <2>3, <2>4, <4>1 DEF Newest
    <3>2. Archived' = Archived \ {q}
      BY <2>1, <2>4 DEF Archived
    <3>3. Named = 0
      BY <1>1, <2>2 DEF Working
    <3> QED BY <2>2, <2>3, <3>1, <3>2, <3>3 DEF A!Retire, Named
  <2>5. ASSUME \A q \in Archived : k # <<q, "archive">>
        PROVE  UNCHANGED A!vars
    <3>1. Archived' = Archived
      BY <2>1, <2>5 DEF Archived
    <3> QED BY <2>2, <3>1 DEF A!vars, Named
  <2> QED BY <1>t, <2>4, <2>5 DEF A!Next
<1>7. CASE SettleRun(r)
  <2>1. UNCHANGED <<st, objects>>
    BY <1>7 DEF SettleRun
  <2>2. CASE dayDone' = dayDone
    BY <2>1, <2>2 DEF A!vars, Archived, Named
  <2>3. CASE dayDone' # dayDone
    <3>1. scheduled[r] /\ rpc[r] = "succeeded" /\ dayDone' = TRUE
      BY <1>7, <2>3, Zenon DEF SettleRun, day
    <3>2. ~dayDone
      BY <3>1 DEF DayInv, Pending
    <3>3. Archived = {r}
      BY <1>2, <3>1 DEF ObjInv, Cleaned, Clean
    <3>4. A!CompleteDay(r)
      BY <2>1, <3>1, <3>2, <3>3 DEF A!CompleteDay, Archived, Named
    <3> QED BY <3>4 DEF A!Next
  <2> QED BY <2>2, <2>3
<1>8. CASE SaveFinal(r)
  <2>1. UNCHANGED <<objects, dayDone>> /\ rpc[r] = "final" /\ st' \in {st, final[r]}
    BY <1>8 DEF SaveFinal, day
  <2>2. Archived' = Archived
    BY <2>1 DEF Archived
  <2>3. CASE st' = st
    BY <2>1, <2>2, <2>3 DEF A!vars, Named
  <2>4. CASE st' = final[r] /\ final[r].state = "succeeded"
    <3>1. final[r].archive = r /\ Archived = {r}
      BY <1>2, <2>1, <2>4 DEF ObjInv, Cleaned, Clean
    <3>2. A!Report(r)
      BY <2>1, <2>2, <2>4, <3>1 DEF A!Report, Named
    <3> QED BY <3>2 DEF A!Next
  <2>5. CASE st' = final[r] /\ final[r].state # "succeeded"
    <3>1. A!Withdraw
      BY <2>1, <2>2, <2>5 DEF A!Withdraw, Named
    <3> QED BY <3>1 DEF A!Next
  <2> QED BY <2>1, <2>3, <2>4, <2>5
<1> QED BY <1>3, <1>4, <1>5, <1>6, <1>7, <1>8 DEF RunStep

LEMMA ArchivesNext ==
  ASSUME IInv, DayInv, ObjInv, Newest, [Next]_vars
  PROVE  [A!Next]_(A!vars)
<1>1. CASE UNCHANGED <<objects, st, dayDone>>
  BY <1>1 DEF A!vars, Archived, Named
<1>2. ASSUME NEW n \in Nodes, SaveStartup(n)
      PROVE  A!Next \/ UNCHANGED A!vars
  <2>1. UNCHANGED <<objects, dayDone>>
    BY <1>2 DEF SaveStartup, day
  <2>2. st' = st \/ st'.state \in {"failed", "disabled"}
    BY <1>2 DEF SaveStartup, ObjInv, MemInv, Booting
  <2>3. CASE st' = st
    BY <2>1, <2>3 DEF A!vars, Archived, Named
  <2>4. CASE st'.state \in {"failed", "disabled"}
    <3>1. A!Withdraw
      BY <2>1, <2>4 DEF A!Withdraw, Archived, Named
    <3> QED BY <3>1 DEF A!Next
  <2> QED BY <2>2, <2>3, <2>4
<1>3. ASSUME NEW n \in Nodes,
             \/ ClaimDay(n) \/ ReleaseClaim(n) \/ LoadStatus(n) \/ StoreStatus(n)
             \/ Stop(n) \/ Exit(n) \/ Start(n) \/ \E sched \in BOOLEAN : Trigger(n, sched)
      PROVE  UNCHANGED <<objects, st, dayDone>>
  BY <1>3 DEF ClaimDay, ReleaseClaim, LoadStatus, StoreStatus, Stop, Exit, Start, Trigger, day
<1>4. CASE LockExpires \/ ClaimExpires \/ UNCHANGED vars
  BY <1>1, <1>4 DEF LockExpires, ClaimExpires, vars, day
<1> QED BY <1>1, <1>2, <1>3, <1>4, RunArchives DEF Next

AllInv == IInv /\ DayInv /\ ObjInv /\ Newest

LEMMA AllInvCorrect == Spec => []AllInv
<1>1. Init => AllInv
  BY IInvInit, DayInit, ObjInit, NewestInit DEF AllInv
<1>2. AllInv /\ [Next]_vars => AllInv'
  BY IInvNext, DayNext, ObjNext, NewestNext DEF AllInv
<1> QED BY <1>1, <1>2, PTL DEF Spec

(* Whichever process runs, fails, stops or dies, and when: the newest      *)
(* archive is never deleted, an older one only after a newer one was       *)
(* moved to its key, and success is reported and the day completed only    *)
(* by the run whose archive is the only one (Runner.Run, cleanup).         *)
THEOREM ImplementsArchives == Spec => ArchivesKept
<1>1. AllInv /\ [Next]_vars => [A!Next]_(A!vars)
  BY ArchivesNext DEF AllInv
<1> QED
  BY <1>1, ArchivesInit, AllInvCorrect, PTL DEF Spec, ArchivesKept, A!Spec

(* An archive disappears only in favour of a newer one that stays: from    *)
(* the first archive on, a backup can be restored at every moment, also    *)
(* while a run deletes, fails or dies (Runner.cleanup).                    *)
THEOREM NewerArchiveStays ==
  Spec => [][\A q \in Archived \ Archived' : \E r \in Archived' : q < r]_vars
<1>1. ASSUME [A!Next]_(A!vars), NEW q \in Archived \ Archived'
      PROVE  \E r \in Archived' : q < r
  <2>1. PICK p \in Runs : A!Retire(p)
    BY <1>1 DEF A!Next, A!vars, A!Withdraw, A!Publish, A!Report, A!CompleteDay
  <2>2. p = q
    BY <2>1 DEF A!Retire
  <2>3. PICK r \in Archived : q < r
    BY <2>1, <2>2 DEF A!Retire
  <2>4. r # q
    BY <2>3 DEF Archived, Runs
  <2> QED BY <2>1, <2>2, <2>3, <2>4 DEF A!Retire
<1>2. AllInv /\ [Next]_vars => [A!Next]_(A!vars)
  BY ArchivesNext DEF AllInv
<1>3. AllInv /\ [Next]_vars => [\A q \in Archived \ Archived' : \E r \in Archived' : q < r]_vars
  BY <1>1, <1>2
<1> QED
  BY <1>3, AllInvCorrect, PTL DEF Spec
=============================================================================
