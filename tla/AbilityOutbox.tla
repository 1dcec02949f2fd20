---------------------------- MODULE AbilityOutbox ----------------------------
(***************************************************************************)
(* The maintenance row of a problem's tags and difficulty, the profile     *)
(* rebuilds it owes, and the writers of the same facts that go round it.   *)
(*                                                                         *)
(* An edit by ApplyProblemFields is a row of ability_maintenance_pending   *)
(* that any instance may drive: the caller and every recovery loop.        *)
(* Behind the global profile fence the owner replaces the facts, switches  *)
(* the ability model (difficulty only), creates one target per user the    *)
(* edit concerns, rebuilds the user's aggregates and stages the target.    *)
(* With the fence open again a relay publishes one message per target to   *)
(* the user_profile queue, and the row is deleted when the consumer has    *)
(* confirmed every target.  The fence scripts themselves are the subject   *)
(* of ProfileFence, the queue and its retries that of MqConsume.           *)
(*                                                                         *)
(* Approved reviews and the AI analysis replace the same facts with no row,*)
(* fence or target, whatever a row is doing, and the analysis then deletes *)
(* the row.  Whom they leave with a stale profile that nothing durable     *)
(* owes is recorded in excused, and the properties are about the others.   *)
(*                                                                         *)
(* The row of one problem (one scope) is modelled; its operation id is the *)
(* number of the edit.  A target belongs to the operation of the row.      *)
(* wanted, built, lost, excused and stranded are history variables.        *)
(***************************************************************************)
EXTENDS Integers, FiniteSets

CONSTANTS Users,      \* users with an accepted submission somewhere
          Solvers,    \* those who solved this problem
          Workers,    \* calls that run or recover the edit
          Consumers,  \* consumers of the user_profile queue
          Nobody,     \* no owner, no lease, no user
          Dead,       \* a lease whose holder will never renew or release it
          MaxEdits,   \* bound: replacements of the problem's facts asked for
          HardEdits,  \* the rows among them that change the difficulty
          MaxFaults   \* bound: crashes, errors, lost leases, failed or late
                      \* deliveries, builds that meet a closed fence

ASSUME OutboxConstants ==
  /\ Solvers \subseteq Users
  /\ Nobody \notin Users \cup Workers /\ Dead \notin Workers /\ Nobody # Dead
  /\ MaxEdits \in Nat /\ HardEdits \subseteq 1..MaxEdits /\ MaxFaults \in Nat

VARIABLES
  edits, row,          \* replacements asked for; the row of ability_maintenance_pending
  target,              \* [Users -> row of ability_maintenance_targets]
  dirty, stranded,     \* the problem's error_msg has the ability_facts_dirty prefix;
                       \* the row that owed its clearing was deleted
  analysing,           \* an AI analysis has replaced the facts and not deleted the row yet
  closedFor, lease,    \* the global fence: the edit it is closed for (0: open)
  wanted, derived, built, \* per user: the last edit of its facts, the edit its
                       \* aggregates show, the edit its last forced build saw
  excused,             \* users left stale by a writer that goes round the row
  queue, lost,         \* copies of each message in user_profile; messages that vanished
  pc, mine, seen, at,  \* per worker: its copies of the row and of the targets
                       \* still to do, the user being worked on
  cpc, job,            \* per consumer: the message it handles
  faults

marks    == <<dirty, stranded, analysing>>
durable  == <<edits, row, target, marks>>
fence    == <<closedFor, lease>>
facts    == <<wanted, derived, built, excused>>
messages == <<queue, lost>>
worker   == <<pc, mine, seen, at>>
consumer == <<cpc, job>>
vars == <<durable, fence, facts, messages, worker, consumer, faults>>

Edits == 1..MaxEdits
Fenced == {"intent", "facts", "model_ready", "targets_ready", "derived_ready"}
Tails == {"fence_finalized", "dirty_cleared", "cache_tail_done"}

\* hard: the difficulty changed; relay: holder of the relay lease.
Row == [edit : 0..MaxEdits, phase : Fenced \cup Tails \cup {"none"}, rev : Nat,
        owner : Workers \cup {Nobody}, hard : BOOLEAN,
        relay : Workers \cup {Nobody, Dead}]
NoRow == [edit |-> 0, phase |-> "none", rev |-> 0, owner |-> Nobody,
          hard |-> FALSE, relay |-> Nobody]
Present == row.phase # "none"

\* due: next_retry_at has passed, or will without anybody doing anything.
Target == [st : {"none", "pending", "rebuilt", "outbox_ready", "delivered", "consumed"},
           rev : Nat, due : BOOLEAN]
NoTarget == [st |-> "none", rev |-> 0, due |-> FALSE]
NoTargets == [u \in Users |-> NoTarget]

Message == [edit : Edits, user : Users]
NoMessage == [edit |-> 0, user |-> Nobody]

WorkerPC == {"idle", "begin", "claim", "run", "rebuild", "built", "finish", "advance",
             "failed", "abandon", "undo", "undoClear",
             "tail", "relay", "publish", "renewed", "sent", "unsent", "complete", "release"}

TypeOK ==
  /\ edits \in 0..MaxEdits
  /\ row \in Row /\ target \in [Users -> Target]
  /\ dirty \in BOOLEAN /\ stranded \in BOOLEAN /\ analysing \in BOOLEAN
  /\ closedFor \in 0..MaxEdits /\ lease \in Workers \cup {Nobody, Dead}
  /\ wanted \in [Users -> 0..MaxEdits] /\ excused \subseteq Users
  /\ derived \in [Users -> 0..MaxEdits] /\ built \in [Users -> 0..MaxEdits]
  /\ queue \in [Message -> Nat] /\ lost \subseteq Message
  /\ pc \in [Workers -> WorkerPC] /\ mine \in [Workers -> Row]
  /\ seen \in [Workers -> [Users -> Target]] /\ at \in [Workers -> Users \cup {Nobody}]
  /\ cpc \in [Consumers -> {"idle", "build", "confirm", "due"}]
  /\ job \in [Consumers -> Message \cup {NoMessage}]
  /\ faults \in 0..(MaxFaults + 1)

Init ==
  /\ edits = 0 /\ row = NoRow /\ target = NoTargets
  /\ dirty = FALSE /\ stranded = FALSE /\ analysing = FALSE
  /\ closedFor = 0 /\ lease = Nobody
  /\ wanted = [u \in Users |-> 0] /\ derived = wanted /\ built = wanted /\ excused = {}
  /\ queue = [m \in Message |-> 0] /\ lost = {}
  /\ pc = [w \in Workers |-> "idle"] /\ mine = [w \in Workers |-> NoRow]
  /\ seen = [w \in Workers |-> NoTargets] /\ at = [w \in Workers |-> Nobody]
  /\ cpc = [c \in Consumers |-> "idle"] /\ job = [c \in Consumers |-> NoMessage]
  /\ faults = 0

-----------------------------------------------------------------------------
(* Helpers.                                                                *)

Fault == faults < MaxFaults /\ faults' = faults + 1
FaultUnless(expected) == IF expected THEN UNCHANGED faults ELSE Fault

Goto(w, where) == pc' = [pc EXCEPT ![w] = where]
Leave(w) ==
  /\ Goto(w, "idle")
  /\ mine' = [mine EXCEPT ![w] = NoRow]
  /\ seen' = [seen EXCEPT ![w] = NoTargets]
  /\ at' = [at EXCEPT ![w] = Nobody]

OwnsFence(w) == lease = w /\ closedFor = mine[w].edit

\* WHERE scope, operation_id and revision; WHERE also lease_owner.
RevisionMatches(w) == Present /\ row.edit = mine[w].edit /\ row.rev = mine[w].rev
Matches(w) == RevisionMatches(w) /\ row.owner = mine[w].owner

\* UPDATE ... SET phase, revision = revision + 1, and the worker's copy.
AdvancePhase(w, phase) ==
  /\ Matches(w)
  /\ row' = [row EXCEPT !.phase = phase, !.rev = @ + 1]
  /\ mine' = [mine EXCEPT ![w].phase = phase, ![w].rev = @ + 1]

\* Defect: a new difficulty concerns only those who solved the problem.
ConcernedSolvers(r) == Solvers
Concerned(r) == IF r.hard THEN Users ELSE Solvers
Todo(w) == {u \in Users : seen[w][u].st # "none"}
\* ORDER BY user_id.
FirstOf(w) == CHOOSE u \in Todo(w) : TRUE

\* WHERE intent_id: the targets of the operation the worker runs.
TargetOf(w, u) == IF row.edit = mine[w].edit THEN target[u] ELSE NoTarget
ListTargets(w, which(_)) ==
  seen' = [seen EXCEPT ![w] =
    [u \in Users |-> IF which(TargetOf(w, u)) THEN TargetOf(w, u) ELSE NoTarget]]
Done(w, u) == seen' = [seen EXCEPT ![w][u] = NoTarget] /\ at' = [at EXCEPT ![w] = Nobody]

Awaiting(t) == t.st \in {"outbox_ready", "delivered"}
Ready(t) == t.st = "outbox_ready" \/ (t.st = "delivered" /\ t.due)
AllConsumed(w) == \A u \in Users : TargetOf(w, u).st \in {"none", "consumed"}

Running(w, phase) == pc[w] = "run" /\ mine[w].phase = phase

-----------------------------------------------------------------------------
(* Asking for an edit, loading its row, closing the fence.                 *)

\* ApplyProblemFields, the entry that maintains the profiles (tests call it, the
\* reviews do not: see Review).  INSERT ... ON CONFLICT DO NOTHING: an edit of a
\* problem whose row is still there is answered "maintenance already pending".
Request ==
  /\ ~Present /\ edits < MaxEdits
  /\ edits' = edits + 1
  /\ row' = [NoRow EXCEPT !.edit = edits + 1, !.phase = "intent", !.rev = 1,
                             !.hard = edits' \in HardEdits]
  /\ UNCHANGED <<target, marks, fence, facts, messages, worker, consumer, faults>>

\* A relay pass that would find no target to publish and some not consumed
\* moves nothing but the revision, and is left out.
WorthLoading ==
  row.phase = "cache_tail_done" =>
    \/ \E u \in Users : Ready(target[u])
    \/ \A u \in Users : target[u].st \in {"none", "consumed"}

Load(w) ==
  /\ pc[w] = "idle" /\ Present /\ WorthLoading
  /\ Goto(w, IF row.phase \in Tails THEN "tail" ELSE "begin")
  /\ mine' = [mine EXCEPT ![w] = [row EXCEPT !.relay = Nobody]]
  /\ UNCHANGED <<durable, fence, facts, messages, seen, at, consumer, faults>>

\* profileBeginInvalidationScript.
Begin(w) ==
  /\ pc[w] = "begin" /\ lease = Nobody /\ closedFor \in {0, mine[w].edit}
  /\ lease' = w /\ closedFor' = mine[w].edit
  /\ Goto(w, "claim")
  /\ UNCHANGED <<durable, facts, messages, mine, seen, at, consumer, faults>>

BeginRefused(w) ==
  /\ pc[w] = "begin" /\ (lease # Nobody \/ closedFor \notin {0, mine[w].edit})
  /\ Leave(w)
  /\ UNCHANGED <<durable, fence, facts, messages, consumer, faults>>

\* Taking the row from a worker between its two last steps, which nothing
\* but the pace of the recovery rounds prevents, counts as a fault.
Overtakes(w) == \E v \in Workers \ {w} : pc[v] = "advance" /\ Matches(v)

\* Defect: a recovered row is finished although targets are still pending.
ResumesEarly(phase) == IF phase \in {"targets_ready", "derived_ready"} THEN "finish" ELSE "run"
\* A recovered row at derived_ready has only the fence to finish.
ResumesAt(phase) == IF phase = "derived_ready" THEN "finish" ELSE "run"

Claim(w) ==
  /\ pc[w] = "claim"
  /\ \/ /\ RevisionMatches(w) /\ FaultUnless(~Overtakes(w))
        /\ row' = [row EXCEPT !.owner = w, !.rev = @ + 1]
        /\ mine' = [mine EXCEPT ![w].owner = w, ![w].rev = @ + 1]
        /\ Goto(w, ResumesAt(row.phase))
     \/ ~RevisionMatches(w) /\ Goto(w, "abandon") /\ UNCHANGED <<row, mine, faults>>
  /\ UNCHANGED <<edits, target, marks, fence, facts, messages, seen, at, consumer>>

-----------------------------------------------------------------------------
(* Behind the fence.  Before and after its statements the owner validates  *)
(* the fence; a step may still follow the loss of it, and then only the    *)
(* row's revision and owner stand in its way.                              *)

\* markAbilityMaintenanceFacts in the transaction of the facts.  The error of
\* a commit whose outcome cannot be read abandons the fence.
ReplaceFacts(w) ==
  /\ Running(w, "intent")
  /\ wanted' = [u \in Users |-> IF u \in Concerned(row) THEN row.edit ELSE wanted[u]]
  /\ excused' = excused \ Concerned(row)
  /\ AdvancePhase(w, "facts")
  /\ UNCHANGED <<pc, faults>> \/ (Fault /\ Goto(w, "abandon"))
  /\ UNCHANGED <<edits, target, marks, fence, derived, built, messages, seen, at, consumer>>

\* Rolled back: the request is undone if the fence and the row are still ours.
FactsFail(w) ==
  /\ Running(w, "intent") /\ FaultUnless(~OwnsFence(w) \/ ~Matches(w))
  /\ Goto(w, IF OwnsFence(w) /\ Matches(w) THEN "undo" ELSE "abandon")
  /\ UNCHANGED <<durable, fence, facts, messages, mine, seen, at, consumer>>

\* RefreshForMaintenance switches the model and the phase in one transaction.
RefreshModel(w) ==
  /\ Running(w, "facts") /\ mine[w].hard
  /\ AdvancePhase(w, "model_ready")
  /\ UNCHANGED <<edits, target, marks, fence, facts, messages, pc, seen, at, consumer, faults>>

\* One pending target per user who solved the problem, or for a new
\* difficulty per user with any accepted submission; ON CONFLICT DO NOTHING.
PrepareTargets(w) ==
  /\ Running(w, IF mine[w].hard THEN "model_ready" ELSE "facts")
  /\ target' = [u \in Users |->
       IF u \in Concerned(mine[w]) /\ target[u].st = "none"
       THEN [st |-> "pending", rev |-> 1, due |-> FALSE] ELSE target[u]]
  /\ AdvancePhase(w, "targets_ready")
  /\ UNCHANGED <<edits, marks, fence, facts, messages, pc, seen, at, consumer, faults>>

IsPending(t) == t.st = "pending"
ListPending(w) ==
  /\ Running(w, "targets_ready")
  /\ ListTargets(w, IsPending) /\ Goto(w, "rebuild")
  /\ UNCHANGED <<durable, fence, facts, messages, mine, at, consumer, faults>>

\* RebuildUserTagACForUser replaces the aggregates under the locked identity
\* of model and evidence.  It refuses a user some of whose problems have no
\* tags yet, for as long as they have none: then the worker fails (WorkFails).
Rebuild(w) ==
  /\ pc[w] = "rebuild" /\ Todo(w) # {}
  /\ derived' = [derived EXCEPT ![FirstOf(w)] = wanted[FirstOf(w)]]
  /\ at' = [at EXCEPT ![w] = FirstOf(w)] /\ Goto(w, "built")
  /\ UNCHANGED <<durable, fence, wanted, built, excused, messages, mine, seen, consumer, faults>>

\* Defect: the update is conditional on the state alone.
StateMatches(w) == TargetOf(w, at[w]).st = seen[w][at[w]].st
\* WHERE intent_id, user_id, revision and state.
TargetMatches(w) ==
  LET t == TargetOf(w, at[w]) IN t.st = seen[w][at[w]].st /\ t.rev = seen[w][at[w]].rev

AdvanceTarget(w) ==
  /\ pc[w] = "built" /\ Matches(w) /\ TargetMatches(w)
  /\ target' = [target EXCEPT ![at[w]].st = "rebuilt", ![at[w]].rev = @ + 1]
  /\ Done(w, at[w]) /\ Goto(w, "rebuild")
  /\ UNCHANGED <<edits, row, marks, fence, facts, messages, mine, consumer, faults>>

\* Every target rebuilt, or the error "targets remain unrebuilt".
StageTargets(w) ==
  /\ pc[w] = "rebuild" /\ Todo(w) = {}
  /\ \A u \in Users : target[u].st \in {"none", "rebuilt"}
  /\ target' = [u \in Users |->
       IF target[u].st = "rebuilt"
       THEN [target[u] EXCEPT !.st = "outbox_ready", !.rev = @ + 1] ELSE target[u]]
  /\ AdvancePhase(w, "derived_ready") /\ Goto(w, "run")
  /\ UNCHANGED <<edits, marks, fence, facts, messages, seen, at, consumer, faults>>

\* An error (missing tags among them), or a validation, lock or update that
\* finds the fence or the row taken over: failCommitted.
Behind(w) == pc[w] \in {"run", "rebuild", "built"} /\ mine[w].phase # "intent"
WorkFails(w) ==
  /\ Behind(w) /\ FaultUnless(~OwnsFence(w) \/ ~Matches(w))
  /\ Goto(w, "failed")
  /\ UNCHANGED <<durable, fence, facts, messages, mine, seen, at, consumer>>

\* Defect: the problem is marked whoever owns the row.
MarkAnyway(w) ==
  /\ pc[w] = "failed" /\ dirty' = TRUE /\ stranded' = (stranded /\ ~Matches(w))
  /\ Goto(w, "abandon")
  /\ UNCHANGED <<edits, row, target, analysing, fence, facts, messages, mine, seen, at, consumer, faults>>

\* markProblemFactsDirty locks the parent row as the worker knows it.
MarkDirty(w) ==
  /\ pc[w] = "failed"
  /\ dirty' = (dirty \/ Matches(w)) /\ stranded' = (stranded /\ ~Matches(w))
  /\ Goto(w, "abandon")
  /\ UNCHANGED <<edits, row, target, analysing, fence, facts, messages, mine, seen, at, consumer, faults>>

\* AbandonGlobalProfileInvalidation: the lease goes, the fence stays closed.
Abandon(w) ==
  /\ pc[w] = "abandon"
  /\ lease' = IF OwnsFence(w) THEN Nobody ELSE lease
  /\ Leave(w)
  /\ UNCHANGED <<durable, closedFor, facts, messages, consumer, faults>>

-----------------------------------------------------------------------------
(* Reopening the fence.                                                    *)

Reopen(w) == OwnsFence(w) /\ closedFor' = 0 /\ lease' = Nobody

FinishFence(w) ==
  /\ pc[w] = "finish" \/ Running(w, "derived_ready")
  /\ Reopen(w) /\ Goto(w, "advance")
  /\ UNCHANGED <<durable, facts, messages, mine, seen, at, consumer, faults>>

\* In the recovery of a row at derived_ready a failure marks nothing dirty.
\* Bound: one fault more than elsewhere, for such a row has cost one already.
LateFault == faults <= MaxFaults /\ faults' = faults + 1
FinishFails(w) ==
  /\ pc[w] = "finish"
  /\ IF OwnsFence(w) THEN LateFault ELSE UNCHANGED faults
  /\ Goto(w, "abandon")
  /\ UNCHANGED <<durable, fence, facts, messages, mine, seen, at, consumer>>

Advance(w) ==
  /\ pc[w] = "advance"
  /\ \/ AdvancePhase(w, "fence_finalized") /\ Goto(w, "tail") /\ UNCHANGED <<seen, at>>
     \/ ~Matches(w) /\ Leave(w) /\ UNCHANGED row
  /\ UNCHANGED <<edits, target, marks, fence, facts, messages, consumer, faults>>

\* finishWithoutCommit, and only then the row is deleted.
Undo(w) ==
  /\ pc[w] = "undo"
  /\ \/ Reopen(w) /\ Goto(w, "undoClear") /\ UNCHANGED <<mine, seen, at, faults>>
     \/ FaultUnless(~OwnsFence(w)) /\ Leave(w) /\ UNCHANGED closedFor
        /\ lease' = IF lease = w THEN Dead ELSE lease
  /\ UNCHANGED <<durable, facts, messages, consumer>>

UndoClear(w) ==
  /\ pc[w] = "undoClear"
  /\ row' = IF Matches(w) THEN NoRow ELSE row
  /\ Leave(w)
  /\ UNCHANGED <<edits, target, marks, fence, facts, messages, consumer, faults>>

-----------------------------------------------------------------------------
(* completeProblemMaintenanceTail: nobody claims the row here, so several  *)
(* workers may hold the same copy and the revision decides.                *)

InTail(w, phase) == pc[w] = "tail" /\ mine[w].phase = phase

ClearDirty(w) ==
  /\ InTail(w, "fence_finalized")
  /\ AdvancePhase(w, "dirty_cleared") /\ dirty' = FALSE /\ stranded' = FALSE
  /\ UNCHANGED <<edits, target, analysing, fence, facts, messages, pc, seen, at, consumer, faults>>

\* The version counters of the cached lists are bumped first.
BumpLists(w) ==
  /\ InTail(w, "dirty_cleared")
  /\ AdvancePhase(w, "cache_tail_done")
  /\ UNCHANGED <<edits, target, marks, fence, facts, messages, pc, seen, at, consumer, faults>>

\* claimAbilityMaintenanceRelay.
RelayClaim(w) ==
  /\ InTail(w, "cache_tail_done") /\ RevisionMatches(w) /\ row.relay = Nobody
  /\ row' = [row EXCEPT !.relay = w, !.rev = @ + 1]
  /\ mine' = [mine EXCEPT ![w].rev = @ + 1]
  /\ Goto(w, "relay")
  /\ UNCHANGED <<edits, target, marks, fence, facts, messages, seen, at, consumer, faults>>

TailFails(w) ==
  /\ pc[w] = "tail"
  /\ FaultUnless(~Matches(w) \/ (mine[w].phase = "cache_tail_done" /\ row.relay # Nobody))
  /\ Leave(w)
  /\ UNCHANGED <<durable, fence, facts, messages, consumer>>

ListReady(w) ==
  /\ pc[w] = "relay"
  /\ ListTargets(w, Ready) /\ Goto(w, "publish")
  /\ UNCHANGED <<durable, fence, facts, messages, mine, at, consumer, faults>>

HoldsRelay(w) == Matches(w) /\ row.relay = w

Renew(w) ==
  /\ pc[w] = "publish" /\ Todo(w) # {} /\ HoldsRelay(w)
  /\ at' = [at EXCEPT ![w] = FirstOf(w)] /\ Goto(w, "renewed")
  /\ UNCHANGED <<durable, fence, facts, messages, mine, seen, consumer, faults>>

\* DoMaintenanceForce; a publish reported as failed may have arrived.
Posted(w) == [queue EXCEPT ![[edit |-> mine[w].edit, user |-> at[w]]] = @ + 1]
Publish(w) ==
  /\ pc[w] = "renewed"
  /\ \/ queue' = Posted(w) /\ Goto(w, "sent") /\ UNCHANGED faults
     \/ queue' \in {queue, Posted(w)} /\ Goto(w, "unsent") /\ Fault
  /\ UNCHANGED <<durable, fence, facts, lost, mine, seen, at, consumer>>

\* The target as it was listed, or consumed meanwhile; else the pass ends.
Consumed(w) == ~TargetMatches(w) /\ TargetOf(w, at[w]).st = "consumed"

RecordSent(w) ==
  /\ pc[w] = "sent"
  /\ \/ /\ TargetMatches(w)
        /\ target' = [target EXCEPT ![at[w]] = [st |-> "delivered", rev |-> @.rev + 1, due |-> FALSE]]
        /\ Done(w, at[w]) /\ Goto(w, "publish")
     \/ Consumed(w) /\ Done(w, at[w]) /\ Goto(w, "publish") /\ UNCHANGED target
     \/ ~TargetMatches(w) /\ ~Consumed(w) /\ Goto(w, "release") /\ UNCHANGED <<target, seen, at>>
  /\ UNCHANGED <<edits, row, marks, fence, facts, messages, mine, consumer, faults>>

RecordUnsent(w) ==
  /\ pc[w] = "unsent"
  /\ \/ /\ TargetMatches(w)
        /\ target' = [target EXCEPT ![at[w]].rev = @ + 1]
        /\ Goto(w, "release") /\ UNCHANGED <<seen, at>>
     \/ Consumed(w) /\ Done(w, at[w]) /\ Goto(w, "publish") /\ UNCHANGED target
     \/ ~TargetMatches(w) /\ ~Consumed(w) /\ Goto(w, "release") /\ UNCHANGED <<target, seen, at>>
  /\ UNCHANGED <<edits, row, marks, fence, facts, messages, mine, consumer, faults>>

\* abilityMaintenanceTargetsConsumed.
CheckConsumed(w) ==
  /\ pc[w] = "publish" /\ Todo(w) = {}
  /\ Goto(w, IF AllConsumed(w) THEN "complete" ELSE "release")
  /\ UNCHANGED <<durable, fence, facts, messages, mine, seen, at, consumer, faults>>

\* completeAbilityMaintenanceTargets deletes targets and row together.
Complete(w) ==
  /\ pc[w] = "complete" /\ AllConsumed(w) /\ Matches(w)
  /\ row' = NoRow /\ target' = NoTargets /\ lost' = {}
  /\ Leave(w)
  /\ UNCHANGED <<edits, marks, fence, facts, queue, consumer, faults>>

RelayFails(w) ==
  /\ pc[w] \in {"relay", "publish", "complete"} /\ FaultUnless(~HoldsRelay(w))
  /\ Goto(w, "release")
  /\ UNCHANGED <<durable, fence, facts, messages, mine, seen, at, consumer>>

\* releaseAbilityMaintenanceRelay leaves the revision alone.
Release(w) ==
  /\ pc[w] = "release"
  /\ row' = IF HoldsRelay(w) THEN [row EXCEPT !.relay = Nobody] ELSE row
  /\ Leave(w)
  /\ UNCHANGED <<edits, target, marks, fence, facts, messages, consumer, faults>>

-----------------------------------------------------------------------------
(* Crashes, leases and the scan for orphaned fences.                       *)

Crash(w) ==
  /\ pc[w] # "idle" /\ Fault
  /\ lease' = IF lease = w THEN Dead ELSE lease
  /\ row' = IF row.relay = w THEN [row EXCEPT !.relay = Dead] ELSE row
  /\ Leave(w)
  /\ UNCHANGED <<edits, target, marks, closedFor, facts, messages, consumer>>

FenceExpires ==
  /\ lease # Nobody /\ FaultUnless(lease = Dead)
  /\ lease' = Nobody
  /\ UNCHANGED <<durable, closedFor, facts, messages, worker, consumer>>

RelayExpires ==
  /\ row.relay # Nobody /\ FaultUnless(row.relay = Dead)
  /\ row' = [row EXCEPT !.relay = Nobody]
  /\ UNCHANGED <<edits, target, marks, fence, facts, messages, worker, consumer>>

RecoverOrphan ==
  /\ closedFor # 0 /\ lease = Nobody
  /\ closedFor' = 0
  /\ UNCHANGED <<durable, lease, facts, messages, worker, consumer, faults>>

-----------------------------------------------------------------------------
(* UserProfileConsumer.                                                    *)

InFlight(m) == queue[m] > 0 \/ \E c \in Consumers : job[c] = m
ConsumerGoto(c, where) == cpc' = [cpc EXCEPT ![c] = where]
Settle(c) == ConsumerGoto(c, "idle") /\ job' = [job EXCEPT ![c] = NoMessage]

Take(c, m) ==
  /\ cpc[c] = "idle" /\ queue[m] > 0
  /\ queue' = [queue EXCEPT ![m] = @ - 1]
  /\ ConsumerGoto(c, "build") /\ job' = [job EXCEPT ![c] = m]
  /\ UNCHANGED <<durable, fence, facts, lost, worker, faults>>

\* BuildAndCacheUserProfile with force: aggregates and snapshot.
Build(c) ==
  /\ cpc[c] = "build" /\ closedFor = 0
  /\ LET u == job[c].user
     IN  derived' = [derived EXCEPT ![u] = wanted[u]] /\ built' = [built EXCEPT ![u] = wanted[u]]
         /\ excused' = excused \ {u}
  /\ ConsumerGoto(c, "confirm")
  /\ UNCHANGED <<durable, fence, wanted, messages, worker, job, faults>>

\* A closed fence, missing tags or a model switch defer the message at once,
\* other errors when its retries are exhausted.
BuildFails(c) ==
  /\ cpc[c] = "build" /\ Fault
  /\ ConsumerGoto(c, "due")
  /\ UNCHANGED <<durable, fence, facts, messages, worker, job>>

\* A failed attempt, a failed statement or the consumer's crash: the message
\* is queued again.
Requeue(c) ==
  /\ cpc[c] # "idle" /\ Fault
  /\ queue' = [queue EXCEPT ![job[c]] = @ + 1]
  /\ Settle(c)
  /\ UNCHANGED <<durable, fence, facts, lost, worker>>

\* Defect: the operation the message was published for is not looked at.
IsForUser(m) == Awaiting(target[m.user])
\* The target of exactly this operation, if it awaits its consumer.
IsFor(m) == row.edit = m.edit /\ Awaiting(target[m.user])

\* ConfirmAbilityMaintenanceTarget.
Confirm(c) ==
  /\ cpc[c] = "confirm"
  /\ target' = IF IsFor(job[c])
               THEN [target EXCEPT ![job[c].user] = [st |-> "consumed", rev |-> @.rev + 1, due |-> FALSE]]
               ELSE target
  /\ Settle(c)
  /\ UNCHANGED <<edits, row, marks, fence, facts, messages, worker, faults>>

\* Defect: a state that nobody reads.
MarkFailed(c) ==
  /\ cpc[c] = "due"
  /\ target' = IF IsFor(job[c]) THEN [target EXCEPT ![job[c].user].st = "failed"] ELSE target
  /\ Settle(c)
  /\ UNCHANGED <<edits, row, marks, fence, facts, messages, worker, faults>>

\* MarkAbilityMaintenanceTargetDue, before the message is dropped.
MarkDue(c) ==
  /\ cpc[c] = "due"
  /\ target' = IF IsFor(job[c])
               THEN [target EXCEPT ![job[c].user].due = TRUE, ![job[c].user].rev = @ + 1]
               ELSE target
  /\ Settle(c)
  /\ UNCHANGED <<edits, row, marks, fence, facts, messages, worker, faults>>

\* A message vanishes, as in the purge of a queue.
Lose(m) ==
  /\ queue[m] > 0 /\ Fault
  /\ queue' = [queue EXCEPT ![m] = @ - 1] /\ lost' = lost \cup {m}
  /\ UNCHANGED <<durable, fence, facts, worker, consumer>>

\* 24 hours after its publication a delivered target is published again; that
\* the message is still under way by then is a fault.
DeliveryExpires(u) ==
  /\ target[u].st = "delivered" /\ ~target[u].due
  /\ FaultUnless(~InFlight([edit |-> row.edit, user |-> u]))
  /\ target' = [target EXCEPT ![u].due = TRUE]
  /\ UNCHANGED <<edits, row, marks, fence, facts, messages, worker, consumer>>

-----------------------------------------------------------------------------
(* Round the row: neither the row, nor the fence, nor a target is looked   *)
(* at, whatever a row is doing.                                            *)

Written == edits + 1
\* One transaction of the problem's columns and its tags.  Those who solved the
\* problem are then sent a message each, as best effort (see OtherBuild).
ApplyAIAnalysisResult ==
  /\ edits < MaxEdits /\ edits' = Written
  /\ wanted' = [u \in Users |-> IF u \in Solvers THEN Written ELSE wanted[u]]
  /\ excused' = excused \cup Solvers
  /\ UNCHANGED <<row, target, fence, derived, built, messages, worker, consumer, faults>>

\* ReviewProblemEdit, ApplyProblemFieldsForReview.
Review == ApplyAIAnalysisResult /\ UNCHANGED marks

\* ProcessAnalyze: the transaction clears error_msg too; the row is deleted by
\* a later statement.  Bound: one analysis at a time.
Analyze ==
  /\ ~analysing /\ analysing' = TRUE
  /\ ApplyAIAnalysisResult
  /\ dirty' = FALSE /\ stranded' = FALSE

\* DELETE ... WHERE scope: the row of any operation, owner, revision and phase.
\* Its targets stay behind, of an operation that no row has any more.
DropRow ==
  /\ analysing /\ analysing' = FALSE
  /\ row' = NoRow /\ target' = NoTargets /\ lost' = {}
  /\ excused' = excused \cup {u \in Users : Present /\ (derived[u] # wanted[u] \/ built[u] # wanted[u])}
  /\ stranded' = dirty
  /\ UNCHANGED <<edits, dirty, fence, wanted, derived, built, queue, worker, consumer, faults>>

\* Its error is ignored; or the analysis dies before it.
DropFails ==
  /\ analysing /\ analysing' = FALSE
  /\ UNCHANGED <<edits, row, target, dirty, stranded, fence, facts, messages, worker, consumer, faults>>

\* Whatever else writes error_msg: the status a review sets after its facts, an
\* analysis that finds the problem completed, or that fails.
ClearMark ==
  /\ dirty /\ dirty' = FALSE /\ stranded' = FALSE
  /\ UNCHANGED <<edits, row, target, analysing, fence, facts, messages, worker, consumer, faults>>

\* Aggregates rebuilt for other reasons, or by a worker whose row was deleted
\* from the targets left behind.
OtherRefresh(u) ==
  /\ derived' = [derived EXCEPT ![u] = wanted[u]]
  /\ UNCHANGED <<durable, fence, wanted, built, excused, messages, worker, consumer, faults>>

\* A forced build that no target waits for: the message of DoForce, a login.
OtherBuild(u) ==
  /\ closedFor = 0
  /\ derived' = [derived EXCEPT ![u] = wanted[u]] /\ built' = [built EXCEPT ![u] = wanted[u]]
  /\ excused' = excused \ {u}
  /\ UNCHANGED <<durable, fence, wanted, messages, worker, consumer, faults>>

Outside ==
  \/ Review \/ Analyze \/ DropRow \/ DropFails \/ ClearMark
  \/ \E u \in Users : OtherRefresh(u) \/ OtherBuild(u)

-----------------------------------------------------------------------------
FencedStep(w) ==
  \/ Begin(w) \/ BeginRefused(w) \/ Claim(w) \/ ReplaceFacts(w) \/ FactsFail(w)
  \/ RefreshModel(w) \/ PrepareTargets(w) \/ ListPending(w) \/ Rebuild(w) \/ AdvanceTarget(w)
  \/ StageTargets(w) \/ WorkFails(w) \/ MarkDirty(w) \/ Abandon(w) \/ FinishFence(w)
  \/ FinishFails(w) \/ Advance(w) \/ Undo(w) \/ UndoClear(w)
TailStep(w) ==
  \/ ClearDirty(w) \/ BumpLists(w) \/ RelayClaim(w) \/ TailFails(w) \/ ListReady(w) \/ Renew(w)
  \/ Publish(w) \/ RecordSent(w) \/ RecordUnsent(w) \/ CheckConsumed(w) \/ Complete(w)
  \/ RelayFails(w) \/ Release(w)
WorkerStep(w) == FencedStep(w) \/ TailStep(w)

ConsumerStep(c) ==
  \/ Build(c) \/ BuildFails(c) \/ Confirm(c) \/ MarkDue(c)
  \/ \E m \in Message : Take(c, m)

Next ==
  \/ Request
  \/ \E w \in Workers : Load(w) \/ WorkerStep(w) \/ Crash(w)
  \/ FenceExpires \/ RelayExpires \/ RecoverOrphan
  \/ \E c \in Consumers : ConsumerStep(c) \/ Requeue(c)
  \/ \E m \in Message : Lose(m)
  \/ \E u \in Users : DeliveryExpires(u)
  \/ Outside

Spec == Init /\ [][Next]_vars

-----------------------------------------------------------------------------
(* Properties.                                                             *)

\* A user whose profile was last built from facts older than a row's edit that
\* concerns him is owed a rebuild by that row: it is there, and once it has
\* targets the user's one is not consumed, whatever messages of this or an
\* earlier edit are handled late or twice.  Only a later writer that goes round
\* the row, or its deletion by an analysis, excuses it.
StaleProfileIsOwed ==
  \A u \in Users \ excused : built[u] # wanted[u] =>
    /\ Present
    /\ row.phase \notin {"facts", "model_ready"} => target[u].st \notin {"none", "consumed"}

\* Aggregates that lack a row's edit are still going to be rebuilt behind its
\* fence: a target is taken off the pending list only by a worker that has
\* rebuilt it.  The same two things excuse it.
StaleAggregatesArePending ==
  \A u \in Users \ excused : derived[u] # wanted[u] =>
    \/ row.phase \in {"facts", "model_ready"}
    \/ row.phase = "targets_ready" /\ target[u].st = "pending"

\* The problem is marked dirty only as long as the row is there to clear the
\* mark: a worker that lost the row never writes it back after the clearing.
\* Only an analysis that deletes the row after its worker marked the problem
\* strands the mark, and then until the next row, review or analysis.
DirtyIsOwed ==
  dirty /\ ~stranded => row.phase \in (Fenced \ {"intent"}) \cup {"fence_finalized"}

\* A delivered target that waits for its 24 hours has a message under way, or
\* had one that vanished: a deferral that races the publisher's own update is
\* not forgotten for a day.
DeliveredIsUnderWay ==
  \A u \in Users : target[u].st = "delivered" /\ ~target[u].due =>
    LET m == [edit |-> row.edit, user |-> u] IN InFlight(m) \/ m \in lost

\* What an edit promises (see the module ProblemEdits), with its progress read
\* off the row: the steps of workers, relays and consumers, the recoveries and
\* the repeated messages are steps of that promise or change nothing of it.
E == INSTANCE ProblemEdits WITH
       open <- row.edit, replaced <- row.phase \notin {"none", "intent"}
EditsKept == E!Spec
=============================================================================
