---------------------------- MODULE ProfileFence ----------------------------
(***************************************************************************)
(* Durable maintenance of one user's training data behind the profile      *)
(* fence.                                                                  *)
(*                                                                         *)
(* A maintenance operation (SetSpider, PurgeUser) is a row of              *)
(* ability_maintenance_pending.  Any instance may run it: the one that     *)
(* accepted the request and every recovery loop that finds the row.  The   *)
(* runner closes the user's fence (an odd generation in Redis with a lease *)
(* and the operation as its intent), claims the row, replaces the facts in *)
(* one SQL transaction that also advances the row, reopens the fence (an   *)
(* even generation) and runs the tail.  Beside it run the profile builders *)
(* of the user_profile queue and the scan that reopens orphaned fences.    *)
(*                                                                         *)
(* applied and tailed are history variables.                               *)
(***************************************************************************)
EXTENDS Integers, FiniteSets

CONSTANTS Ops,        \* operations, each with its own scope and operation id
          Workers,    \* processes that run or recover operations
          Builders,   \* consumers of the user_profile queue
          Nobody,     \* no lease, no intent, no owner, no operation
          Dead,       \* a lease whose holder will never renew it
          LeaseFaults,\* TRUE: a live holder may lose its lease (a paused process)
          MaxFaults   \* bound: crashes, errors, overtaken workers, lost leases
                      \* and lost commit replies

ASSUME FenceConstants ==
  /\ Nobody \notin Ops \cup Workers \cup {Dead}
  /\ Dead \notin Workers
  /\ LeaseFaults \in BOOLEAN
  /\ MaxFaults \in Nat

VARIABLES
  gen, lease, fenceIntent,   \* Redis: generation, :lease, :current_intent
  row,                       \* [Ops -> ability_maintenance_pending row]
  tx,                        \* [Ops -> worker whose transaction holds the row lock]
  pc, op, seenRow, token,    \* per worker: its copy of the row, its generation
  bpc, bgen, bfacts,         \* per builder
  cache,                     \* the user's published profile snapshot
  applied, tailed,           \* history
  faults

fence   == <<gen, lease, fenceIntent>>
worker  == <<pc, op, seenRow, token>>
builder == <<bpc, bgen, bfacts>>
history == <<applied, tailed>>
vars    == <<fence, row, tx, worker, builder, cache, history, faults>>

\* "new" is an operation nobody has asked for yet, "none" a deleted row.
Phases == {"new", "intent", "facts", "fence_finalized", "none"}
Row == [phase : Phases, rev : Nat, owner : Workers \cup {Nobody}]
NewRow == [phase |-> "new", rev |-> 0, owner |-> Nobody]
NoRow == [phase |-> "none", rev |-> 0, owner |-> Nobody]
Present(o) == row[o].phase \in {"intent", "facts", "fence_finalized"}

Snapshot == [gen : Nat, facts : SUBSET Ops]
NoSnapshot == [gen |-> 0, facts |-> {}]

Even == {n \in Nat : n % 2 = 0}
Odd == {n \in Nat : n % 2 = 1}
Closed == gen % 2 = 1

\* The operations whose effect is in the facts.  Triggers move the evidence
\* identity of the user with every such change, so two equal identities are
\* two equal sets.
Facts == {o \in Ops : applied[o] > 0}

WorkerPC == {"idle", "begin", "claim", "work", "commit", "finish", "advance", "abandon",
             "undo", "undoClear", "tailClaim", "tail", "clear"}

TypeOK ==
  /\ gen \in Nat
  /\ lease \in Workers \cup {Nobody, Dead}
  /\ fenceIntent \in Ops \cup {Nobody}
  /\ row \in [Ops -> Row]
  /\ tx \in [Ops -> Workers \cup {Nobody}]
  /\ pc \in [Workers -> WorkerPC]
  /\ op \in [Workers -> Ops \cup {Nobody}]
  /\ seenRow \in [Workers -> Row]
  /\ token \in [Workers -> Odd \cup {0}]
  /\ bpc \in [Builders -> {"idle", "identity", "check", "publish"}]
  /\ bgen \in [Builders -> Even]
  /\ bfacts \in [Builders -> SUBSET Ops]
  /\ cache \in Snapshot
  /\ applied \in [Ops -> Nat]
  /\ tailed \in SUBSET Ops
  /\ faults \in 0..MaxFaults

Init ==
  /\ gen = 0 /\ lease = Nobody /\ fenceIntent = Nobody
  /\ row = [o \in Ops |-> NewRow]
  /\ tx = [o \in Ops |-> Nobody]
  /\ pc = [w \in Workers |-> "idle"]
  /\ op = [w \in Workers |-> Nobody]
  /\ seenRow = [w \in Workers |-> NoRow]
  /\ token = [w \in Workers |-> 0]
  /\ bpc = [b \in Builders |-> "idle"]
  /\ bgen = [b \in Builders |-> 0]
  /\ bfacts = [b \in Builders |-> {}]
  /\ cache = NoSnapshot
  /\ applied = [o \in Ops |-> 0] /\ tailed = {}
  /\ faults = 0

-----------------------------------------------------------------------------
(* Helpers.                                                                *)

Fault == faults < MaxFaults /\ faults' = faults + 1
FaultUnless(expected) == IF expected THEN UNCHANGED faults ELSE Fault

Goto(w, where) == pc' = [pc EXCEPT ![w] = where]

\* A worker that is done keeps nothing; a lease it still holds is not renewed.
Leave(w) ==
  /\ Goto(w, "idle")
  /\ op' = [op EXCEPT ![w] = Nobody]
  /\ seenRow' = [seenRow EXCEPT ![w] = NoRow]
  /\ token' = [token EXCEPT ![w] = 0]
LeaseUnattended(w) == lease' = IF lease = w THEN Dead ELSE lease

\* The condition of the validate, increment, delete, finish and abandon scripts.
OwnsFence(w) == lease = w /\ fenceIntent = op[w] /\ gen = token[w]

\* An undecided transaction keeps the row it has advanced locked.
RowFree(w) == tx[op[w]] = Nobody

\* Defect: updates are not conditional on the revision.
RowThere(w) == Present(op[w])
\* WHERE scope, operation_id and revision: the condition of the claim, and
\* with lease_owner that of every later update.
RevisionMatches(w) == Present(op[w]) /\ row[op[w]].rev = seenRow[w].rev
RowMatches(w) == RevisionMatches(w) /\ row[op[w]].owner = w

\* UPDATE ... SET lease_owner, revision = revision + 1, on the row and on the
\* worker's copy of it.  Taking the row from a worker that is still going to
\* update it counts as a fault: recovery rounds are a minute apart.
HasClaimed(w) ==
  pc[w] \in {"work", "commit", "finish", "advance", "undo", "undoClear", "tail", "clear"}
Overtakes(w) ==
  \E v \in Workers \ {w} : HasClaimed(v) /\ op[v] = op[w] /\ RowMatches(v)
TakeOver(w) ==
  /\ FaultUnless(~Overtakes(w))
  /\ row' = [row EXCEPT ![op[w]].rev = @ + 1, ![op[w]].owner = w]
  /\ seenRow' = [seenRow EXCEPT ![w].rev = @ + 1, ![w].owner = w]

-----------------------------------------------------------------------------
(* Requesting and loading an operation.                                    *)

\* INSERT ... ON CONFLICT DO NOTHING of a row with phase "intent".
Request(o) ==
  /\ row[o].phase = "new"
  /\ row' = [row EXCEPT ![o] = [phase |-> "intent", rev |-> 1, owner |-> Nobody]]
  /\ UNCHANGED <<fence, tx, worker, builder, cache, history, faults>>

\* Defect: a row whose facts are replaced goes straight to the tail.
NeedsFenceForIntent(o) == row[o].phase = "intent"
\* Defect: the fence is only thought of once the facts are replaced.
NeedsFenceForFacts(o) == row[o].phase = "facts"
NeedsFence(o) == row[o].phase \in {"intent", "facts"}

\* The request's own call, or a recovery loop that read the row; the row is
\* not claimed yet, so several workers may carry the same copy.
Load(w, o) ==
  /\ pc[w] = "idle" /\ Present(o)
  /\ Goto(w, IF NeedsFence(o) THEN "begin" ELSE "tailClaim")
  /\ op' = [op EXCEPT ![w] = o]
  /\ seenRow' = [seenRow EXCEPT ![w] = row[o]]
  /\ UNCHANGED <<fence, row, tx, token, builder, cache, history, faults>>

-----------------------------------------------------------------------------
(* Closing the fence and claiming the row.                                 *)

\* profileBeginInvalidationScript: an even generation becomes odd, an odd one
\* is taken over for the same operation once its lease is gone.
Begin(w) ==
  /\ pc[w] = "begin" /\ lease = Nobody
  /\ \/ Closed /\ fenceIntent = op[w] /\ UNCHANGED <<gen, fenceIntent>>
     \/ ~Closed /\ fenceIntent = Nobody /\ gen' = gen + 1 /\ fenceIntent' = op[w]
  /\ lease' = w
  /\ token' = [token EXCEPT ![w] = gen']
  /\ Goto(w, "claim")
  /\ UNCHANGED <<row, tx, op, seenRow, builder, cache, history, faults>>

\* The script answers "in progress", "intent changed" or "state corrupt".
BeginRefused(w) ==
  /\ pc[w] = "begin"
  /\ lease # Nobody \/ fenceIntent \notin (IF Closed THEN {op[w]} ELSE {Nobody})
  /\ Leave(w)
  /\ UNCHANGED <<fence, row, tx, builder, cache, history, faults>>

Claim(w) ==
  /\ pc[w] = "claim" /\ RowFree(w)
  /\ \/ RevisionMatches(w) /\ TakeOver(w)
        /\ Goto(w, IF seenRow[w].phase = "intent" THEN "work" ELSE "finish")
     \/ ~RevisionMatches(w) /\ Goto(w, "abandon") /\ UNCHANGED <<row, seenRow, faults>>
  /\ UNCHANGED <<fence, tx, op, token, builder, cache, history>>

\* AbandonUserProfileInvalidation deletes the lease, or fails and leaves it to
\* its TTL; the fence stays closed.
Abandon(w) ==
  /\ pc[w] = "abandon"
  /\ \/ lease' = (IF OwnsFence(w) THEN Nobody ELSE lease) /\ UNCHANGED faults
     \/ Fault /\ LeaseUnattended(w)
  /\ Leave(w)
  /\ UNCHANGED <<gen, fenceIntent, row, tx, builder, cache, history>>

-----------------------------------------------------------------------------
(* The facts.                                                              *)

\* Inside the transaction: delete, create, validate the fence, advance the
\* row.  From here on the row is locked and only COMMIT is missing.
MarkFacts(w) ==
  /\ pc[w] = "work" /\ OwnsFence(w) /\ RowFree(w) /\ RowMatches(w)
  /\ tx' = [tx EXCEPT ![op[w]] = w]
  /\ Goto(w, "commit")
  /\ UNCHANGED <<fence, row, op, seenRow, token, builder, cache, history, faults>>

\* Before the transaction, a failed validation, generation bump or write lock
\* counts as rolled back; an error inside it reads the row again, and a row
\* that another worker has moved leaves the outcome unknown.
WorkFails(w) ==
  /\ pc[w] = "work"
  /\ \/ FaultUnless(~OwnsFence(w)) /\ Goto(w, "undo")
     \/ FaultUnless(~OwnsFence(w) \/ ~RowMatches(w))
        /\ Goto(w, IF RowMatches(w) THEN "undo" ELSE "abandon")
  /\ UNCHANGED <<fence, row, tx, op, seenRow, token, builder, cache, history>>

\* The server decides COMMIT.  A worker that still waits for the reply learns
\* it, from the reply or by reading the row again.
CommitFacts(o) ==
  /\ tx[o] # Nobody
  /\ tx' = [tx EXCEPT ![o] = Nobody]
  /\ applied' = [applied EXCEPT ![o] = @ + 1]
  /\ row' = [row EXCEPT ![o].phase = "facts", ![o].rev = @ + 1]
  /\ LET w == tx[o]
     IN  IF pc[w] = "commit" /\ op[w] = o
         THEN Goto(w, "finish") /\ seenRow' = [seenRow EXCEPT ![w] = row'[o]]
         ELSE UNCHANGED <<pc, seenRow>>
  /\ UNCHANGED <<fence, op, token, builder, cache, tailed, faults>>

RollbackFacts(o) ==
  /\ tx[o] # Nobody
  /\ tx' = [tx EXCEPT ![o] = Nobody]
  /\ LET w == tx[o]
     IN  IF pc[w] = "commit" /\ op[w] = o
         THEN Fault /\ Goto(w, "undo")
         ELSE UNCHANGED <<faults, pc>>
  /\ UNCHANGED <<fence, row, op, seenRow, token, builder, cache, history>>

\* The connection breaks while COMMIT is under way: the row still reads as
\* before, or cannot be read at all.
CommitInDoubt(w) ==
  /\ pc[w] = "commit" /\ Fault
  /\ Goto(w, "undo") \/ Goto(w, "abandon")
  /\ UNCHANGED <<fence, row, tx, op, seenRow, token, builder, cache, history>>

-----------------------------------------------------------------------------
(* Reopening the fence.                                                    *)

\* FinishUserProfileInvalidation: delete the cached identities, then reopen.
Reopen(w) ==
  /\ OwnsFence(w)
  /\ gen' = gen + 1 /\ lease' = Nobody /\ fenceIntent' = Nobody
  /\ cache' = NoSnapshot

\* The fence was lost, or Redis failed with the deletions done or not.
ReopenFails(w) ==
  /\ FaultUnless(~OwnsFence(w))
  /\ UNCHANGED cache \/ (OwnsFence(w) /\ cache' = NoSnapshot)
  /\ UNCHANGED <<gen, fenceIntent>>

FinishFence(w) ==
  /\ pc[w] = "finish"
  /\ \/ Reopen(w) /\ Goto(w, "advance") /\ UNCHANGED faults
     \/ ReopenFails(w) /\ Goto(w, "abandon") /\ UNCHANGED lease
  /\ UNCHANGED <<row, tx, op, seenRow, token, builder, history>>

\* An operation known to have rolled back: reopen the fence and, if that
\* worked, delete the row; the request is answered with an error.
Undo(w) ==
  /\ pc[w] = "undo"
  /\ \/ Reopen(w) /\ Goto(w, "undoClear") /\ UNCHANGED <<op, seenRow, token, faults>>
     \/ ReopenFails(w) /\ LeaseUnattended(w) /\ Leave(w)
  /\ UNCHANGED <<row, tx, builder, history>>

\* Defect: the row is deleted whatever has become of it.
DeleteRowAnyway(w) == row' = [row EXCEPT ![op[w]] = NoRow]
DeleteRow(w) == row' = IF RowMatches(w) THEN [row EXCEPT ![op[w]] = NoRow] ELSE row

UndoClear(w) ==
  /\ pc[w] = "undoClear" /\ RowFree(w)
  /\ DeleteRow(w) /\ Leave(w)
  /\ UNCHANGED <<fence, tx, builder, cache, history, faults>>

-----------------------------------------------------------------------------
(* The tail.                                                               *)

Advance(w) ==
  /\ pc[w] = "advance" /\ RowFree(w)
  /\ \/ /\ RowMatches(w)
        /\ row' = [row EXCEPT ![op[w]].phase = "fence_finalized", ![op[w]].rev = @ + 1]
        /\ seenRow' = [seenRow EXCEPT ![w] = row'[op[w]]]
        /\ Goto(w, "tail") /\ UNCHANGED <<op, token>>
     \/ ~RowMatches(w) /\ Leave(w) /\ UNCHANGED row
  /\ UNCHANGED <<fence, tx, builder, cache, history, faults>>

\* A recovered operation whose fence is finished claims the row directly.
TailClaim(w) ==
  /\ pc[w] = "tailClaim" /\ RowFree(w)
  /\ \/ RevisionMatches(w) /\ TakeOver(w) /\ Goto(w, "tail") /\ UNCHANGED <<op, token>>
     \/ ~RevisionMatches(w) /\ Leave(w) /\ UNCHANGED <<row, faults>>
  /\ UNCHANGED <<fence, tx, builder, cache, history>>

\* Cache versions, the mark for the forced rebuild, the recrawl message.
Tail(w) ==
  /\ pc[w] = "tail"
  /\ tailed' = tailed \cup {op[w]}
  /\ Goto(w, "clear")
  /\ UNCHANGED <<fence, row, tx, op, seenRow, token, builder, cache, applied, faults>>

Clear(w) ==
  /\ pc[w] = "clear" /\ RowFree(w)
  /\ DeleteRow(w) /\ Leave(w)
  /\ UNCHANGED <<fence, tx, builder, cache, history, faults>>

\* The process dies, or one of the statements of the tail returns an error.
Crash(w) ==
  /\ pc[w] # "idle" /\ Fault
  /\ LeaseUnattended(w) /\ Leave(w)
  /\ UNCHANGED <<gen, fenceIntent, row, tx, builder, cache, history>>

WorkerStep(w) ==
  \/ Begin(w) \/ BeginRefused(w) \/ Claim(w) \/ Abandon(w) \/ MarkFacts(w) \/ WorkFails(w)
  \/ CommitInDoubt(w) \/ FinishFence(w) \/ Undo(w) \/ UndoClear(w) \/ Advance(w)
  \/ TailClaim(w) \/ Tail(w) \/ Clear(w)

-----------------------------------------------------------------------------
(* The lease's TTL and the scan for orphaned fences.                       *)

LeaseExpires ==
  /\ \/ lease = Dead /\ UNCHANGED faults
     \/ LeaseFaults /\ lease \in Workers /\ Fault
  /\ lease' = Nobody
  /\ UNCHANGED <<gen, fenceIntent, row, tx, worker, builder, cache, history>>

\* Defect: fences that still name an operation are left alone.
RecoverOrphanWithoutIntent ==
  /\ Closed /\ lease = Nobody /\ fenceIntent = Nobody
  /\ gen' = gen + 1
  /\ UNCHANGED <<lease, fenceIntent, row, tx, worker, builder, cache, history, faults>>

\* Defect: the fence is reopened, its intent stays.
RecoverOrphanKeepsIntent ==
  /\ Closed /\ lease = Nobody
  /\ gen' = gen + 1
  /\ UNCHANGED <<lease, fenceIntent, row, tx, worker, builder, cache, history, faults>>

\* profileRecoverOrphanScript.
RecoverOrphan ==
  /\ Closed /\ lease = Nobody
  /\ gen' = gen + 1 /\ fenceIntent' = Nobody
  /\ UNCHANGED <<lease, row, tx, worker, builder, cache, history, faults>>

-----------------------------------------------------------------------------
(* BuildAndCacheUserProfile with force.                                    *)

BuilderGoto(b, where) == bpc' = [bpc EXCEPT ![b] = where]
BuilderLeave(b) ==
  /\ BuilderGoto(b, "idle")
  /\ bgen' = [bgen EXCEPT ![b] = 0] /\ bfacts' = [bfacts EXCEPT ![b] = {}]

\* Defect: a closed fence does not stop a builder.
BuildAlways(b) == TRUE
\* readProfileCacheGeneration answers "in progress" under an odd generation.
MayBuild(b) == ~Closed

ReadGeneration(b) ==
  /\ bpc[b] = "idle" /\ MayBuild(b)
  /\ BuilderGoto(b, "identity")
  /\ bgen' = [bgen EXCEPT ![b] = gen]
  /\ UNCHANGED <<fence, row, tx, worker, bfacts, cache, history, faults>>

ReadIdentity(b) ==
  /\ bpc[b] = "identity"
  /\ BuilderGoto(b, "check")
  /\ bfacts' = [bfacts EXCEPT ![b] = Facts]
  /\ UNCHANGED <<fence, row, tx, worker, bgen, cache, history, faults>>

\* The identity is read again after the computation.
CheckIdentity(b) ==
  /\ bpc[b] = "check"
  /\ \/ bfacts[b] = Facts /\ BuilderGoto(b, "publish") /\ UNCHANGED <<bgen, bfacts>>
     \/ bfacts[b] # Facts /\ BuilderLeave(b)
  /\ UNCHANGED <<fence, row, tx, worker, cache, history, faults>>

\* profilePublishScript: only under the generation that was read, still even.
Publish(b) ==
  /\ bpc[b] = "publish"
  /\ cache' = IF gen = bgen[b] THEN [gen |-> gen, facts |-> bfacts[b]] ELSE cache
  /\ BuilderLeave(b)
  /\ UNCHANGED <<fence, row, tx, worker, history, faults>>

BuilderStep(b) == ReadGeneration(b) \/ ReadIdentity(b) \/ CheckIdentity(b) \/ Publish(b)

-----------------------------------------------------------------------------
Next ==
  \/ \E o \in Ops : Request(o) \/ CommitFacts(o) \/ RollbackFacts(o)
  \/ \E w \in Workers : WorkerStep(w) \/ Crash(w) \/ \E o \in Ops : Load(w, o)
  \/ LeaseExpires \/ RecoverOrphan
  \/ \E b \in Builders : BuilderStep(b)

Spec == Init /\ [][Next]_vars

\* The recovery loop tries every pending row each minute, the scan every
\* closed fence every two minutes; the database decides its transactions.
Fairness ==
  /\ \A w \in Workers : WF_vars(WorkerStep(w))
  /\ \A o \in Ops : SF_vars(\E w \in Workers : Load(w, o))
  /\ \A o \in Ops : WF_vars(CommitFacts(o) \/ RollbackFacts(o))
  /\ WF_vars(LeaseExpires) /\ WF_vars(RecoverOrphan)
LiveSpec == Spec /\ Fairness

-----------------------------------------------------------------------------
(* Properties.                                                             *)

\* An open fence carries neither lease nor intent: the begin script's answer
\* "state corrupt", which no retry would ever get past, is never given.
FenceNotCorrupt == ~Closed => lease = Nobody /\ fenceIntent = Nobody

\* However many workers carry the row, and whatever became of the reply to
\* COMMIT, an operation replaces the facts at most once.
FactsOnce == \A o \in Ops : applied[o] <= 1

\* A snapshot that readers can reach (its generation is the fence's) and that
\* lacks an operation's effect is owed an invalidation: the operation's row is
\* still there and still has the fence to finish.
StaleCacheIsOwed ==
  ~Closed /\ cache.gen = gen =>
    \A o \in Facts \ cache.facts : row[o].phase = "facts"

\* A row is gone only if its facts never changed or its tail ran: deleted data
\* are always recrawled, and a request answered with an error changed nothing.
AppliedReachesTail ==
  \A o \in Facts : row[o].phase = "none" => o \in tailed

\* The stage of an operation, as its row's phase tells it.
StageOf(phase) ==
  CASE phase = "new" -> "unasked"
    [] phase = "intent" -> "pending"
    [] phase \in {"facts", "fence_finalized"} -> "replaced"
    [] phase = "none" -> "gone"
Stage == [o \in Ops |-> StageOf(row[o].phase)]

\* Durable maintenance keeps its promise: see Maintenance.
M == INSTANCE Maintenance WITH stage <- Stage
MaintenanceKept == M!Spec

\* A pending operation is completed or settled.
MaintenanceSettles == \A o \in Ops : Present(o) ~> row[o].phase = "none"

\* A closed fence, with or without a living owner, is reopened.
FenceReopens == Closed ~> ~Closed
=============================================================================
