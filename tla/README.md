# CWXU-Algo: verification project

TLA+ models of the parts of CWXU-Algo whose correctness depends on the order of
events: what several crawlers, browsers, maintenance operations, message
handlers, cache builders, backup runs and restarts of `core_data` do to the same
rows, Redis keys, queues and objects.
Each model is checked with TLC on small instances; what holds for every size is
proved with TLAPS where it is within reach.

## 1. The system

Line references are to the files of this repository. `core_data` runs as one or
several processes over one PostgreSQL database, one Redis and one RabbitMQ.

| Component | State | Operations | Why it is hard |
|---|---|---|---|
| Spider import (`biz/service/spider.go`, `consumer.go`, `data/dal/submit_status.go`, `daily_stats.go`) | `platforms`, `submit_logs`, `daily_user_stats`, `contest_logs`, `spider_repair_states`; Redis `spider:gen`, `spider:writelock` | `LoadData`: rating, up to three attempts of fetch and import, contests | several messages for one user and platform run at once; fetches take minutes, a rebind may come in between; the lock fails open and expires |
| Binding and purge maintenance (`service/spider_maintenance.go`, `service/spider.go`) | `ability_maintenance_pending` rows with phase, revision and owner | `SetSpider`, `PurgeUser`, global purge, recovery loop | durable intents resumed by any process; commit replies lost; steps over SQL and Redis that cannot be atomic together |
| Profile fence and builders (`biz/service/user_profile.go`, `user_profile_consumer.go`) | Redis generation, lease, intent, cached snapshots | begin, validate, finish, abandon, heartbeat, orphan scan, forced build | owners die or lose their lease; a slow builder publishes what it read before an invalidation |
| Backup coordinator and runner (`backupcoord`, `backup/runner.go`) | memory and Redis status, Redis lock, day claims, archives in the object store | trigger, cron tick, run, `Status`, stop, start | several processes, statuses overwritten without the mutex, failed writes, restarts in mid-run |
| RabbitMQ connection and consume loop (`common/event`, `common/utils/mqconsume`) | channel, confirms, retry headers | publish with confirm, retry by republish, exhausted messages | at-least-once delivery, crash between republish and ack |
| Spider task queue (`task/spider.go`) | Redis pending and inflight keys, ZSET of due retries | enqueue with dedup, drain | keys outlive or die before the work they stand for |
| LuoGu browser sync (`service/luogu_sync.go`, `biz/service/client_sync_*.go`) | sessions, page receipts, post-process jobs | start, submit page, replay, maintenance | pages repeated or out of order, post-processing racing the last page |
| Edit of a problem and its ability outbox (`biz/service/problem_edit.go`, `problem.go`, `dal/ability_maintenance_recovery.go`) | `ability_maintenance_pending`, `ability_maintenance_targets`, the global profile fence, the relay lease, `user_profile` messages | edit by a row, recovery, rebuilds, relay, confirmation, deferral; approved review, AI analysis | any worker may resume any row; messages late, twice or never; leases lost in mid-step; reviews and analyses write the same facts with no row, and an analysis deletes the row |
| Problem pipeline, ability statistics, contests, community and other handlers | SQL rows, caches | consumers and request handlers | mostly parsing and single statements |
| User service (accounts, blog, tickets, sponsoring, mail) | SQL rows, static files | handlers, callbacks, mail sweeps | callbacks and mail with retries |
| Gateway, agent, operations tool | routes, breaker state; none; releases on disk | proxying; model calls; install, upgrade, restore | third-party design; pure I/O; serialised by a file lock |

Interactions: `SetSpider` bumps `spider:gen` and takes `spider:writelock`
against the crawlers, closes the profile fence against the builders, and ends by
queueing a full crawl. A crawl that changes rows invalidates caches and leads to
a forced profile build. A page uploaded by a browser goes through the same
import, under the same lock and generation. An edit of a problem by a maintenance
row closes the global fence and ends with one message per user in `user_profile`,
which the consume loop hands to the profile builder; an approved review or an AI
analysis replaces the facts at once and sends the messages as best effort. Cron starts crawls, drains due retries and ticks the
backup coordinator every minute.

What makes each correct: aggregates equal the rows they count; data of a
replaced binding do not come back; an accepted maintenance operation happens
exactly once and completely; readers never stay on a snapshot of replaced facts;
one backup at a time, and a status "succeeded" that can be relied on; no message
lost; a browser's checkpoint never passes a submission that is not stored; every
profile that a maintenance row's edit concerns is rebuilt before the row goes.

## 2. Modules

| Module | Models | Proof module | MC module and configurations |
|---|---|---|---|
| `SubmitLedger` | what the stored submissions and their counts promise (abstract) | | |
| `SpiderImport` | crawlers, rebind executor, global purge, write lock, generation; implements `SubmitLedger` | `SpiderImportProofs` | `MCSpiderImport`: `.cfg`, `Faults`, `Live`, `Stale` |
| `Maintenance` | what an accepted operation is promised (abstract) | | |
| `ProfileFence` | durable maintenance of one user, fence, builders; implements `Maintenance` | `ProfileFenceProofs` | `MCProfileFence`: `.cfg`, `Live` |
| `Archives` | what the backups promise (abstract) | | |
| `BackupCoord` | backup coordinators, runs, object store; implements `Archives` | `BackupCoordProofs` | `MCBackupCoord`: `.cfg`, `Live` |
| `Delivery` | what a queue promises (abstract) | | |
| `MqConsume` | publisher, broker, consume loop; implements `Delivery` | `MqConsumeProofs` | `MCMqConsume`: `.cfg` |
| `ClientSync` | sessions, pages and receipts of a browser sync | `ClientSyncProofs` | `MCClientSync`: `.cfg`, `Checkpoint` |
| `ProblemEdits` | what an edit of a problem promises (abstract) | | |
| `AbilityOutbox` | edit of a problem, targets, relay, consumers; implements `ProblemEdits` | `AbilityOutboxProofs` | `MCAbilityOutbox`: `.cfg` |

`SpiderImport` and `ProfileFence` look at the same `SetSpider` from two sides.
The first keeps the whole import and reduces the executor to bump, lock,
deletions, commit and failure; the second keeps the executor, its row and its fence, and reduces
the replaced facts to the set of operations whose effect they contain.
`AbilityOutbox` uses the same fence scripts for the global fence and keeps only
who holds it for which edit; it uses the queue of `MqConsume` as a bag of
messages that may come late, twice or never. `ClientSync` runs the import of
`SpiderImport` for one page, whose rows, checkpoint and receipt are one
transaction (refreshed verdicts are not in it), against the same rebind.

### SpiderImport and SubmitLedger

One user on one platform. The database rows are `binding`, `rating`, `stored`
(primary keys of `submit_logs`) with `verdict`, the daily sums `submitCnt` and
`acCnt`, `contest` and `repair`. A submission is a model value; `Owner` says
whose it is on the OJ and `FinalVerdict` how it will be judged. The external
`Judge` says so once, except that with `Corrects` (the platform is QOJ) a full
score may be read as WA first. `tag`, `bindGen` and `torn` are history variables.

A crawler's `pc` follows `LoadData` and `fetchAndSave`: `LoadRow` (the platforms
row, once), `FetchRating`, then per attempt `ReadGeneration`, `Fetch`,
`AcquireLock` or `LockTimeout`, `CheckGeneration` or `DiscardStale`,
`ReadExisting` (the rows that may have to be rewritten, with their status),
`RefreshVerdict` (one transaction per row, conditional on the status read),
`FilterNew` (a read), `InsertRows` (one transaction), `FinishImport` (repair
marker, then the deferred unlock), `SaveContests` after every attempt.
`ImportFails` and `CrawlerCrash` may strike anywhere. An import is thus several
transactions; only the rows and their counts are one. With `LockFaults` the lock
fails open on a Redis error, as `tryPlatformWriteLock` does, and may expire under
a live holder.

Which verdicts a fetch may rewrite is `Rewrites`: a pending one, and on QOJ a
stored WA that is now AC (`shouldRewriteFetchedStatus`), so that a decided verdict
does change there, upwards only. The rule that replaces a long spelling of a
verdict by its short one (`shouldRewriteFinalStatus`) changes no verdict: the two
spellings are one value here.

A rebind and the purge's fallback delete table by table in one READ COMMITTED
transaction. Each DELETE takes what is committed by then: `RebindDeletesRows` and
`PurgeDeletesRows` record the rows, `RebindDeletesCounts` and
`PurgeDeletesCounts` the sums, in `gone`, and `CommitRebind` or `CommitPurge`
takes both off the tables; until then everybody else sees them, and whoever
writes a row that is deleted waits. An import that commits in between keeps its
rows while its counts go: `torn` says that this has happened. It takes a write
lock that was lost, and the code does nothing against it. At most one deletion is
open, because the second waits for the first one's rows in `submit_logs`; the
purge's TRUNCATE waits likewise. A failed executor's transaction is rolled back
(`RollBack`).

Abstracted: days, languages and problems (one sum stands for all days); AC
aggregates per problem, written in the same transactions as `ac_cnt`; which
submissions an incremental fetch returns (any subset). Left out: LeetCode's
pruning of old duplicates, the client-sync variant of the import (`ClientSync`),
cache invalidation after an import. A generation in Redis is never lost except by the
purge (its seven-day TTL is refreshed by every bump).

`SubmitLedger` is what the readers of `submit_logs` and `daily_user_stats` rely
on. It knows neither crawlers, attempts, locks nor fetched copies: rows are added
with their counts, a pending verdict is decided by what the judge has shown, a
decided one changes only from WA to AC and only where the platform corrects its
verdicts (`Learn`), and nothing goes except with a rebind or a purge (`Empty`).
Whether the write lock can be trusted is a parameter (`Trusted <- LockTrusted`):
if so, rebind and purge leave no row and no count behind, and rows and the repair
marker are never older than the last rebind; if not, what an import commits
meanwhile may survive. The mapping reads the ledger off the tables and the
history variables; contests and the rating, which the code writes outside the
lock, are not part of it. `LedgerKept` is the promise. LeetCode's pruning, not
modelled, does delete single rows.

### ProfileFence and Maintenance

One user. `row` is the operation's row of `ability_maintenance_pending`; a
worker's `seenRow` is the struct it loaded and updates after every conditional
`UPDATE`. `Claim`, `Advance` and `DeleteRow` carry the `WHERE` clauses of the
code. `MarkFacts` is the end of the SQL transaction before `COMMIT`: the row is
locked (`tx`), and `CommitFacts` or `RollbackFacts` is the server's decision,
which the worker learns at once, later by reading the row, or not at all
(`CommitInDoubt`). `Reopen` is `FinishUserProfileInvalidation`: identities
deleted, then the finish script. `Undo` and `Abandon` are the three outcomes of
`settleFailedSpiderMaintenance`. The Redis scripts are atomic, so each is one
action. A builder reads the generation, reads the identity, computes, reads the
identity again and publishes under the generation.

Abstracted: the generation bump, the platform write lock and the single DELETEs
inside the operation (SpiderImport has them), what a tail does (that it ran is recorded in `tailed`),
the contents of profiles (a snapshot is the set of operations it reflects). The
purge of caches before `Finish` is part of `Reopen`.

`Maintenance` is what all this promises to the one who asked: an operation
replaces the facts once or, refused, not at all; its tail is asked for only after
that, and it is forgotten only after its tail. It knows neither workers, leases,
revisions nor generations. `MaintenanceKept` is that promise, with an operation's
stage read off the phase of its row (`Stage`).

### BackupCoord and Archives

Runs are numbered in the order in which they take the lock; the number stands
for the lock token, the archive key and the upload key. `Trigger` is the
function of that name up to `TryLock` and the status in memory, `SaveRunning`
the rest of it under the same mutex (`MutexFree`). `Status()` is two actions,
`LoadStatus` and `StoreStatus`, because the code loads without the mutex. A run
uploads, moves, lists and deletes; `RunFails` covers commands, verification,
the object store and cancellation. `SettleRun` sets the day and the status,
`SaveFinal` and `Unlock` may fail and are only logged. `Start` is
`newCoordinatorDynamic`.

Assumed: the lock does not expire under a live run. It is leased for 30 minutes
and renewed every 10; a failed renewal cancels the run, which leaves it 20
minutes to notice. The day's claim expires when no run or tick stands behind
it. Dumping, compressing, encrypting and verifying are one step that may fail.

`Archives` is what the one who may have to restore is promised: an archive is
published as the newest, one is deleted only while a newer one is there, and a
success is reported, and the day completed, only by the run whose archive is the
only one. It knows neither processes, locks, stages, temporary objects nor
memory. `ArchivesKept` is that promise, with `Archived` (the runs whose archive is
under its key) and `Named` (the run a persisted "succeeded" names) as the mapping.

### MqConsume and Delivery

One queue, one process. `job[s]` is a delivery and the goroutine that has it;
`live` says whether its delivery tag is still valid. `pub` is the publish in
progress under `pubMu`: `Send` is `ensurePubCh` and the frame, then `Confirmed`,
`Rejected`, `Timeout` or `ConfirmClosed`; the first failure drops the channel and
tries again, the second is reported. `frames` and `confirms` are the publish
channel; frames of a dropped channel become `strays`, which the broker takes
later or never. `Connect`, `Deliver`, `Start`, `Drain`, `Drained` are `runOnce`
with its prefetch, semaphore and `wg.Wait`; `HandlerOk`, `HandlerBusy`,
`HandlerFails`, `OnExhausted`, `OnExhaustedFails`, `Ack`, `Requeue`, `Drop` are
the worker goroutine of `runOnce` and `handleFail`. `ConnLost`, `Reconnect` and `Crash` may strike
anywhere: a handler whose channel is gone carries on and its ack is void. The
broker's own steps (`BrokerTakes`, `BrokerRejects`, the delay queue's TTL) are
external.

`Delivery` is the promise: a message whose producer was told "published" leaves
the queue only once it is handled, or given up after `MaxRetry + 1` failures and
the recording of its durable recovery. `Implements` is that promise under the
mapping `present <- Present` (a copy in a queue or in an unacknowledged
delivery), `promised <- Promised` (the producer got a nil error).

Abstracted: headers and bodies (a message is a model value with a retry count),
prefetch and worker limit are one number as in the code, the recovery's content.

### ClientSync

One account on one site. The remote list is `top, top-1, .., 1`, so a page is
its number and the `top` it was read at, and its digest is the same pair.
`Start` is `StartLuoguSync`, `SessionStale`, `Replace` and `Expire` end sessions.
`Upload` is `UploadLuoguSyncPage` up to its decision (`Decision`, with `Changed`
for the two sites' rules); then `ImportStale`, `Replay` (a receipt is there) or
`RefreshVerdicts` and `Commit` (`persistClientSyncPage`: rows, checkpoint and
receipt in one transaction), `Effects` (the invalidation, then the receipt's mark), `Store` or
`Restart`/`RestartExhausted`. `Fails`, `Crashes` and `LockExpires` (under a live
holder a fault) may come between any two. `ReplayEffects` and `CleanReceipts` are
the maintenance. Uploads come in any order, of any page, at any time, and a page
is what the browser read from the list as it is now or as it was at any time
before (`t` in `Upload`).

`RefreshVerdicts` is `RefreshPendingSubmitVerdicts`, which commits before the
page's transaction. `stale` therefore says of what caches lack whether it is
stored rows or rewritten verdicts. `StaleCacheIsOwed` is claimed for the rows: a
page that only rewrites verdicts gets a receipt born with its effects applied, and
a crash before its receipt leaves none, so nothing owes the caches those.

Abstracted or left out: the post-processing jobs, audits, the scheduling of
pending verdicts, the limit of 5,000 receipts, the QOJ upload that promotes an
account, the clean-up of invalid LuoGu bindings. `Start` is one step against a
rebind; a start while a rebind is under way, or one that infers its checkpoint
from stored rows, sets `unfounded`, and `CheckpointHidesNothing` is claimed
for the others (section 5 is about the inferred ones). So does a page older than
the one stored before it in its scan (`OlderThanLast`). LuoGu never stores one,
because the count has changed and the scan starts again; QOJ has no count, and
page 1 read from a longer list followed by a page 2 read earlier, with no next
page, completes a scan that skipped a submission (`luogu_sync.go:508-510`,
`547-550`). The checkpoint then hides it; no comment of the code promises otherwise
for QOJ, so this is listed as a hazard and not as a finding. `CleanReceipts` is
bounded to sessions that are gone: the reported count of one that status calls keep
alive longer than its receipts is not looked at. The cooldown after a finished session does
not appear: the start script deletes it whenever it finds no running session.
While pages only get newer, the rule that restarts a scan when the remote count
changes is not needed for `CheckpointHidesNothing`: on a list that only grows,
pages that shift overlap.

### AbilityOutbox and ProblemEdits

One problem. `row` is its row of `ability_maintenance_pending`, `target` the
rows of `ability_maintenance_targets`, `mine` and `seen` a worker's copies. A
worker is the request's call or a recovery loop: `Load`, `Begin` (the fence),
`Claim`, then by phase `ReplaceFacts`, `RefreshModel` (difficulty only),
`PrepareTargets`, `ListPending` with `Rebuild` and `AdvanceTarget` for each user,
`StageTargets`, `FinishFence`, `Advance`, and the tail `ClearDirty`, `BumpLists`,
`RelayClaim`, `ListReady` with `Renew`, `Publish`, `RecordSent`/`RecordUnsent`
for each user, `CheckConsumed`, `Complete`, `Release`. `WorkFails`,
`MarkDirty`, `Abandon` are `failCommitted`; `FactsFail`, `Undo`, `UndoClear` undo
an edit whose transaction rolled back. Every conditional update carries its
`WHERE` clause (`Matches`, `RevisionMatches`, `TargetMatches`). A consumer builds
and confirms, or defers by `MarkDue`. `wanted`, `derived` and `built` say which
edit a user's facts, aggregates and last forced build show.

Only `ApplyProblemFields` makes a row (`Request`), and in this repository only
tests call it. What users see goes round the row, and is modelled beside it
(`Outside`), at any time and whatever a row is doing:

* `Review`: an approved edit (`ReviewProblemEdit`, `ApplyProblemFieldsForReview`)
  replaces the facts with no row, fence or target.
* `Analyze`, then `DropRow`: `ProcessAnalyze` does the same in a transaction that
  also clears the dirty mark, and in a later statement deletes the row of any
  operation, phase and owner. `DropFails` is the ignored error or a death in between.
* `ClearMark`: whatever else writes the problem's `error_msg`.
* `OtherBuild`, `OtherRefresh`: forced builds and rebuilt aggregates that no target
  waits for, among them the best-effort message per solver that a review or an
  analysis ends with.

Nothing durable owes a rebuild to those whom these writers leave behind. The
history variable `excused` names them: the solvers, after a review or an analysis,
and whoever a deleted row still owed one; a forced build, or the next row that
concerns the user, takes him out again. `stranded` says that the row which would
have cleared the dirty mark was deleted. The properties are about everybody else,
so what they say of these writers is that they take nothing from what an open row
owes the users it has not been robbed of. The targets of a deleted row are dropped
with it in the model, although the code leaves them: its operation has no row any
more, so no update, confirmation or relay matches them. Only a worker in the
middle of that operation can still list them, to rebuild aggregates
(`OtherRefresh`) before its next check of the row fails.

Abstracted: scopes (an edit of one problem; the row of another problem is
another instance, but for the fence they share); a COMMIT whose outcome is
unknown is the fault branch of `ReplaceFacts` (ProfileFence has it in detail);
merging of concurrent forced builds of one user (the consumer of `user_profile`
handles one at a time). One analysis of the problem at a time is a bound. A review
is taken to concern those who solved the problem, as an analysis does, also when
it changes the difficulty: these are the users it sends messages to. Relay passes
that would move only the revision are left out (`WorthLoading`). `Lose` is the
purge of a queue. Counted as faults: a worker that takes the row between another's
`FinishFence` and `Advance`; an error of a rebuild, a user with untagged problems
among them (`WorkFails`); a build that meets a closed fence; a delivered message
still under way after 24 hours.

`ProblemEdits` is what whoever edits a problem, and the users who solved it, may
count on. It has no workers, leases, targets or messages. An edit is asked for
when the last one is settled, its facts are replaced once or it is refused and
leaves nothing, aggregates and profiles are brought up to the facts user by user,
and the edit is settled only when every user who is not excused shows them. A
direct write (`Write`) may come at any time and excuses the solvers; an open edit
may be dropped (`Drop`), which excuses those it still owed. Aggregates and profiles
may be brought up at any time (`Refresh`, `Build`), since other work rebuilds them
as well. The mapping reads the open edit off the row and "replaced" off its phase.
`EditsKept` is the promise.

## 3. Runs

| Run | Instance | Distinct states | Shows |
|---|---|---|---|
| `import_safe` | 2 crawlers, 2 accounts, 2 submissions, QOJ, 1 attempt, 1 rebind, 1 executor crash | 1.7 million | `AggregatesMatchLogs`, `WriterExclusion`, `StaleFetchDiscarded`, `LedgerKept` (refinement) |
| `import_faults` | 2 crawlers, 1 account, 1 submission, 1 attempt, QOJ, faulty lock, a rebind or a purge, table by table | 1.6 million | `LedgerKept` with no help from the lock; `AggregatesMatchLogs`, exact counts unless an import falls into a deletion |
| `import_live` | 1 crawler that starts again and again, 2 attempts, 1 account, 1 submission, 2 executor crashes or lost leases | 369,000 | `RebindSettles` |
| `import_stale_row` | 2 crawlers, 2 accounts | to the violation | `RowsBelongToBinding` fails (section 5) |
| `fence_safe` | 2 operations, 2 workers, 1 builder, 1 fault | 461,000 | `FenceNotCorrupt`, `FactsOnce`, `StaleCacheIsOwed`, `AppliedReachesTail`, `MaintenanceKept` (refinement) |
| `fence_live` | 2 operations, 2 workers, 1 fault | | `MaintenanceSettles`, `FenceReopens` |
| `backup_safe` | 2 processes, 2 runs, 1 fault | 1.5 million | `RunExclusion`, `KeepsOnlyNewest`, `SucceededIsRestorable`, `DayCompletedOnce`, `ArchivesKept` (refinement) |
| `backup_live` | 2 processes, 1 run, 1 fault | 365,000 | `RestartClearsRunning` |
| `mq_consume` | 2 messages, 2 goroutines, limit 1, 1 retry, durable recovery, any 2 faults | 577,000 | `NothingLost`, `WorkersBounded`, `Implements` (refinement), `EverySettled` |
| `client_sync` | 2 sessions, 2 handlers, both sites, list of 2 that grows to 3, pages of any age, 1 restart, 1 rebind, 1 fault | 719,000 | `CheckpointHidesNothing`, `CountersExact`, `StaleCacheIsOwed` |
| `client_sync_checkpoint` | 2 sessions, LuoGu, no fault | to the violation | `ScanComplete` fails (section 5) |
| `ability_outbox` | 2 users of whom 1 solved the problem, 2 workers, 1 consumer, 2 writes (rows, reviews, analyses; a row for the second is hard), 1 fault | 1.7 million | `StaleProfileIsOwed`, `StaleAggregatesArePending`, `DirtyIsOwed`, `DeliveredIsUnderWay`, `EditsKept` (refinement) |

Why the bounds are enough. The rules concern pairs: two writers, a fetch and a
rebind, two carriers of a row, a run and the leftovers of the one before it. Two
crawlers, workers or processes give every pair; one submission of each account
(one accepted, one rejected) distinguishes the bound account's rows from the
other's and counts `ac_cnt` separately. One fault at every possible point is what
retries and recovery are written for; the queue gets two, because a lost confirm
followed by a crash is the case of interest. On QOJ the browser sync's behaviours
have a fault or a restarted scan, not both (`MCBound`). Two messages make one publisher's confirm a danger to
the other's; a page size of one makes every pair of submissions two pages; two
writes of a problem's facts give every pair of row, review and analysis, in either
order, and a first edit's late messages meet the targets of the second. Proved properties do not
rest on the bounds at all. Bounds are `MaxRebind`, `MaxRetry`, `MaxPurge`,
`MaxDeletions`, `MaxAttempts`, `MaxFaults`, `MaxRuns`, `MaxTop`, `MaxRebinds` and
`MaxEdits`, all
guards of actions that start something (the finish that fails after a row was
recovered, `LateFault`, may exceed `MaxFaults` by one: such a row has already cost
a fault); `MaxRetry`, `MaxAttempts` and `MaxRestarts` are limits of the code,
taken small. Symmetry is used for interchangeable crawlers, workers, operations
and processes, in safety runs only.

`fence_live` runs without a builder, so that the system ends when both
operations are settled: it turns deadlock checking off. So do the four runs of
the queue, the browser sync and the outbox, where all messages settled and all
sessions gone are proper ends, and an outbox out of faults may have to stop. Everywhere else it is on.

Fairness. `SpiderImport`: the executor is called by its request or by the
recovery loop every minute and polls for the lock, which is free again and again
because crawlers leave the critical section (weak fairness) and a dead holder's
key has a TTL; hence strong fairness of taking the lock. That a crawl starts is
not assumed. `ProfileFence`: a worker that is running goes on; the recovery loop
loads every pending row again each minute (strong fairness, since the row is
not loadable while a worker is busy with another); PostgreSQL decides every
transaction; leases have a TTL; the orphan scan runs every two minutes. A worker
that takes a row from another that is still going to use it counts as a fault:
otherwise two recovery loops could overtake each other for ever. `BackupCoord`:
a run's goroutine goes on, and an exited process is started again by the
container's restart policy. `MqConsume`: goroutines, broker, timers and the
redialling loops go on, weak fairness of their steps taken together; nothing is
assumed of the order. `AbilityOutbox` and `ClientSync` claim safety only. A
browser need never come back. That a row of the outbox settles cannot be claimed:
`RebuildUserTagACForUser` refuses a user as long as some of his problems have no
tags (`dal/user_tag_ac.go:582-583`, `607-609`), and nothing bounds how long that
is; the row then fails in every round.

## 4. Proofs

All theorems hold for every value of the constants allowed by the modules'
assumptions; those say that sets are finite where they are counted, that special
values differ from ordinary ones, and that bounds are numbers.

* `SpiderImportProofs`. `TypeCorrect`. `AggregatesCorrect` rests on `AggInv`: every
  import transaction changes rows and sums together, and the unique key keeps an
  inserted batch disjoint from the table, so cardinalities add up; what an open
  deletion has taken stays in the table until its commit, and unless an import has
  fallen between its two DELETEs, the sums it took are those of the rows it took
  (`DeletionExact`). With a trusted lock no import can.
  `ExclusionCorrect` and `StaleFetchCorrect` rest on `IInv`: while the lock is
  trusted it names the crawler in the critical section or the deleting
  executor (`LockHeld`); the generation never falls behind the executor's or the
  last committed rebind's (`GenerationReached`); a crawler past its check holds
  a generation no older than the last rebind (`CheckedIsFresh`). The lock is
  what makes the last one stable: a rebind cannot commit between a check and the
  end of that import. `ImplementsLedger` adds that every verdict a crawl or the
  table holds is one that the judge has shown (`Truthful`: a copy may be
  old, not wrong), and that an executor at work has a generation above the last
  rebind's (`RebindAhead`); every action is then a step of `SubmitLedger` or
  leaves its variables alone. `DecidedStays` says of single rows: one goes only
  when a rebind or purge commits, and its verdict changes only from pending or, on
  a platform that corrects verdicts, from WA to AC, although a crawl that saw the
  submission still pending may be the last to import.
* `ProfileFenceProofs`. `TypeCorrect`; `FenceNeverCorrupt`, inductive with the
  types. `FactsAtMostOnce` from `OnceInv`: a row in phase "new" or "intent" has
  not been applied (`RowTellsFacts`), and a worker's copy with the row's current
  revision agrees with the row, an older copy never becomes current again
  (`CopyIsPast`); so of all carriers only one gets past the claim, and the row
  lock keeps an undecided transaction alone. `FactsReachTail` from `TailInv`:
  who may delete a row knows that its facts rolled back or that its tail ran
  (`MayDelete`). `StaleCacheOwed` from `SnapshotInv`: no snapshot and no builder
  is ahead of the fence (`GensArePast`), so a new generation starts without
  readers; whatever is readable, or may still be published under this generation,
  misses only effects whose row stands in "facts" (`OwedToReaders`); and a row
  leaves that phase only after its worker has reopened the fence, when every
  reader of the new generation has seen the effect (`FinishedIsSeen`).
  `ImplementsMaintenance` uses the same invariant to show that every action is a
  step of `Maintenance` or a stutter.
* `BackupCoordProofs`. `TypeCorrect`, and `ExclusionCorrect` from `HoldsLock`: a
  run that is still executing is the one that the lock names. The status in
  memory plays no part in it. `DayCorrect` from `DayInv`: a tick, and then the run
  it started, carries the day's claim, and no other does. `NewestKept` and
  `RestorableCorrect` from `ObjInv`: what the status in memory may be while a run
  works (`MemInv`), that after a cleanup the store holds only the cleaning run's
  archive (`Cleaned`), and that under the status "succeeded" no run works and the
  store holds exactly the archive it names (`Succeeded`), lock or no lock.
  `ImplementsArchives` adds `Newest`: the run at work is the last one that took
  the lock, and no archive is newer; so a cleanup, which spares the run's own
  archive and starts after that archive was moved to its key, only ever deletes
  older ones. `NewerArchiveStays` is its consequence for whoever restores: an
  archive disappears only in a step that leaves a newer one, so from the first
  backup on there is always one.
* `MqConsumeProofs`. `TypeCorrect`. `NoMessageLost`: the channel's queue of
  confirms belongs to the publish in progress, never to an earlier one (a
  dropped channel takes its confirms with it), so an "ack" that is read says
  that the waiting publisher's own message is at the broker; and a delivery is
  acknowledged only when its next copy is, or its handler has succeeded.
  `ImplementsDelivery` adds that a copy's retry count never exceeds the failures
  of its message and that an exhausted delivery has recorded its recovery; every
  action is then a step of `Delivery` or leaves its variables alone.
  `HandlersBounded`: deliveries with a void tag exist only while the loop
  drains, and a loop that is down has none left, so a new one starts with none.
* `ClientSyncProofs`. `TypeCorrect`; `StaleCacheOwed`, inductive with the types.
  `CheckpointSound` from `Founded`, claimed while `unfounded` is false: every copy
  of a session, in Redis, in a handler or in a receipt, that names a first
  submission `f` and expects page `p` has everything of `f` down to page `p`
  stored (`Copies`), unless its generation is an old one; a copy without one
  is at the start of its scan (`Stubs`); a session that has not started owns no
  copies (`Untouched`). Together with the checkpoint it started from, or the
  end of the list, that covers everything below the new checkpoint. That a page
  is not older than the one before it is needed exactly there: what lay between
  the two has moved to an earlier page otherwise.
  `CountersCorrect` from `Counted`: the receipts of a scan that never restarted
  are one per page, without a gap, and only the last is done (`Single`,
  `Chained`); the count in the last one is what the session's pages have inserted
  (`Summed`); and every copy of the session, in Redis or in a handler, however
  old, repeats the receipt of the last page it knows (`Backed`). A page that is
  uploaded again finds its receipt and adds nothing; a copy that is not the last
  expects a page that has a receipt. So a session that is stored as done has the
  last count. No sum over a set is needed: the receipts carry the running sum.
* `AbilityOutboxProofs`. One inductive invariant `IInv`: types, what the copies of
  a worker may differ by from row and targets when their revisions are equal
  (`Copies`), which target states each phase allows (`Stages`, `LastPhase`,
  `NoTargetsYet`, `NoneIsNew`), what a listing, a publication, a rebuild and a
  confirmation in progress know (`Listed`, `Published`, `Rebuilt`, `Confirming`),
  and the debts (`AggregatesDebt`, `ProfileDebt`, `Sent`). A revision is used
  once, so a copy that matches is current. The proof has a lemma for each kind of
  change (`RowMoves`, `PhaseMoves`, `TargetMoves`, `MineMoves`, `ListMoves`,
  `FlightMoves`, `FlightEnds`, `DebtMoves`), and each action cites those it needs.
  The debts are over the users who are not excused: a write round the row adds all
  solvers to the excused, and the deletion of the row all whom it still owed, so
  neither adds to a debt. What reviews, analyses and other builds change, and what
  they leave alone, is one lemma each (`OutsideFrame`, `ExcusedFrame`,
  `AnalysingFrame`, `MarksNext`, `BlankNext`). `ImplementsEdits` adds that the row's
  kind of edit is the edit's (`HardTold`); a step that keeps or advances the phase
  is then `Ask`, `Replace`, a rebuild or nothing, and when a relay deletes the row
  the two debts have nothing left to stand on. `SettledBeforeNext` states that end
  for the one who asks for the next edit: while there is no row, every user who is
  not excused has aggregates and a profile that show the facts as they are.

Only model-checked: liveness (under fairness, out of the prover's reach, as is
`ENABLED`), that is `RebindSettles`, `MaintenanceSettles`, `FenceReopens`,
`RestartClearsRunning` and `EverySettled`. Every invariant and
every refinement that a passing run checks is also a theorem.

## 5. Findings

`RowsBelongToBinding` states what the comment at
`src/app/core_data/internal/biz/service/spider.go:211` promises: full results
fetched under a replaced binding are dropped. `LoadData` reads the platforms row
once, and every attempt reads the generation afterwards (line 215). If a rebind
commits in between, the crawl asks the OJ for the old account's submissions under
the new generation, the check passes, and they are stored under the new binding.
The window spans the rating fetch and, on a retry, the whole previous attempt.
Reading the generation before the row would close it: `StaleFetchDiscarded`,
which holds and is proved, is then exactly the comment's promise.

`ScanComplete` states the comment at
`src/app/core_data/internal/data/model/platform.go:14`: the checkpoint advances
only after a scan that reached the previous checkpoint or the remote end. A LuoGu
account without a checkpoint gets one inferred from the newest stored row
(`luogu_sync.go:330`, `inferLuoguCheckpoint`), which is meant for rows that were
there before browser syncs existed (`luogu_sync_test.go:1924`). A first browser
scan that is abandoned after its newest page leaves such a row too. The next scan
meets it on its first page, is complete by line 545, and the transaction makes the
newest submission the checkpoint; what lay on the pages never uploaded is not
fetched by any later scan. Inferring only from rows older than the binding's first
session, or recording that a scan is under way, would close it:
`CheckpointHidesNothing`, proved, is the comment's promise for every other start.

## 6. Not modelled, and the plan

Not modelled: parsing of OJ sites, request handlers over single statements, the
gateway (derived from go-kratos), the agent, the operations tool, generated API
code, which is about half of the repository's lines. The hazards in
`PROJECT.json` without a property say why.

Next, in this order:

1. `CrawlQueue`: pending and inflight keys, retries in the ZSET; composed with
   the consume loop through `Delivery`.
2. The post-processing jobs of a browser sync, beside `ClientSync`.
3. LeetCode's pruning and the scheduling of verdict retries in `SpiderImport`.
4. User service: ticket callbacks, sponsoring, subscription mail, static sites.

Abstract specifications to add: what a crawl queue promises about the users it
was asked to crawl, and what a browser sync promises about the checkpoint (above
`ClientSync`).
