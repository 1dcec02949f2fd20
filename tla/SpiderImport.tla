---------------------------- MODULE SpiderImport ----------------------------
(***************************************************************************)
(* Ingestion of one user's submissions on one OJ platform, and the two     *)
(* maintenance operations that replace the data underneath it.             *)
(*                                                                         *)
(* Crawlers are LoadData calls of the spider consumer (several messages    *)
(* for the same user and platform can be in flight at once).  The rebinder *)
(* is the durable maintenance executor of SetSpider; a global purge is the *)
(* site operator's PurgeSubmitsAndRecrawl.  They meet in Redis             *)
(* (spider:gen, spider:writelock) and in SQL (platforms, submit_logs,      *)
(* daily_user_stats, contest_logs, spider_repair_states).                  *)
(*                                                                         *)
(* A rebind and the purge's fallback delete table by table in one READ     *)
(* COMMITTED transaction: gone is what the open one has deleted, which     *)
(* nobody else sees before its commit.  At most one is open, because the   *)
(* second waits for the rows of submit_logs that the first has deleted.    *)
(*                                                                         *)
(* bindGen, tag and torn are history variables: the generation that the    *)
(* last committed rebind bumped to, the generation against which the       *)
(* import of a stored row was validated, and whether an import has         *)
(* committed between a deletion's DELETE of the rows and its DELETE of the *)
(* counts.  The program does not keep them.                                *)
(***************************************************************************)
EXTENDS Integers, FiniteSets

CONSTANTS Crawlers,     \* consumer workers that run LoadData
          Accounts,     \* OJ user names that can be bound
          Submits,      \* submission ids of the platform
          Owner,        \* [Submits -> Accounts]: whose submission it is
          FinalVerdict, \* [Submits -> {"ac", "wa"}]: what the judge decides
          Corrects,     \* the platform is QOJ: a WA may be read as AC later
          HasRating,    \* the platform plugin implements RatingFetcher
          HasContests,  \* the platform plugin implements SubmitContestFetcher
          NoAccount,    \* no binding / no intent / no rating
          Rebinder,     \* the maintenance executor, as a lock holder
          Free, Orphan, \* the write lock is absent / left by a dead process
          LockFaults,   \* TRUE: SetNX may fail open, a held lock may expire
          MaxAttempts,  \* fetchAndSave attempts of one LoadData (1 or 3)
          MaxRebind,    \* bound: SetSpider calls
          MaxRetry,     \* bound: executor crashes and failed settlements
          MaxPurge,     \* bound: global purges
          MaxDeletions  \* bound: both together

Verdicts == {"pending", "ac", "wa"}
NoMark == -1

ASSUME ConstantsAssumption ==
  /\ IsFiniteSet(Submits)
  /\ Owner \in [Submits -> Accounts]
  /\ FinalVerdict \in [Submits -> {"ac", "wa"}]
  /\ Corrects \in BOOLEAN /\ HasRating \in BOOLEAN /\ HasContests \in BOOLEAN
  /\ NoAccount \notin Accounts
  /\ {Rebinder, Free, Orphan} \cap Crawlers = {}
  /\ Rebinder # Free /\ Rebinder # Orphan /\ Free # Orphan
  /\ LockFaults \in BOOLEAN
  /\ MaxAttempts \in Nat \ {0}
  /\ MaxRebind \in Nat /\ MaxRetry \in Nat /\ MaxPurge \in Nat /\ MaxDeletions \in Nat

VARIABLES
  remote,    \* the verdict each submission has on the OJ
  binding,   \* platforms.username
  rating,    \* whose rating platforms.rating holds
  stored,    \* primary keys of submit_logs
  verdict,   \* submit_logs.status of a stored row
  tag,       \* history: generation the stored row's import was checked with
  submitCnt, acCnt,  \* daily_user_stats, summed
  contest,   \* accounts whose rows are in contest_logs
  repair,    \* spider_repair_states: NoMark, or the generation that wrote it
  gen,       \* Redis spider:gen
  lock,      \* Redis spider:writelock
  pc, plat, g, ids, seen, was, neu, tries,  \* per crawler
  ex, exGen, intent,                   \* the maintenance executor
  bindGen,   \* history: generation of the last committed rebind
  rebinds, retries, purge, purges,
  gone,      \* what the open deletion transaction has deleted
  torn       \* history: an import committed halfway through a deletion

rows    == <<stored, verdict, tag, submitCnt, acCnt, torn>>
db      == <<binding, rating, rows, contest, repair>>
crawl   == <<pc, plat, g, ids, seen, was, neu, tries>>
maint   == <<ex, exGen, intent, bindGen, rebinds, retries>>
purging == <<purge, purges, gone>>
vars    == <<remote, db, gen, lock, crawl, maint, purging>>

CrawlPC == {"idle", "rating", "gen", "fetch", "lock", "check", "read", "refresh",
            "insert", "repair", "contest", "contestRetry"}

\* Between taking the write lock and releasing it.
InCritical(c) == pc[c] \in {"check", "read", "refresh", "insert", "repair"}

\* A transaction has deleted rows, and perhaps counts, and is still open.
Deleting == ex \in {"count", "commit"} \/ purge \in {"count", "commit"}
\* Between its DELETE of submit_logs and its DELETE of daily_user_stats.
Halfway == ex = "count" \/ purge = "count"

Nothing == [rows |-> {}, contests |-> {}, total |-> 0, accepted |-> 0, mark |-> NoMark]

\* was[c][s] of a row that crawler c has no verdict to write to.
NotRead == "none"
NoneRead == [s \in Submits |-> NotRead]

TypeOK ==
  /\ remote \in [Submits -> Verdicts]
  /\ binding \in Accounts
  /\ rating \in Accounts \cup {NoAccount}
  /\ stored \in SUBSET Submits
  /\ verdict \in [Submits -> Verdicts]
  /\ tag \in [Submits -> Nat]
  /\ submitCnt \in Nat /\ acCnt \in Nat
  /\ contest \in SUBSET Accounts
  /\ repair \in Nat \cup {NoMark}
  /\ gen \in Nat
  /\ lock \in Crawlers \cup {Rebinder, Free, Orphan}
  /\ pc \in [Crawlers -> CrawlPC]
  /\ plat \in [Crawlers -> Accounts \cup {NoAccount}]
  /\ g \in [Crawlers -> Nat]
  /\ ids \in [Crawlers -> SUBSET Submits]
  /\ seen \in [Crawlers -> [Submits -> Verdicts]]
  /\ was \in [Crawlers -> [Submits -> Verdicts \cup {NotRead}]]
  /\ neu \in [Crawlers -> SUBSET Submits]
  /\ tries \in [Crawlers -> 0..(MaxAttempts - 1)]
  /\ ex \in {"idle", "lock", "delete", "count", "commit"}
  /\ exGen \in Nat /\ bindGen \in Nat
  /\ intent \in Accounts \cup {NoAccount}
  /\ rebinds \in 0..MaxRebind /\ retries \in 0..MaxRetry
  /\ purge \in {"idle", "count", "commit", "caches"} /\ purges \in 0..MaxPurge
  /\ gone \in [rows : SUBSET Submits, contests : SUBSET Accounts, total : Nat,
               accepted : Nat, mark : Nat \cup {NoMark}]
  /\ torn \in BOOLEAN

NoVerdicts == [s \in Submits |-> "pending"]

Init ==
  /\ remote = NoVerdicts
  /\ binding \in Accounts
  /\ rating = NoAccount
  /\ stored = {} /\ verdict = NoVerdicts /\ tag = [s \in Submits |-> 0]
  /\ submitCnt = 0 /\ acCnt = 0
  /\ contest = {} /\ repair = NoMark
  /\ gen = 0 /\ lock = Free
  /\ pc = [c \in Crawlers |-> "idle"]
  /\ plat = [c \in Crawlers |-> NoAccount]
  /\ g = [c \in Crawlers |-> 0]
  /\ ids = [c \in Crawlers |-> {}]
  /\ seen = [c \in Crawlers |-> NoVerdicts]
  /\ was = [c \in Crawlers |-> NoneRead]
  /\ neu = [c \in Crawlers |-> {}]
  /\ tries = [c \in Crawlers |-> 0]
  /\ ex = "idle" /\ exGen = 0 /\ intent = NoAccount /\ bindGen = 0
  /\ rebinds = 0 /\ retries = 0 /\ purge = "idle" /\ purges = 0
  /\ gone = Nothing /\ torn = FALSE

-----------------------------------------------------------------------------
(* The OJ as a fetch reads it.  A verdict becomes final once, except that  *)
(* a full score on QOJ may be read as WA before it is read as AC.          *)

Correctable(s) == Corrects /\ FinalVerdict[s] = "ac"

Judge(s) ==
  /\ \/ /\ remote[s] = "pending"
        /\ \/ remote' = [remote EXCEPT ![s] = FinalVerdict[s]]
           \/ Correctable(s) /\ remote' = [remote EXCEPT ![s] = "wa"]
     \/ /\ Correctable(s) /\ remote[s] = "wa"
        /\ remote' = [remote EXCEPT ![s] = "ac"]
  /\ UNCHANGED <<db, gen, lock, crawl, maint, purging>>

-----------------------------------------------------------------------------
(* A crawl.  Leaving an attempt forgets what it fetched.                   *)

Goto(c, where) == pc' = [pc EXCEPT ![c] = where]

Forget(c) ==
  /\ ids'  = [ids EXCEPT ![c] = {}]
  /\ seen' = [seen EXCEPT ![c] = NoVerdicts]
  /\ was'  = [was EXCEPT ![c] = NoneRead]
  /\ neu'  = [neu EXCEPT ![c] = {}]

\* The unlock script deletes the key only if it still holds this token.
ReleaseLock(c) == lock' = IF lock = c THEN Free ELSE lock

\* LoadData reads the platforms row once; every attempt below uses this copy.
LoadRow(c) ==
  /\ pc[c] = "idle"
  /\ Goto(c, IF HasRating THEN "rating" ELSE "gen")
  /\ plat' = [plat EXCEPT ![c] = binding]
  /\ tries' = [tries EXCEPT ![c] = 0]
  /\ UNCHANGED <<remote, db, gen, lock, g, ids, seen, was, neu, maint, purging>>

\* fetchAndSaveRating: a failed fetch leaves the row alone.
FetchRating(c) ==
  /\ pc[c] = "rating"
  /\ Goto(c, "gen")
  /\ rating' \in {rating, plat[c]}
  /\ UNCHANGED <<remote, binding, rows, contest,
                 repair, gen, lock, plat, g, ids, seen, was, neu, tries, maint, purging>>

ReadGeneration(c) ==
  /\ pc[c] = "gen"
  /\ Goto(c, "fetch")
  /\ g' = [g EXCEPT ![c] = gen]
  /\ UNCHANGED <<remote, db, gen, lock, plat, ids, seen, was, neu, tries, maint, purging>>

\* An incremental fetch returns some of the account's submissions.
Fetch(c) ==
  /\ pc[c] = "fetch"
  /\ Goto(c, "lock")
  /\ \E S \in SUBSET {s \in Submits : Owner[s] = plat[c]} :
       /\ ids' = [ids EXCEPT ![c] = S]
       /\ seen' = [seen EXCEPT ![c] =
                     [s \in Submits |-> IF s \in S THEN remote[s] ELSE "pending"]]
  /\ UNCHANGED <<remote, db, gen, lock, plat, g, was, neu, tries, maint, purging>>

\* Reading the generation or fetching from the OJ fails.
FetchFails(c) ==
  /\ pc[c] \in {"gen", "fetch"}
  /\ Goto(c, "contestRetry")
  /\ UNCHANGED <<remote, db, gen, lock, plat, g, ids, seen, was, neu, tries, maint, purging>>

\* tryPlatformWriteLock: SetNX, or after a minute of polling an error that
\* loadOnePlatform does not retry, or after a Redis error no lock at all.
AcquireLock(c) ==
  /\ pc[c] = "lock"
  /\ Goto(c, "check")
  /\ \/ lock = Free /\ lock' = c
     \/ LockFaults /\ UNCHANGED lock
  /\ UNCHANGED <<remote, db, gen, plat, g, ids, seen, was, neu, tries, maint, purging>>

LockTimeout(c) ==
  /\ pc[c] = "lock" /\ lock # Free
  /\ Goto(c, "contest")
  /\ Forget(c)
  /\ UNCHANGED <<remote, db, gen, lock, plat, g, tries, maint, purging>>

\* Defect: the import forgets to compare generations.
GenerationIgnored(c) == TRUE
GenerationMatches(c) == gen = g[c]

CheckGeneration(c) ==
  /\ pc[c] = "check" /\ GenerationMatches(c)
  /\ Goto(c, IF ids[c] = {} THEN "repair" ELSE "read")
  /\ UNCHANGED <<remote, db, gen, lock, plat, g, ids, seen, was, neu, tries, maint, purging>>

\* SYNC_BINDING_CHANGED: fetchAndSave drops the batch and reports success.
DiscardStale(c) ==
  /\ pc[c] = "check" /\ ~GenerationMatches(c)
  /\ Goto(c, "contest")
  /\ ReleaseLock(c) /\ Forget(c)
  /\ UNCHANGED <<remote, db, gen, plat, g, tries, maint, purging>>

\* Defect: the last fetch wins, even one that saw the row still pending.
RewritesAny(old, new) == old # new
\* Pending rows are decided, and a WA of QOJ becomes AC; both spellings of a
\* verdict that the code converts into each other are one value here.
Rewrites(old, new) ==
  \/ old = "pending" /\ new # "pending"
  \/ Corrects /\ old = "wa" /\ new = "ac"

\* RefreshPendingSubmitVerdicts reads the rows it may have to rewrite.
ReadExisting(c) ==
  /\ pc[c] = "read"
  /\ Goto(c, "refresh")
  /\ was' = [was EXCEPT ![c] =
                [s \in Submits |-> IF s \in ids[c] \cap stored /\ Rewrites(verdict[s], seen[c][s])
                                  THEN verdict[s] ELSE NotRead]]
  /\ UNCHANGED <<remote, db, gen, lock, plat, g, ids, seen, neu, tries, maint, purging>>

\* Defect: the UPDATE has no "AND status = <the status read>".
StillThere(c, s) == s \in stored
StatusAsRead(c, s) == s \in stored /\ verdict[s] = was[c][s]

\* Defect: the day's count follows pending rows only, not a corrected WA.
AcceptedFromPending(c, s) == was[c][s] = "pending" /\ seen[c][s] = "ac"
BecomesAccepted(c, s) == was[c][s] # "ac" /\ seen[c][s] = "ac"

\* refreshExistingVerdicts: one transaction per row read, conditional on the
\* status read; a row that becomes accepted adds one to the day's ac_cnt.  A
\* row that an open transaction has deleted makes the UPDATE wait for it.
RefreshVerdict(c) ==
  /\ pc[c] = "refresh"
  /\ \E s \in Submits \ gone.rows :
       /\ was[c][s] # NotRead
       /\ was' = [was EXCEPT ![c][s] = NotRead]
       /\ IF StatusAsRead(c, s)
          THEN /\ verdict' = [verdict EXCEPT ![s] = seen[c][s]]
               /\ acCnt' = IF BecomesAccepted(c, s) THEN acCnt + 1 ELSE acCnt
          ELSE UNCHANGED <<verdict, acCnt>>
  /\ UNCHANGED <<remote, binding, rating, stored, tag, submitCnt, torn, contest, repair,
                 gen, lock, pc, plat, g, ids, seen, neu, tries, maint, purging>>

FilterNew(c) ==
  /\ pc[c] = "refresh" /\ was[c] = NoneRead
  /\ Goto(c, "insert")
  /\ neu' = [neu EXCEPT ![c] = ids[c] \ stored]
  /\ UNCHANGED <<remote, db, gen, lock, plat, g, ids, seen, was, tries, maint, purging>>

\* Defect: INSERT ... ON CONFLICT DO NOTHING, the deltas still applied.
DuplicateIgnored(c) == TRUE
\* The unique key of submit_logs: inserting a present row aborts the insert.
NoDuplicate(c) == neu[c] \cap stored = {}

\* One transaction: the rows, the day's deltas and the AC aggregates.  The key
\* of a row that an open transaction has deleted makes the INSERT wait for it.
InsertRows(c) ==
  /\ pc[c] = "insert" /\ NoDuplicate(c)
  /\ Goto(c, "repair")
  /\ stored' = stored \cup neu[c]
  /\ verdict' = [s \in Submits |-> IF s \in neu[c] THEN seen[c][s] ELSE verdict[s]]
  /\ tag' = [s \in Submits |-> IF s \in neu[c] THEN g[c] ELSE tag[s]]
  /\ submitCnt' = submitCnt + Cardinality(neu[c])
  /\ acCnt' = acCnt + Cardinality({s \in neu[c] : seen[c][s] = "ac"})
  /\ torn' = (torn \/ (Halfway /\ neu[c] # {}))
  /\ UNCHANGED <<remote, binding, rating, contest, repair, gen, lock,
                 plat, g, ids, seen, was, neu, tries, maint, purging>>

\* finishRepair writes the marker after a complete full fetch, still under
\* the lock; then the deferred unlock runs.  Its upsert waits for an open
\* transaction that has deleted the marker.
FinishImport(c) ==
  /\ pc[c] = "repair"
  /\ Goto(c, "contest")
  /\ \/ UNCHANGED repair
     \/ gone.mark = NoMark /\ repair' = g[c]
  /\ ReleaseLock(c) /\ Forget(c)
  /\ UNCHANGED <<remote, binding, rating, rows,
                 contest, gen, plat, g, tries, maint, purging>>

\* A Redis or SQL error, the unique-key violation included; nothing of the
\* failing transaction is kept.
ImportFails(c) ==
  /\ InCritical(c)
  /\ Goto(c, "contestRetry")
  /\ ReleaseLock(c) /\ Forget(c)
  /\ UNCHANGED <<remote, db, gen, plat, g, tries, maint, purging>>

\* Defect: one attempt too many.
RetryAllowedOnceMore(c) == pc[c] = "contestRetry" /\ tries[c] < MaxAttempts
RetryAllowed(c) == pc[c] = "contestRetry" /\ tries[c] + 1 < MaxAttempts

\* fetchAndSaveContest runs after every attempt, whatever its outcome, with
\* the row read by LoadData; then the attempt ends or the next one starts.
SaveContests(c) ==
  /\ pc[c] \in {"contest", "contestRetry"}
  /\ \/ UNCHANGED <<contest, gone>>
     \/ /\ HasContests
        /\ contest' = contest \cup {plat[c]}
        /\ gone' = [gone EXCEPT !.contests = @ \ {plat[c]}]
  /\ IF RetryAllowed(c)
     THEN /\ Goto(c, "gen")
          /\ tries' = [tries EXCEPT ![c] = @ + 1]
          /\ UNCHANGED <<plat, g>>
     ELSE /\ Goto(c, "idle")
          /\ tries' = [tries EXCEPT ![c] = 0]
          /\ plat' = [plat EXCEPT ![c] = NoAccount]
          /\ g' = [g EXCEPT ![c] = 0]
  /\ Forget(c)
  /\ UNCHANGED <<remote, binding, rating, rows, repair, gen, lock, maint, purge, purges>>

\* The worker's process dies; a lock it holds stays until its TTL.
CrawlerCrash(c) ==
  /\ pc[c] # "idle"
  /\ Goto(c, "idle")
  /\ lock' = IF lock = c THEN Orphan ELSE lock
  /\ plat' = [plat EXCEPT ![c] = NoAccount]
  /\ g' = [g EXCEPT ![c] = 0]
  /\ tries' = [tries EXCEPT ![c] = 0]
  /\ Forget(c)
  /\ UNCHANGED <<remote, db, gen, maint, purging>>

CrawlerStep(c) ==
  \/ LoadRow(c) \/ FetchRating(c) \/ ReadGeneration(c) \/ Fetch(c) \/ FetchFails(c)
  \/ AcquireLock(c) \/ LockTimeout(c) \/ CheckGeneration(c) \/ DiscardStale(c)
  \/ ReadExisting(c) \/ RefreshVerdict(c) \/ FilterNew(c) \/ InsertRows(c) \/ FinishImport(c)
  \/ ImportFails(c) \/ SaveContests(c) \/ CrawlerCrash(c)

-----------------------------------------------------------------------------
(* The write lock's TTL.                                                   *)

\* Defect: the key is set without a TTL.
LockWithoutTTL ==
  /\ LockFaults /\ lock # Free
  /\ lock' = Free
  /\ UNCHANGED <<remote, db, gen, crawl, maint, purging>>

LockExpires ==
  /\ \/ lock = Orphan
     \/ LockFaults /\ lock # Free
  /\ lock' = Free
  /\ UNCHANGED <<remote, db, gen, crawl, maint, purging>>

-----------------------------------------------------------------------------
(* SetSpider: a durable intent, then bump, lock, and one transaction that  *)
(* deletes the old account's data and creates the new row.                 *)

RequestRebind(a) ==
  /\ intent = NoAccount /\ rebinds < MaxRebind /\ rebinds + purges < MaxDeletions
  /\ intent' = a
  /\ rebinds' = rebinds + 1
  /\ UNCHANGED <<remote, db, gen, lock, crawl, ex, exGen, bindGen, retries, purging>>

\* Also the first step of every recovery of an intent whose phase is "intent".
BumpGeneration ==
  /\ ex = "idle" /\ intent # NoAccount
  /\ ex' = "lock"
  /\ gen' = gen + 1 /\ exGen' = gen + 1
  /\ UNCHANGED <<remote, db, lock, crawl, intent, bindGen, rebinds, retries, purging>>

\* Defect: the binding is replaced without the platform write lock.
RebindUnlocked ==
  /\ ex = "lock" /\ ex' = "delete"
  /\ UNCHANGED <<remote, db, gen, lock, crawl, exGen, intent, bindGen, rebinds, retries, purging>>

RebindLock ==
  /\ ex = "lock" /\ lock = Free
  /\ ex' = "delete" /\ lock' = Rebinder
  /\ UNCHANGED <<remote, db, gen, crawl, exGen, intent, bindGen, rebinds, retries, purging>>

\* The deletions of one transaction, each of what is committed by then, and
\* what is left of the tables when it commits.  Only the rebind deletes the marker.
DeleteRows == gone' = [gone EXCEPT !.rows = stored, !.contests = contest]
DeleteCounts(mark) ==
  gone' = [gone EXCEPT !.total = submitCnt, !.accepted = acCnt, !.mark = mark]
CommitDeletion ==
  /\ stored' = stored \ gone.rows
  /\ verdict' = [s \in Submits |-> IF s \in gone.rows THEN "pending" ELSE verdict[s]]
  /\ tag' = [s \in Submits |-> IF s \in gone.rows THEN 0 ELSE tag[s]]
  /\ submitCnt' = submitCnt - gone.total
  /\ acCnt' = acCnt - gone.accepted
  /\ contest' = contest \ gone.contests
  /\ gone' = Nothing
  /\ UNCHANGED torn

RebindDeletesRows ==
  /\ ex = "delete" /\ ~Deleting
  /\ ex' = "count" /\ DeleteRows
  /\ UNCHANGED <<remote, db, gen, lock, crawl, exGen, intent, bindGen, rebinds, retries,
                 purge, purges>>

RebindDeletesCounts ==
  /\ ex = "count"
  /\ ex' = "commit" /\ DeleteCounts(repair)
  /\ UNCHANGED <<remote, db, gen, lock, crawl, exGen, intent, bindGen, rebinds, retries,
                 purge, purges>>

CommitRebind ==
  /\ ex = "commit"
  /\ ex' = "idle" /\ lock' = IF lock = Rebinder THEN Free ELSE lock
  /\ CommitDeletion
  /\ repair' = IF gone.mark = NoMark THEN repair ELSE NoMark
  /\ binding' = intent /\ intent' = NoAccount
  /\ rating' = NoAccount
  /\ bindGen' = exGen
  /\ UNCHANGED <<remote, gen, crawl, exGen, rebinds, retries, purge, purges>>

\* The transaction of an executor that stops is rolled back.
RollBack == gone' = IF ex \in {"count", "commit"} THEN Nothing ELSE gone

\* The executor returns an error before its transaction commits: it settles
\* the intent, or loses its lease and leaves the intent to recovery.
RebindFails ==
  /\ ex # "idle"
  /\ ex' = "idle" /\ lock' = IF lock = Rebinder THEN Free ELSE lock
  /\ \/ intent' = NoAccount /\ UNCHANGED retries
     \/ retries < MaxRetry /\ retries' = retries + 1 /\ UNCHANGED intent
  /\ RollBack
  /\ UNCHANGED <<remote, db, gen, crawl, exGen, bindGen, rebinds, purge, purges>>

RebinderCrash ==
  /\ ex # "idle" /\ retries < MaxRetry
  /\ ex' = "idle" /\ retries' = retries + 1
  /\ lock' = IF lock = Rebinder THEN Orphan ELSE lock
  /\ RollBack
  /\ UNCHANGED <<remote, db, gen, crawl, exGen, intent, bindGen, rebinds, purge, purges>>

-----------------------------------------------------------------------------
(* PurgeSubmitsAndRecrawl: truncate, or if that fails delete in batches    *)
(* until none is left, table by table; then delete Redis keys.             *)

PurgeAllowed == purge = "idle" /\ purges < MaxPurge /\ rebinds + purges < MaxDeletions

\* TRUNCATE takes the tables for itself: it waits for an open deletion.
PurgeTruncates ==
  /\ PurgeAllowed /\ ~Deleting
  /\ purge' = "caches" /\ purges' = purges + 1
  /\ stored' = {} /\ verdict' = NoVerdicts /\ tag' = [s \in Submits |-> 0]
  /\ submitCnt' = 0 /\ acCnt' = 0 /\ torn' = FALSE
  /\ contest' = {}
  /\ UNCHANGED <<remote, binding, rating, repair, gen, lock, crawl, maint, gone>>

PurgeDeletesRows ==
  /\ PurgeAllowed /\ ~Deleting
  /\ purge' = "count" /\ purges' = purges + 1
  /\ DeleteRows
  /\ UNCHANGED <<remote, db, gen, lock, crawl, maint>>

PurgeDeletesCounts ==
  /\ purge = "count"
  /\ purge' = "commit" /\ DeleteCounts(NoMark)
  /\ UNCHANGED <<remote, db, gen, lock, crawl, maint, purges>>

CommitPurge ==
  /\ purge = "commit"
  /\ purge' = "caches" /\ CommitDeletion
  /\ UNCHANGED <<remote, binding, rating, repair, gen, lock, crawl, maint, purges>>

PurgeFails ==
  /\ purge \in {"count", "commit"}
  /\ purge' = "idle" /\ gone' = Nothing
  /\ UNCHANGED <<remote, db, gen, lock, crawl, maint, purges>>

\* purgeTrainingCaches deletes spider:writelock and spider:gen outright.
PurgeCaches ==
  /\ purge = "caches"
  /\ purge' = "idle"
  /\ gen' = 0 /\ lock' = Free
  /\ UNCHANGED <<remote, db, crawl, maint, purges, gone>>

-----------------------------------------------------------------------------
RebinderStep ==
  BumpGeneration \/ RebindLock \/ RebindDeletesRows \/ RebindDeletesCounts \/ CommitRebind

PurgeStep ==
  PurgeTruncates \/ PurgeDeletesRows \/ PurgeDeletesCounts \/ CommitPurge \/ PurgeFails \/ PurgeCaches

Next ==
  \/ \E s \in Submits : Judge(s)
  \/ \E c \in Crawlers : CrawlerStep(c)
  \/ LockExpires
  \/ \E a \in Accounts : RequestRebind(a)
  \/ RebinderStep \/ RebindFails \/ RebinderCrash
  \/ PurgeStep

Spec == Init /\ [][Next]_vars

\* The executor polls for the lock every 100 ms and a recovery loop reruns a
\* pending intent every minute; a dead holder's key reaches its TTL.  Crawlers
\* leave the critical section; whether another crawl starts is not assumed.
Fairness ==
  /\ WF_vars(BumpGeneration) /\ SF_vars(RebindLock)
  /\ WF_vars(RebindDeletesRows) /\ WF_vars(RebindDeletesCounts) /\ WF_vars(CommitRebind)
  /\ WF_vars(LockExpires)
  /\ \A c \in Crawlers :
       WF_vars(CheckGeneration(c) \/ DiscardStale(c) \/ ReadExisting(c) \/ RefreshVerdict(c)
               \/ FilterNew(c) \/ InsertRows(c) \/ FinishImport(c) \/ ImportFails(c))
LiveSpec == Spec /\ Fairness

-----------------------------------------------------------------------------
(* Properties.                                                             *)

\* No Redis fault on the lock and no purge that deletes its key.
LockTrusted == ~LockFaults /\ MaxPurge = 0

\* daily_user_stats is exactly the count of submit_logs: always while the lock
\* can be trusted; and with lost locks, crashes and concurrent imports of the
\* same batch, as long as no import committed halfway through a deletion.
AggregatesMatchLogs ==
  LockTrusted \/ ~torn =>
    /\ submitCnt = Cardinality(stored)
    /\ acCnt = Cardinality({s \in stored : verdict[s] = "ac"})

\* At most one writer is between taking the write lock and releasing it.
WriterExclusion ==
  LockTrusted =>
    /\ \A c, d \in Crawlers : InCritical(c) /\ InCritical(d) => c = d
    /\ ex \in {"delete", "count", "commit"} => \A c \in Crawlers : ~InCritical(c)

\* A fetch that read its generation before the last committed rebind bumped
\* it leaves neither a row nor a repair marker behind that rebind.
StaleFetchDiscarded ==
  LockTrusted =>
    /\ \A s \in stored : tag[s] >= bindGen
    /\ repair # NoMark => repair >= bindGen

\* What the readers of submit_logs and daily_user_stats rely on: see the module
\* SubmitLedger.  Contests and the rating are not part of it: they are written
\* without the lock and the generation.
L == INSTANCE SubmitLedger WITH
       Trusted <- LockTrusted, account <- binding, rows <- stored,
       outcome <- verdict, born <- tag, total <- submitCnt, accepted <- acCnt,
       mark <- repair, era <- bindGen
LedgerKept == L!Spec

\* What the comments of fetchAndSave promise of a rebind: full results of the
\* previous account are dropped, so every stored row is the bound account's.
RowsBelongToBinding == \A s \in stored : Owner[s] = binding

\* A durable rebind intent is eventually committed or settled, although
\* crawlers compete for the lock and the executor may crash.
RebindSettles == (intent # NoAccount) ~> (intent = NoAccount)
=============================================================================
