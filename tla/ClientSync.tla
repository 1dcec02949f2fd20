----------------------------- MODULE ClientSync -----------------------------
(***************************************************************************)
(* The browser sync of one user's account on one site: the Redis session   *)
(* a browser starts (StartLuoguSync), the pages it uploads                 *)
(* (UploadLuoguSyncPage), the SQL transaction that stores a page with its  *)
(* receipt (persistClientSyncPage), and the maintenance that replays the   *)
(* effects of receipts and removes old ones (RunClientSyncMaintenanceOnce; *)
(* its post-processing jobs are not modelled).                             *)
(*                                                                         *)
(* The remote list holds the submissions 1..top, the newest first, so a    *)
(* page is known by its number and by top at the time it was read; its     *)
(* digest is the same pair.  The browser is not trusted to do anything:    *)
(* it uploads any page at any time, as it is now or as it was earlier.  A  *)
(* page is durable in SQL before the session in Redis learns of it, and a  *)
(* handler may fail or die between the two, or lose its two-minute lock to *)
(* another one.                                                            *)
(*                                                                         *)
(* inserted and unfounded are history variables.                           *)
(***************************************************************************)
EXTENDS Integers, FiniteSets

CONSTANTS Session,     \* 1..n: sessions in the order they are started
          Handler,     \* requests that are served at the same time
          Nobody,
          Sites,       \* the sites of this instance, of {"LuoGu", "QOJ"}
          PerPage,     \* records on a full page
          InitialTop,  \* submissions on the site at first
          MaxTop,      \* bound on them
          MaxRestarts, \* luoguSyncMaxRestarts
          MaxRebinds,  \* bound on rebinds
          MaxFaults    \* bound on faults

ASSUME SyncConstants ==
  /\ Session \subseteq Nat \ {0} /\ IsFiniteSet(Session)
  /\ Nobody \notin Handler \cup Session
  /\ Sites \subseteq {"LuoGu", "QOJ"} /\ Sites # {}
  /\ PerPage \in Nat \ {0}
  /\ InitialTop \in Nat /\ MaxTop \in Nat /\ InitialTop <= MaxTop
  /\ MaxRestarts \in Nat /\ MaxRebinds \in Nat /\ MaxFaults \in Nat

VARIABLES
  site,       \* which site the account is on
  top,        \* the site's list is top, top-1, .., 1
  rows, head, \* SQL: submit_logs of the account; client_sync_head_submit_id (0: none)
  gen, rebinding, \* Redis: binding generation; a rebind has bumped it and not committed
  receipts,   \* SQL: [Session -> set of page receipts]
  status, sess, active, lock, \* Redis: sessions, the active key, the session locks
  stale,      \* what cached views of the account lack: stored "rows", rewritten "verdicts"
  work,       \* [Handler -> the request it serves and what it has read]
  inserted,   \* history: [Session -> rows its pages inserted]
  unfounded,  \* history: some session's checkpoint is not the binding's own, or a
              \* page was stored that is older than the page before it in its scan
  faults

sql   == <<rows, head, receipts, inserted>>
redis == <<status, sess, active, lock>>
vars  == <<site, top, gen, rebinding, sql, redis, stale, work, unfounded, faults>>

Pages == 1..(MaxTop + 1)

\* The records of page p when the list had t entries.
PageIds(p, t) == {i \in 1..t : t - p * PerPage < i /\ i <= t - (p - 1) * PerPage}
\* validateLuoguPage, validateQOJPage: a page that exists.
ValidPage(p, t) == p = 1 \/ (p - 1) * PerPage < t
\* Page >= totalLuoguPages, or ~HasNext.
IsLastPage(p, t) == p * PerPage >= t

State == [exp : Pages \cup {MaxTop + 2}, first : 0..MaxTop, count : -1..MaxTop, old : 0..MaxTop,
          ins : Nat, restarts : 0..MaxRestarts, last : {0} \cup Pages, done : BOOLEAN, gen : Nat]
Receipt == [scan : 0..MaxRestarts, page : Pages, count : 0..MaxTop, ins : Nat, new : Nat,
            first : 0..MaxTop, done : BOOLEAN, applied : BOOLEAN]

NoState == [exp |-> 1, first |-> 0, count |-> -1, old |-> 0, ins |-> 0, restarts |-> 0,
            last |-> 0, done |-> FALSE, gen |-> 0]
Idle == [pc |-> "idle"]

\* Handlers that have taken the session's lock and read the session.
Serving(s) == {h \in Handler : work[h] # Idle /\ work[h].s = s}

Fault == faults < MaxFaults /\ faults' = faults + 1

------------------------------------------------------------------------------
Init ==
  /\ site \in Sites
  /\ top = InitialTop
  /\ rows = {} /\ head = 0
  /\ gen = 0 /\ rebinding = FALSE
  /\ receipts = [s \in Session |-> {}]
  /\ status = [s \in Session |-> "new"]
  /\ sess = [s \in Session |-> NoState]
  /\ active = Nobody
  /\ lock = [s \in Session |-> Nobody]
  /\ stale = {}
  /\ work = [h \in Handler |-> Idle]
  /\ inserted = [s \in Session |-> 0]
  /\ unfounded = FALSE
  /\ faults = 0

------------------------------------------------------------------------------
(* Around the sync *)

NewSubmission ==
  /\ top < MaxTop
  /\ top' = top + 1
  /\ UNCHANGED <<site, gen, rebinding, sql, redis, stale, work, unfounded, faults>>

\* SetSpider: the generation is bumped, then one transaction under the write
\* lock deletes the rows and creates the platform anew.
RebindBumps ==
  /\ ~rebinding
  /\ gen < MaxRebinds
  /\ gen' = gen + 1
  /\ rebinding' = TRUE
  /\ Fault
  /\ UNCHANGED <<site, top, sql, redis, stale, work, unfounded>>

RebindCommits ==
  /\ rebinding
  /\ rebinding' = FALSE
  /\ rows' = {}
  /\ head' = 0
  /\ UNCHANGED <<site, top, gen, receipts, inserted, redis, stale, work, unfounded, faults>>

------------------------------------------------------------------------------
(* Sessions *)

\* markLuoguSessionTerminated and luoguTerminateScript.
Terminate(s) ==
  /\ status' = [status EXCEPT ![s] = "gone"]
  /\ active' = IF active = s THEN Nobody ELSE active
  /\ lock' = [lock EXCEPT ![s] = Nobody]
  /\ sess' = [sess EXCEPT ![s] = NoState]

Running(s) == status[s] = "live" /\ ~sess[s].done

\* The newest row the account has, for a LuoGu binding without a checkpoint.
InferredCheckpoint ==
  IF site = "LuoGu" /\ rows # {} THEN CHOOSE i \in rows : \A j \in rows : j <= i ELSE 0

\* StartLuoguSync with a new request id.  A cooldown left by another session
\* is deleted by the script whenever it gets that far.
Start(s) ==
  /\ status[s] = "new"
  /\ \A t \in Session : t < s => status[t] # "new"
  /\ active # Nobody => ~Running(active)
  /\ LET old == IF head # 0 THEN head ELSE InferredCheckpoint IN
     /\ sess' = [sess EXCEPT ![s] = [NoState EXCEPT !.old = old, !.gen = gen]]
     /\ unfounded' = (unfounded \/ rebinding \/ old # head)
  /\ status' = [status EXCEPT ![s] = "live"]
  /\ active' = s
  /\ UNCHANGED <<site, top, gen, rebinding, sql, lock, stale, work, faults>>

\* A request, or the replay of its start, finds that the binding has changed.
SessionStale(s) ==
  /\ status[s] = "live"
  /\ sess[s].gen # gen
  /\ Terminate(s)
  /\ UNCHANGED <<site, top, gen, rebinding, rows, head, receipts, inserted, stale, work, unfounded, faults>>

\* Another browser's start replaces a session that was idle for two minutes.
Replace(s) ==
  /\ active = s
  /\ Running(s)
  /\ \E t \in Session : status[t] = "new"
  /\ Terminate(s)
  /\ UNCHANGED <<site, top, gen, rebinding, rows, head, receipts, inserted, stale, work, unfounded, faults>>

\* Thirty minutes without a request.
Expire(s) ==
  /\ status[s] = "live"
  /\ Serving(s) = {}
  /\ status' = [status EXCEPT ![s] = "gone"]
  /\ active' = IF active = s THEN Nobody ELSE active
  /\ sess' = [sess EXCEPT ![s] = NoState]
  /\ UNCHANGED <<site, top, gen, rebinding, sql, lock, stale, work, unfounded, faults>>

------------------------------------------------------------------------------
(* A page *)

\* remoteChanged or samePageChanged.
Changed(st, p, t) ==
  IF site = "LuoGu" THEN st.count >= 0 /\ st.count # t
  ELSE st.last > 0 /\ p = st.last /\ st.count # t

\* What UploadLuoguSyncPage does with a page of a list of t entries: answer
\* without changing anything, start the scan again, or import it.
Decision(st, p, t) ==
  IF \/ p = st.last /\ st.count = t
     \/ st.done
     \/ p \notin {st.exp, st.last}
  THEN "answer"
  ELSE IF Changed(st, p, t) THEN "restart"
  ELSE IF p # st.exp THEN "answer" ELSE "import"

\* A page that the browser read when the list had t entries, now or earlier,
\* is uploaded: authorization, the session's lock, and the session as it is
\* under the lock.
Upload(h, s, p, t) ==
  LET d == Decision(sess[s], p, t) IN
  /\ work[h] = Idle
  /\ ValidPage(p, t)
  /\ status[s] = "live"
  /\ lock[s] = Nobody
  /\ sess[s].gen = gen
  /\ d # "answer"
  /\ lock' = [lock EXCEPT ![s] = h]
  /\ work' = [work EXCEPT ![h] =
       [pc |-> d, s |-> s, page |-> p, top |-> t, st |-> sess[s], next |-> "store"]]
  /\ UNCHANGED <<site, top, gen, rebinding, sql, status, sess, active, stale, unfounded, faults>>

\* importSubmitLogs under the write lock: the binding has changed.
ImportStale(h) ==
  LET w == work[h] IN
  /\ w.pc = "import"
  /\ w.st.gen # gen
  /\ Terminate(w.s)
  /\ work' = [work EXCEPT ![h] = Idle]
  /\ UNCHANGED <<site, top, gen, rebinding, rows, head, receipts, inserted, stale,
                 unfounded, faults>>

ReceiptsOf(s, scan, page) == {r \in receipts[s] : r.scan = scan /\ r.page = page}

ImportedAgain(st, r) ==
  [st EXCEPT !.first = r.first, !.count = r.count, !.ins = @ + r.ins, !.exp = r.page + 1,
             !.done = r.done, !.last = r.page]

\* What the handler's copy of the session becomes with receipt r.
Imported(st, r) ==
  [st EXCEPT !.first = r.first, !.count = r.count, !.ins = r.ins, !.exp = r.page + 1,
             !.done = r.done, !.last = r.page]

\* A receipt of this page is there: its result is used again, and the scan
\* starts again when the page has changed since.
Replay(h) ==
  LET w == work[h] IN
  /\ w.pc = "import"
  /\ w.st.gen = gen
  /\ \E r \in ReceiptsOf(w.s, w.st.restarts, w.page) :
       work' = [work EXCEPT ![h] = [w EXCEPT
         !.pc = "effects", !.st = Imported(w.st, r),
         !.next = IF r.count = w.top THEN "store" ELSE "restart"]]
  /\ UNCHANGED <<site, top, gen, rebinding, sql, redis, stale, unfounded, faults>>

\* The scan has reached the checkpoint of the last one, or the end of the list.
Completes(w) ==
  \/ w.st.old \in PageIds(w.page, w.top)
  \/ IsLastPage(w.page, w.top)

FirstOfAnyPage(w) == w.top

FirstOf(w) == IF w.st.first = 0 /\ w.page = 1 THEN w.top ELSE w.st.first

\* A page without a receipt gets past the checks under the write lock.
Fresh(w) == w.pc = "import" /\ w.st.gen = gen /\ ReceiptsOf(w.s, w.st.restarts, w.page) = {}

\* RefreshPendingSubmitVerdicts rewrites verdicts of stored rows of the page,
\* in transactions of its own before the page's; who owes the caches of them
\* nobody records.
RefreshVerdicts(h) ==
  LET w == work[h] IN
  /\ Fresh(w)
  /\ PageIds(w.page, w.top) \cap rows # {}
  /\ stale' = stale \cup {"verdicts"}
  /\ UNCHANGED <<site, top, gen, rebinding, sql, redis, work, unfounded, faults>>

\* QOJ has no count to compare: a page may be older than the one before it.
OlderThanLast(w) == w.page > 1 /\ w.top < w.st.count

\* persistClientSyncPage: rows, aggregates, checkpoint, job and receipt in one
\* transaction.  A page without new or pending rows has no effects to apply.
Commit(h) ==
  LET w == work[h]
      new == PageIds(w.page, w.top) \ rows
      r(pending) ==
        [scan |-> w.st.restarts, page |-> w.page, count |-> w.top,
         ins |-> w.st.ins + Cardinality(new), new |-> Cardinality(new),
         first |-> FirstOf(w), done |-> Completes(w), applied |-> new = {} /\ ~pending]
  IN
  /\ Fresh(w)
  /\ rows' = rows \cup new
  /\ head' = IF Completes(w) THEN FirstOf(w) ELSE head
  /\ \E pending \in BOOLEAN :
       /\ receipts' = [receipts EXCEPT ![w.s] = @ \cup {r(pending)}]
       /\ work' = [work EXCEPT ![h] = [w EXCEPT !.pc = "effects", !.st = Imported(w.st, r(pending))]]
  /\ inserted' = [inserted EXCEPT ![w.s] = @ + Cardinality(new)]
  /\ stale' = stale \cup (IF new = {} THEN {} ELSE {"rows"})
  /\ unfounded' = (unfounded \/ OlderThanLast(w))
  /\ UNCHANGED <<site, top, gen, rebinding, redis, faults>>

\* applyClientSyncReceiptEffects: the user's caches are invalidated, then the
\* receipt is marked.
Applied(s, r) ==
  /\ stale' = IF r.applied THEN stale ELSE {}
  /\ receipts' = [receipts EXCEPT ![s] = (@ \ {r}) \cup {[r EXCEPT !.applied = TRUE]}]

Effects(h) ==
  LET w == work[h]
      found == ReceiptsOf(w.s, w.st.restarts, w.page)
  IN
  /\ w.pc = "effects"
  /\ \/ \E r \in found : Applied(w.s, r)
     \/ found = {} /\ UNCHANGED <<stale, receipts>>
  /\ work' = [work EXCEPT ![h] = [w EXCEPT !.pc = w.next]]
  /\ UNCHANGED <<site, top, gen, rebinding, rows, head, inserted, redis, unfounded, faults>>

\* Handlers unlock by token.
Unlocked(h, s) == [lock EXCEPT ![s] = IF @ = h THEN Nobody ELSE @]

\* luoguStoreSessionScript writes every field but the checkpoint and the
\* generation (both are as they were).  A deleted session that it writes has no
\* token and stays unusable.
Stored(s, st) == IF status[s] = "live" THEN [sess EXCEPT ![s] = st] ELSE sess

Store(h) ==
  LET w == work[h] IN
  /\ w.pc = "store"
  /\ sess' = Stored(w.s, w.st)
  /\ active' = IF w.st.done /\ active = w.s THEN Nobody ELSE active
  /\ lock' = Unlocked(h, w.s)
  /\ work' = [work EXCEPT ![h] = Idle]
  /\ UNCHANGED <<site, top, gen, rebinding, sql, status, stale, unfounded, faults>>

MayRestartOneMore(st) == st.restarts <= MaxRestarts

MayRestart(st) == st.restarts < MaxRestarts

\* restartLuoguScan
Restart(h) ==
  LET w == work[h] IN
  /\ w.pc = "restart"
  /\ MayRestart(w.st)
  /\ sess' = Stored(w.s, [w.st EXCEPT !.restarts = @ + 1, !.exp = 1, !.first = 0,
                                      !.count = w.top, !.last = 0, !.done = FALSE])
  /\ lock' = Unlocked(h, w.s)
  /\ work' = [work EXCEPT ![h] = Idle]
  /\ UNCHANGED <<site, top, gen, rebinding, sql, status, active, stale, unfounded, faults>>

RestartExhausted(h) ==
  LET w == work[h] IN
  /\ w.pc = "restart"
  /\ ~MayRestart(w.st)
  /\ Terminate(w.s)
  /\ work' = [work EXCEPT ![h] = Idle]
  /\ UNCHANGED <<site, top, gen, rebinding, rows, head, receipts, inserted, stale,
                 unfounded, faults>>

\* An error of Redis or SQL, the platform's write lock held by a crawler.
Fails(h) ==
  LET w == work[h] IN
  /\ w # Idle
  /\ Fault
  /\ lock' = Unlocked(h, w.s)
  /\ work' = [work EXCEPT ![h] = Idle]
  /\ UNCHANGED <<site, top, gen, rebinding, sql, status, sess, active, stale, unfounded>>

Crashes(h) ==
  /\ work[h] # Idle
  /\ Fault
  /\ work' = [work EXCEPT ![h] = Idle]
  /\ UNCHANGED <<site, top, gen, rebinding, sql, redis, stale, unfounded>>

\* Two minutes: under a living holder that is a fault.
LockExpires(s) ==
  /\ lock[s] # Nobody
  /\ IF lock[s] \in Serving(s) THEN Fault ELSE UNCHANGED faults
  /\ lock' = [lock EXCEPT ![s] = Nobody]
  /\ UNCHANGED <<site, top, gen, rebinding, sql, status, sess, active, stale, work, unfounded>>

------------------------------------------------------------------------------
(* RunClientSyncMaintenanceOnce *)

\* replayClientSyncReceiptEffects
ReplayEffects(s, r) ==
  /\ r \in receipts[s]
  /\ ~r.applied
  /\ Applied(s, r)
  /\ UNCHANGED <<site, top, gen, rebinding, rows, head, inserted, redis, work, unfounded, faults>>

CleanAllReceipts(s) ==
  /\ status[s] = "gone"
  /\ receipts[s] # {}
  /\ Serving(s) = {}
  /\ receipts' = [receipts EXCEPT ![s] = {}]
  /\ UNCHANGED <<site, top, gen, rebinding, rows, head, inserted, redis, stale, work, unfounded, faults>>

\* cleanupClientSyncReceipts, thirty minutes after the page.  Bound: a session
\* does not outlive its receipts, as one kept alive by status calls could.
CleanReceipts(s) ==
  /\ status[s] = "gone"
  /\ \E r \in receipts[s] : r.applied
  /\ Serving(s) = {}
  /\ receipts' = [receipts EXCEPT ![s] = {r \in @ : ~r.applied}]
  /\ UNCHANGED <<site, top, gen, rebinding, rows, head, inserted, redis, stale, work, unfounded, faults>>

------------------------------------------------------------------------------
Browser ==
  \/ \E s \in Session : Start(s) \/ SessionStale(s) \/ Replace(s)
  \/ \E h \in Handler, s \in Session, p \in Pages, t \in InitialTop..top : Upload(h, s, p, t)

Serve(h) ==
  \/ ImportStale(h) \/ Replay(h) \/ RefreshVerdicts(h) \/ Commit(h) \/ Effects(h)
  \/ Store(h) \/ Restart(h) \/ RestartExhausted(h)

Next ==
  \/ NewSubmission \/ RebindBumps \/ RebindCommits
  \/ Browser
  \/ \E h \in Handler : Serve(h) \/ Fails(h) \/ Crashes(h)
  \/ \E s \in Session :
       \/ Expire(s) \/ LockExpires(s)
       \/ (\E r \in receipts[s] : ReplayEffects(s, r))
       \/ CleanReceipts(s)

Spec == Init /\ [][Next]_vars

------------------------------------------------------------------------------
Work == [pc : {"import", "restart", "effects", "store"}, s : Session, page : Pages,
         top : 0..MaxTop, st : State, next : {"store", "restart"}]

\* The state is well-formed: the generation, the restarts of a scan and the
\* page a session expects stay within their bounds, whatever late handler
\* stores them (restartLuoguScan's limit among them).
TypeOK ==
  /\ site \in Sites /\ top \in 0..MaxTop
  /\ rows \subseteq 1..MaxTop /\ head \in 0..MaxTop
  /\ gen \in 0..MaxRebinds /\ rebinding \in BOOLEAN
  /\ receipts \in [Session -> SUBSET Receipt]
  /\ status \in [Session -> {"new", "live", "gone"}]
  /\ sess \in [Session -> State]
  /\ active \in Session \cup {Nobody}
  /\ lock \in [Session -> Handler \cup {Nobody}]
  /\ work \in [Handler -> {Idle} \cup Work]
  /\ inserted \in [Session -> Nat]
  /\ stale \subseteq {"rows", "verdicts"} /\ unfounded \in BOOLEAN /\ faults \in 0..MaxFaults

\* The comment of ClientSyncHeadSubmitID: the checkpoint advances only after a
\* scan that reached the previous one or the end of the list, so everything
\* up to the checkpoint is stored.
ScanComplete == head # 0 => 1..head \subseteq rows

\* The same for the sessions whose start read the checkpoint of a settled
\* binding, neither inferring it from the stored rows nor meeting a rebind, and
\* whose scans stored no page that is older than the page before it: LuoGu's
\* count refuses such a page, QOJ's has_next does not.  Pages in any other
\* order and age, replays, restarted scans, handlers that lost their lock and
\* rebinds between any two steps never let the checkpoint pass a submission
\* that is not stored (UploadLuoguSyncPage, persistClientSyncPage).
CheckpointHidesNothing == ~unfounded => ScanComplete

\* A finished session that never restarted reports exactly the rows its pages
\* inserted, although pages are uploaded twice, committed by a handler that
\* dies before it stores the session, and replayed from their receipts.
CountersExact ==
  \A s \in Session :
    status[s] = "live" /\ sess[s].done /\ (\A r \in receipts[s] : r.scan = 0)
      => sess[s].ins = inserted[s]

\* While a cache lacks rows that are stored, some receipt still owes its
\* effects: no crash between the page's transaction and the invalidation, and
\* no cleanup, forgets it (applyClientSyncReceiptEffects).  Nothing of the kind
\* holds of rewritten verdicts: a page that only rewrites verdicts gets a
\* receipt without effects.
StaleCacheIsOwed == "rows" \in stale => \E s \in Session : \E r \in receipts[s] : ~r.applied
=============================================================================
