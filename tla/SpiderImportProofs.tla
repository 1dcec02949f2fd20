------------------------- MODULE SpiderImportProofs -------------------------
(***************************************************************************)
(* Proofs about SpiderImport: type correctness, the consistency of the     *)
(* aggregates with the stored rows, and, when the write lock can be        *)
(* trusted, writer exclusion and the discarding of fetches that started    *)
(* before a rebind; then that the ingestion implements SubmitLedger, and   *)
(* what a step may do to a stored row.                                     *)
(***************************************************************************)
EXTENDS SpiderImport, FiniteSetTheorems, TLAPS

\* A crawler that has started carries the account it read.
HasPlat == \A c \in Crawlers : pc[c] # "idle" => plat[c] \in Accounts

\* A running executor works on an intent.
HasIntent == ex # "idle" => intent \in Accounts

BaseInv == TypeOK /\ HasPlat /\ HasIntent

\* An open deletion takes no more than there is, and none is remembered after.
GoneBounded ==
  /\ gone.total <= submitCnt /\ gone.accepted <= acCnt
  /\ ~Deleting => gone = Nothing

TypeInv == BaseInv /\ GoneBounded

-----------------------------------------------------------------------------
(* Cardinalities.                                                          *)

LEMMA DisjointUnion ==
  ASSUME NEW S, NEW T, IsFiniteSet(S), IsFiniteSet(T), S \cap T = {}
  PROVE  Cardinality(S \cup T) = Cardinality(S) + Cardinality(T)
<1>1. Cardinality(S \cup T) = Cardinality(S) + Cardinality(T) - Cardinality(S \cap T)
  BY FS_Union
<1>2. Cardinality(S \cap T) = 0
  BY FS_EmptySet
<1>3. Cardinality(S) \in Nat /\ Cardinality(T) \in Nat
  BY FS_CardinalityType
<1> QED BY <1>1, <1>2, <1>3

LEMMA SubmitsFinite ==
  ASSUME NEW S \in SUBSET Submits
  PROVE  IsFiniteSet(S) /\ Cardinality(S) \in Nat
BY FS_Subset, FS_CardinalityType, ConstantsAssumption

-----------------------------------------------------------------------------
(* Type correctness.                                                       *)

LEMMA TypeInit == Init => TypeInv
<1> SUFFICES ASSUME Init PROVE TypeInv
  OBVIOUS
<1>1. /\ gone \in [rows : SUBSET Submits, contests : SUBSET Accounts, total : Nat,
                   accepted : Nat, mark : Nat \cup {NoMark}]
      /\ was \in [Crawlers -> [Submits -> Verdicts \cup {NotRead}]]
  BY DEF Init, Nothing, NoneRead
<1>2. /\ seen \in [Crawlers -> [Submits -> Verdicts]] /\ remote \in [Submits -> Verdicts]
      /\ verdict \in [Submits -> Verdicts] /\ tag \in [Submits -> Nat]
      /\ tries \in [Crawlers -> 0..(MaxAttempts - 1)] /\ g \in [Crawlers -> Nat]
  BY ConstantsAssumption DEF Init, NoVerdicts, Verdicts
<1>6. /\ torn \in BOOLEAN
      /\ stored \in SUBSET Submits /\ contest \in SUBSET Accounts
      /\ pc \in [Crawlers -> CrawlPC] /\ plat \in [Crawlers -> Accounts \cup {NoAccount}]
      /\ ids \in [Crawlers -> SUBSET Submits] /\ neu \in [Crawlers -> SUBSET Submits]
  BY DEF Init, CrawlPC
<1>4. TypeOK
  BY <1>1, <1>2, <1>6, ConstantsAssumption DEF Init, TypeOK, NoMark, CrawlPC
<1>5. BaseInv
  BY <1>4 DEF Init, BaseInv, HasPlat, HasIntent
<1>3. GoneBounded
  BY DEF Init, GoneBounded, Nothing
<1> QED BY <1>5, <1>3 DEF TypeInv

LEMMA CrawlerStepType ==
  ASSUME TypeInv, NEW c \in Crawlers, CrawlerStep(c)
  PROVE  BaseInv'
<1> USE ConstantsAssumption
<1>n. /\ NoVerdicts \in [Submits -> Verdicts]
      /\ NoneRead \in [Submits -> Verdicts \cup {NotRead}]
  BY DEF NoVerdicts, NoneRead, Verdicts
<1>1. CASE LoadRow(c)
  BY <1>1 DEF TypeInv, BaseInv, TypeOK, HasPlat, HasIntent, LoadRow, Goto, CrawlPC, db, rows, maint, purging
<1>2. CASE FetchRating(c)
  BY <1>2 DEF TypeInv, BaseInv, TypeOK, HasPlat, HasIntent, FetchRating, Goto, CrawlPC, rows, maint, purging
<1>3. CASE ReadGeneration(c)
  BY <1>3 DEF TypeInv, BaseInv, TypeOK, HasPlat, HasIntent, ReadGeneration, Goto, CrawlPC, db, rows, maint, purging
<1>4. CASE Fetch(c)
  <2>1. PICK S \in SUBSET {s \in Submits : Owner[s] = plat[c]} :
          /\ ids' = [ids EXCEPT ![c] = S]
          /\ seen' = [seen EXCEPT ![c] =
                       [s \in Submits |-> IF s \in S THEN remote[s] ELSE "pending"]]
    BY <1>4 DEF Fetch
  <2>2. [s \in Submits |-> IF s \in S THEN remote[s] ELSE "pending"] \in [Submits -> Verdicts]
    BY DEF TypeInv, BaseInv, TypeOK, Verdicts
  <2>3. ids' \in [Crawlers -> SUBSET Submits] /\ seen' \in [Crawlers -> [Submits -> Verdicts]]
    BY <2>1, <2>2 DEF TypeInv, BaseInv, TypeOK
  <2> QED
    BY <1>4, <2>3 DEF TypeInv, BaseInv, TypeOK, HasPlat, HasIntent, Fetch, Goto, CrawlPC, db, rows, maint, purging
<1>5. CASE FetchFails(c)
  BY <1>5 DEF TypeInv, BaseInv, TypeOK, HasPlat, HasIntent, FetchFails, Goto, CrawlPC, db, rows, maint, purging
<1>6. CASE AcquireLock(c)
  BY <1>6 DEF TypeInv, BaseInv, TypeOK, HasPlat, HasIntent, AcquireLock, Goto, CrawlPC, db, rows, maint, purging
<1>7. CASE LockTimeout(c)
  BY <1>7, <1>n DEF TypeInv, BaseInv, TypeOK, HasPlat, HasIntent, LockTimeout, Goto, Forget, CrawlPC, db, rows, maint, purging
<1>8. CASE CheckGeneration(c)
  BY <1>8 DEF TypeInv, BaseInv, TypeOK, HasPlat, HasIntent, CheckGeneration, Goto, CrawlPC, db, rows, maint, purging
<1>9. CASE DiscardStale(c)
  BY <1>9, <1>n DEF TypeInv, BaseInv, TypeOK, HasPlat, HasIntent, DiscardStale, Goto, Forget, ReleaseLock, CrawlPC,
     db, rows, maint, purging
<1>10. CASE RefreshVerdict(c)
  <2>1. PICK s \in Submits \ gone.rows :
          /\ was' = [was EXCEPT ![c][s] = NotRead]
          /\ IF StatusAsRead(c, s)
             THEN /\ verdict' = [verdict EXCEPT ![s] = seen[c][s]]
                  /\ acCnt' = IF BecomesAccepted(c, s) THEN acCnt + 1 ELSE acCnt
             ELSE UNCHANGED <<verdict, acCnt>>
    BY <1>10 DEF RefreshVerdict
  <2>2. seen[c][s] \in Verdicts
    BY DEF TypeInv, BaseInv, TypeOK
  <2>3. verdict' \in [Submits -> Verdicts] /\ acCnt' \in Nat
    BY <2>1, <2>2 DEF TypeInv, BaseInv, TypeOK
  <2>4. was' \in [Crawlers -> [Submits -> Verdicts \cup {NotRead}]]
    BY <2>1 DEF TypeInv, BaseInv, TypeOK
  <2> QED
    BY <1>10, <2>3, <2>4 DEF TypeInv, BaseInv, TypeOK, HasPlat, HasIntent, RefreshVerdict, maint, purging
<1>17. CASE ReadExisting(c)
  <2>1. [s \in Submits |-> IF s \in ids[c] \cap stored /\ Rewrites(verdict[s], seen[c][s])
                           THEN verdict[s] ELSE NotRead] \in [Submits -> Verdicts \cup {NotRead}]
    BY DEF TypeInv, BaseInv, TypeOK
  <2>2. was' \in [Crawlers -> [Submits -> Verdicts \cup {NotRead}]]
    BY <1>17, <2>1 DEF ReadExisting, TypeInv, BaseInv, TypeOK
  <2> QED
    BY <1>17, <2>2 DEF TypeInv, BaseInv, TypeOK, HasPlat, HasIntent, ReadExisting, Goto, CrawlPC, db, rows, maint, purging
<1>11. CASE FilterNew(c)
  BY <1>11 DEF TypeInv, BaseInv, TypeOK, HasPlat, HasIntent, FilterNew, Goto, CrawlPC, db, rows, maint, purging
<1>12. CASE InsertRows(c)
  <2>1. neu[c] \in SUBSET Submits /\ seen[c] \in [Submits -> Verdicts] /\ g[c] \in Nat
    BY DEF TypeInv, BaseInv, TypeOK
  <2>2. Cardinality(neu[c]) \in Nat /\ Cardinality({s \in neu[c] : seen[c][s] = "ac"}) \in Nat
    <3>1. {s \in neu[c] : seen[c][s] = "ac"} \in SUBSET Submits
      BY <2>1
    <3> QED BY <2>1, <3>1, SubmitsFinite
  <2>3. /\ verdict' \in [Submits -> Verdicts] /\ tag' \in [Submits -> Nat]
        /\ stored' \in SUBSET Submits
    BY <1>12, <2>1 DEF TypeInv, BaseInv, TypeOK, InsertRows
  <2>4. submitCnt' \in Nat /\ acCnt' \in Nat
    BY <1>12, <2>2 DEF TypeInv, BaseInv, TypeOK, InsertRows
  <2> QED
    BY <1>12, <2>3, <2>4 DEF TypeInv, BaseInv, TypeOK, HasPlat, HasIntent, InsertRows, Goto, CrawlPC, Halfway, maint, purging
<1>13. CASE FinishImport(c)
  BY <1>13, <1>n DEF TypeInv, BaseInv, TypeOK, HasPlat, HasIntent, FinishImport, Goto, Forget, ReleaseLock, CrawlPC,
     rows, maint, purging
<1>14. CASE ImportFails(c)
  BY <1>14, <1>n DEF TypeInv, BaseInv, TypeOK, HasPlat, HasIntent, ImportFails, InCritical, Goto, Forget, ReleaseLock,
     CrawlPC, db, rows, maint, purging
<1>15. CASE SaveContests(c)
  <2>1. contest' \in SUBSET Accounts
    BY <1>15 DEF SaveContests, TypeInv, BaseInv, TypeOK, HasPlat
  <2>6. gone' \in [rows : SUBSET Submits, contests : SUBSET Accounts, total : Nat,
                  accepted : Nat, mark : Nat \cup {NoMark}]
    <3>1. gone \in [rows : SUBSET Submits, contests : SUBSET Accounts, total : Nat,
                   accepted : Nat, mark : Nat \cup {NoMark}]
      BY DEF TypeInv, BaseInv, TypeOK
    <3>2. gone' = gone \/ gone' = [gone EXCEPT !.contests = @ \ {plat[c]}]
      BY <1>15 DEF SaveContests
    <3> QED BY <3>1, <3>2
  <2>2. /\ ids' \in [Crawlers -> SUBSET Submits] /\ neu' \in [Crawlers -> SUBSET Submits]
        /\ seen' \in [Crawlers -> [Submits -> Verdicts]]
        /\ was' \in [Crawlers -> [Submits -> Verdicts \cup {NotRead}]]
    BY <1>15, <1>n DEF SaveContests, Forget, TypeInv, BaseInv, TypeOK
  <2>3. UNCHANGED <<remote, binding, rating, rows, repair, gen, lock, maint, purge, purges>>
    BY <1>15 DEF SaveContests
  <2>4. HasIntent'
    BY <2>3 DEF TypeInv, BaseInv, HasIntent, maint
  <2>5. /\ pc' \in [Crawlers -> CrawlPC] /\ tries' \in [Crawlers -> 0..(MaxAttempts - 1)]
        /\ g' \in [Crawlers -> Nat] /\ plat' \in [Crawlers -> Accounts \cup {NoAccount}]
        /\ HasPlat'
    <3>0. /\ tries \in [Crawlers -> 0..(MaxAttempts - 1)] /\ g \in [Crawlers -> Nat]
          /\ plat \in [Crawlers -> Accounts \cup {NoAccount}] /\ pc \in [Crawlers -> CrawlPC]
          /\ HasPlat /\ pc[c] # "idle"
      BY <1>15 DEF SaveContests, TypeInv, BaseInv, TypeOK
    <3>1. CASE RetryAllowed(c)
      <4>1. /\ pc' = [pc EXCEPT ![c] = "gen"] /\ tries' = [tries EXCEPT ![c] = @ + 1]
            /\ UNCHANGED <<plat, g>>
        BY <1>15, <3>1 DEF SaveContests, Goto
      <4>2. tries[c] + 1 \in 0..(MaxAttempts - 1)
        BY <3>0, <3>1 DEF RetryAllowed
      <4> QED BY <3>0, <4>1, <4>2 DEF HasPlat, CrawlPC
    <3>2. CASE ~RetryAllowed(c)
      <4>1. /\ pc' = [pc EXCEPT ![c] = "idle"] /\ tries' = [tries EXCEPT ![c] = 0]
            /\ plat' = [plat EXCEPT ![c] = NoAccount] /\ g' = [g EXCEPT ![c] = 0]
        BY <1>15, <3>2 DEF SaveContests, Goto
      <4>2. 0 \in 0..(MaxAttempts - 1) /\ "idle" \in CrawlPC
        BY DEF CrawlPC
      <4> QED BY <3>0, <4>1, <4>2 DEF HasPlat
    <3> QED BY <3>1, <3>2
  <2> QED
    BY <2>1, <2>2, <2>3, <2>4, <2>5, <2>6 DEF TypeInv, BaseInv, TypeOK, rows, maint
<1>16. CASE CrawlerCrash(c)
  BY <1>16, <1>n DEF TypeInv, BaseInv, TypeOK, HasPlat, HasIntent, CrawlerCrash, Goto, Forget, CrawlPC, db, rows, maint, purging
<1> QED
  BY <1>1, <1>2, <1>3, <1>4, <1>5, <1>6, <1>7, <1>8, <1>9, <1>10, <1>11, <1>12, <1>13,
     <1>14, <1>15, <1>16, <1>17 DEF CrawlerStep

\* What the two deletions do to the tables when they commit.
LEMMA DeletionType ==
  ASSUME TypeInv, CommitDeletion
  PROVE  /\ stored' \in SUBSET Submits /\ verdict' \in [Submits -> Verdicts]
         /\ tag' \in [Submits -> Nat] /\ submitCnt' \in Nat /\ acCnt' \in Nat
         /\ contest' \in SUBSET Accounts /\ torn' \in BOOLEAN
         /\ gone' \in [rows : SUBSET Submits, contests : SUBSET Accounts, total : Nat,
                       accepted : Nat, mark : Nat \cup {NoMark}]
BY DEF TypeInv, BaseInv, TypeOK, GoneBounded, CommitDeletion, Nothing, Verdicts

LEMMA BaseNext ==
  ASSUME TypeInv, [Next]_vars
  PROVE  BaseInv'
<1> USE ConstantsAssumption
<1>n. /\ NoVerdicts \in [Submits -> Verdicts]
      /\ Nothing \in [rows : SUBSET Submits, contests : SUBSET Accounts, total : Nat,
                      accepted : Nat, mark : Nat \cup {NoMark}]
  BY DEF NoVerdicts, Verdicts, Nothing
<1>1. CASE \E s \in Submits : Judge(s)
  BY <1>1 DEF TypeInv, BaseInv, TypeOK, HasPlat, HasIntent, Judge, Verdicts, db, rows, crawl, maint, purging
<1>2. CASE \E c \in Crawlers : CrawlerStep(c)
  BY <1>2, CrawlerStepType
<1>3. CASE LockExpires
  BY <1>3 DEF TypeInv, BaseInv, TypeOK, HasPlat, HasIntent, LockExpires, db, rows, crawl, maint, purging
<1>4. CASE \E a \in Accounts : RequestRebind(a)
  BY <1>4 DEF TypeInv, BaseInv, TypeOK, HasPlat, HasIntent, RequestRebind, db, rows, crawl, purging
<1>5. CASE BumpGeneration
  BY <1>5 DEF TypeInv, BaseInv, TypeOK, HasPlat, HasIntent, BumpGeneration, db, rows, crawl, purging
<1>6. CASE RebindLock
  BY <1>6 DEF TypeInv, BaseInv, TypeOK, HasPlat, HasIntent, RebindLock, db, rows, crawl, purging
<1>7. CASE RebindDeletesRows
  BY <1>7 DEF TypeInv, BaseInv, TypeOK, HasPlat, HasIntent, RebindDeletesRows, DeleteRows, db, rows, crawl
<1>8. CASE RebindDeletesCounts
  BY <1>8 DEF TypeInv, BaseInv, TypeOK, HasPlat, HasIntent, RebindDeletesCounts, DeleteCounts, db, rows, crawl
<1>9. CASE CommitRebind
  <2>1. intent \in Accounts
    BY <1>9 DEF CommitRebind, TypeInv, BaseInv, HasIntent
  <2>2. CommitDeletion
    BY <1>9 DEF CommitRebind
  <2> QED
    BY <1>9, <2>1, <2>2, DeletionType DEF TypeInv, BaseInv, TypeOK, HasPlat, HasIntent, CommitRebind,
       NoMark, crawl
<1>10. CASE RebindFails
  BY <1>10, <1>n DEF TypeInv, BaseInv, TypeOK, HasPlat, HasIntent, RebindFails, RollBack, db, rows, crawl
<1>11. CASE RebinderCrash
  BY <1>11, <1>n DEF TypeInv, BaseInv, TypeOK, HasPlat, HasIntent, RebinderCrash, RollBack, db, rows, crawl
<1>p. ASSUME PurgeAllowed PROVE purges + 1 \in 0..MaxPurge
  BY <1>p DEF PurgeAllowed, TypeInv, BaseInv, TypeOK
<1>12. CASE PurgeTruncates
  BY <1>12, <1>n, <1>p DEF TypeInv, BaseInv, TypeOK, HasPlat, HasIntent, PurgeTruncates, crawl, maint
<1>13. CASE PurgeDeletesRows
  BY <1>13, <1>p DEF TypeInv, BaseInv, TypeOK, HasPlat, HasIntent, PurgeDeletesRows, DeleteRows,
     db, rows, crawl, maint
<1>14. CASE PurgeDeletesCounts
  BY <1>14 DEF TypeInv, BaseInv, TypeOK, HasPlat, HasIntent, PurgeDeletesCounts, DeleteCounts,
     db, rows, crawl, maint
<1>15. CASE CommitPurge
  <2>1. CommitDeletion
    BY <1>15 DEF CommitPurge
  <2> QED
    BY <1>15, <2>1, DeletionType DEF TypeInv, BaseInv, TypeOK, HasPlat, HasIntent, CommitPurge, crawl, maint
<1>16. CASE PurgeFails
  BY <1>16, <1>n DEF TypeInv, BaseInv, TypeOK, HasPlat, HasIntent, PurgeFails, db, rows, crawl, maint
<1>17. CASE PurgeCaches
  BY <1>17 DEF TypeInv, BaseInv, TypeOK, HasPlat, HasIntent, PurgeCaches, db, rows, crawl, maint
<1>18. CASE UNCHANGED vars
  BY <1>18 DEF TypeInv, BaseInv, TypeOK, HasPlat, HasIntent, vars, db, rows, crawl, maint, purging
<1> QED
  BY <1>1, <1>2, <1>3, <1>4, <1>5, <1>6, <1>7, <1>8, <1>9, <1>10, <1>11, <1>12, <1>13, <1>14, <1>15,
     <1>16, <1>17, <1>18
  DEF Next, RebinderStep, PurgeStep

\* A crawler leaves the deletions alone and only adds to what they count.
LEMMA GoneCrawl ==
  ASSUME TypeInv, NEW c \in Crawlers, CrawlerStep(c)
  PROVE  /\ gone'.total = gone.total /\ gone'.accepted = gone.accepted /\ gone'.rows = gone.rows
         /\ gone'.mark = gone.mark
         /\ submitCnt <= submitCnt' /\ acCnt <= acCnt'
         /\ UNCHANGED <<ex, purge>>
         /\ gone = Nothing => gone' = Nothing
<1>t. /\ gone \in [rows : SUBSET Submits, contests : SUBSET Accounts, total : Nat,
                   accepted : Nat, mark : Nat \cup {NoMark}]
      /\ submitCnt \in Nat /\ acCnt \in Nat
  BY DEF TypeInv, BaseInv, TypeOK
<1>1. CASE InsertRows(c)
  <2>1. {s \in neu[c] : seen[c][s] = "ac"} \in SUBSET Submits /\ neu[c] \in SUBSET Submits
    BY DEF TypeInv, BaseInv, TypeOK
  <2>2. Cardinality(neu[c]) \in Nat /\ Cardinality({s \in neu[c] : seen[c][s] = "ac"}) \in Nat
    BY <2>1, SubmitsFinite
  <2> QED BY <1>1, <1>t, <2>2 DEF InsertRows, maint, purging
<1>2. CASE RefreshVerdict(c)
  BY <1>2, <1>t DEF RefreshVerdict, maint, purging
<1>3. CASE SaveContests(c)
  <2>1. UNCHANGED <<submitCnt, acCnt, ex, purge>>
    BY <1>3 DEF SaveContests, rows, maint
  <2>2. gone' = gone \/ gone' = [gone EXCEPT !.contests = @ \ {plat[c]}]
    BY <1>3 DEF SaveContests
  <2>3. gone = Nothing => gone' = Nothing
    BY <2>2 DEF Nothing
  <2> QED BY <1>t, <2>1, <2>2, <2>3
<1>4. CASE ~InsertRows(c) /\ ~RefreshVerdict(c) /\ ~SaveContests(c)
  <2>1. UNCHANGED <<submitCnt, acCnt, ex, purge, gone>>
    BY <1>4 DEF CrawlerStep, LoadRow, FetchRating, ReadGeneration, Fetch, FetchFails, AcquireLock,
       LockTimeout, CheckGeneration, DiscardStale, ReadExisting, FilterNew, FinishImport, ImportFails,
       CrawlerCrash, db, rows, maint, purging
  <2> QED BY <1>t, <2>1
<1> QED BY <1>1, <1>2, <1>3, <1>4

LEMMA GoneNext ==
  ASSUME TypeInv, [Next]_vars
  PROVE  GoneBounded'
<1>t. /\ gone \in [rows : SUBSET Submits, contests : SUBSET Accounts, total : Nat,
                   accepted : Nat, mark : Nat \cup {NoMark}]
      /\ submitCnt \in Nat /\ acCnt \in Nat /\ GoneBounded
  BY DEF TypeInv, BaseInv, TypeOK
<1>1. ASSUME NEW c \in Crawlers, CrawlerStep(c) PROVE GoneBounded'
  <2>1. submitCnt' \in Nat /\ acCnt' \in Nat
    BY BaseNext, <1>1 DEF Next, BaseInv, TypeOK
  <2> QED BY <1>1, <1>t, <2>1, GoneCrawl DEF GoneBounded, Deleting
<1>2. CASE RebindDeletesRows \/ PurgeDeletesRows
  BY <1>2, <1>t DEF RebindDeletesRows, PurgeDeletesRows, DeleteRows, GoneBounded, Deleting, db, rows
<1>3. CASE RebindDeletesCounts \/ PurgeDeletesCounts
  <2>1. /\ DeleteCounts(repair) \/ DeleteCounts(NoMark)
        /\ UNCHANGED <<submitCnt, acCnt>> /\ Deleting'
    BY <1>3 DEF RebindDeletesCounts, PurgeDeletesCounts, Deleting, db, rows
  <2>2. gone'.total = submitCnt /\ gone'.accepted = acCnt
    BY <2>1, <1>t DEF DeleteCounts
  <2> QED BY <2>1, <2>2, <1>t DEF GoneBounded
<1>4. CASE CommitRebind \/ CommitPurge \/ PurgeFails
  <2>1. gone' = Nothing
    BY <1>4 DEF CommitRebind, CommitPurge, CommitDeletion, PurgeFails
  <2>2. 0 <= submitCnt' /\ 0 <= acCnt'
    BY BaseNext, <1>4 DEF Next, RebinderStep, PurgeStep, BaseInv, TypeOK
  <2> QED BY <2>1, <2>2 DEF GoneBounded, Nothing
<1>5. CASE RebindFails \/ RebinderCrash
  BY <1>5, <1>t DEF RebindFails, RebinderCrash, RollBack, GoneBounded, Deleting, Nothing, db, rows
<1>6. CASE PurgeTruncates
  BY <1>6, <1>t DEF PurgeTruncates, GoneBounded, Deleting, Nothing, maint
<1>7. CASE \/ \E s \in Submits : Judge(s)
           \/ LockExpires \/ \E a \in Accounts : RequestRebind(a)
           \/ BumpGeneration \/ RebindLock \/ PurgeCaches \/ UNCHANGED vars
  BY <1>7, <1>t DEF Judge, LockExpires, RequestRebind, BumpGeneration, RebindLock, PurgeCaches,
     GoneBounded, Deleting, vars, db, rows, maint, purging
<1> QED
  BY <1>1, <1>2, <1>3, <1>4, <1>5, <1>6, <1>7 DEF Next, RebinderStep, PurgeStep

LEMMA TypeNext == TypeInv /\ [Next]_vars => TypeInv'
BY BaseNext, GoneNext DEF TypeInv

(* Every value the ingestion keeps has its type, whatever fails: a retried *)
(* crawl stays within its attempts, counters stay natural numbers.         *)
THEOREM TypeCorrect == Spec => []TypeOK
<1>1. TypeInv => TypeOK
  BY DEF TypeInv, BaseInv
<1> QED BY <1>1, TypeInit, TypeNext, PTL DEF Spec

-----------------------------------------------------------------------------
(* What a crawl has read of the rows it may rewrite.                       *)

WasInv ==
  \A c \in Crawlers :
    /\ pc[c] # "refresh" => was[c] = NoneRead
    /\ \A s \in Submits : was[c][s] # NotRead => Rewrites(was[c][s], seen[c][s])

LEMMA WasCrawl ==
  ASSUME TypeInv, WasInv, NEW c \in Crawlers, CrawlerStep(c)
  PROVE  WasInv'
<1> DEFINE Ok(d) == /\ pc[d] # "refresh" => was[d] = NoneRead
                    /\ \A s \in Submits : was[d][s] # NotRead => Rewrites(was[d][s], seen[d][s])
<1>t. /\ pc \in [Crawlers -> CrawlPC] /\ seen \in [Crawlers -> [Submits -> Verdicts]]
      /\ was \in [Crawlers -> [Submits -> Verdicts \cup {NotRead}]]
  BY DEF TypeInv, BaseInv, TypeOK
<1>i. \A d \in Crawlers : Ok(d)
  BY DEF WasInv
<1>e. \A s \in Submits : NoneRead[s] = NotRead
  BY DEF NoneRead
<1>o. ASSUME NEW d \in Crawlers, d # c, pc'[d] = pc[d], was'[d] = was[d], seen'[d] = seen[d]
      PROVE  Ok(d)'
  BY <1>i, <1>o DEF Rewrites
<1>n. ASSUME was'[c] = NoneRead PROVE Ok(c)'
  BY <1>n, <1>e
<1>1. CASE \/ LockTimeout(c) \/ DiscardStale(c) \/ FinishImport(c) \/ ImportFails(c)
           \/ SaveContests(c) \/ CrawlerCrash(c)
  <2>1. Forget(c) /\ \E w \in CrawlPC : pc' = [pc EXCEPT ![c] = w]
    BY <1>1 DEF LockTimeout, DiscardStale, FinishImport, ImportFails, SaveContests, CrawlerCrash,
       Goto, CrawlPC
  <2>2. was' = [was EXCEPT ![c] = NoneRead] /\ seen' = [seen EXCEPT ![c] = NoVerdicts]
    BY <2>1 DEF Forget
  <2>3. was'[c] = NoneRead
    BY <2>2, <1>t
  <2>4. \A d \in Crawlers : d # c => pc'[d] = pc[d] /\ was'[d] = was[d] /\ seen'[d] = seen[d]
    BY <2>1, <2>2, <1>t
  <2> QED BY <2>3, <2>4, <1>o, <1>n DEF WasInv
<1>2. CASE \/ LoadRow(c) \/ FetchRating(c) \/ ReadGeneration(c) \/ Fetch(c) \/ FetchFails(c)
           \/ AcquireLock(c) \/ CheckGeneration(c) \/ InsertRows(c) \/ FilterNew(c)
  <2>1. was' = was /\ was[c] = NoneRead
    BY <1>2, <1>i DEF LoadRow, FetchRating, ReadGeneration, Fetch, FetchFails, AcquireLock,
       CheckGeneration, InsertRows, FilterNew
  <2>2. \A d \in Crawlers : d # c => pc'[d] = pc[d] /\ seen'[d] = seen[d]
    BY <1>2, <1>t DEF LoadRow, FetchRating, ReadGeneration, Fetch, FetchFails, AcquireLock,
       CheckGeneration, InsertRows, FilterNew, Goto
  <2> QED BY <2>1, <2>2, <1>o, <1>n DEF WasInv
<1>3. CASE ReadExisting(c)
  <2>1. /\ \A s \in Submits : was'[c][s] = IF s \in ids[c] \cap stored /\ Rewrites(verdict[s], seen[c][s])
                                          THEN verdict[s] ELSE NotRead
        /\ \A d \in Crawlers : d # c => pc'[d] = pc[d] /\ was'[d] = was[d]
        /\ pc'[c] = "refresh" /\ seen' = seen
    BY <1>3, <1>t DEF ReadExisting, Goto
  <2>2. Ok(c)'
    BY <2>1
  <2> QED BY <2>1, <2>2, <1>o DEF WasInv
<1>4. CASE RefreshVerdict(c)
  <2>1. PICK s \in Submits : was' = [was EXCEPT ![c][s] = NotRead]
    BY <1>4 DEF RefreshVerdict
  <2>2. UNCHANGED <<pc, seen>> /\ pc[c] = "refresh"
    BY <1>4 DEF RefreshVerdict
  <2>3. \A r \in Submits : was'[c][r] = IF r = s THEN NotRead ELSE was[c][r]
    BY <2>1, <1>t
  <2>4. \A d \in Crawlers : d # c => was'[d] = was[d]
    BY <2>1, <1>t
  <2>5. Ok(c)'
    BY <2>2, <2>3, <1>i
  <2> QED BY <2>2, <2>4, <2>5, <1>o DEF WasInv
<1> QED BY <1>1, <1>2, <1>3, <1>4 DEF CrawlerStep

-----------------------------------------------------------------------------
(* The aggregates.  Inductive together with the types and what crawls have *)
(* read; no assumption on locks, generations or purges.                    *)

AcceptedOf(S) == {s \in S : verdict[s] = "ac"}
Committing == ex = "commit" \/ purge = "commit"

CountsExact ==
  submitCnt = Cardinality(stored) /\ acCnt = Cardinality(AcceptedOf(stored))

\* What an open deletion has taken, once it has taken the counts, is consistent.
DeletionExact ==
  /\ gone.rows \subseteq stored
  /\ Halfway => gone.rows = stored
  /\ Committing => /\ gone.total = Cardinality(gone.rows)
                   /\ gone.accepted = Cardinality(AcceptedOf(gone.rows))

OneDeletion == ~(ex \in {"count", "commit"} /\ purge \in {"count", "commit"})

AggInv == WasInv /\ OneDeletion /\ (~torn => CountsExact /\ DeletionExact)

LEMMA AggRefresh ==
  ASSUME TypeInv, AggInv, NEW c \in Crawlers, RefreshVerdict(c), ~torn
  PROVE  CountsExact' /\ DeletionExact'
<1>1. PICK s \in Submits \ gone.rows :
        /\ was[c][s] # NotRead
        /\ IF StatusAsRead(c, s)
           THEN /\ verdict' = [verdict EXCEPT ![s] = seen[c][s]]
                /\ acCnt' = IF BecomesAccepted(c, s) THEN acCnt + 1 ELSE acCnt
           ELSE UNCHANGED <<verdict, acCnt>>
  BY DEF RefreshVerdict
<1>2. UNCHANGED <<stored, submitCnt, gone, ex, purge>>
  BY DEF RefreshVerdict, maint, purging
<1>t. verdict \in [Submits -> Verdicts] /\ stored \in SUBSET Submits /\ acCnt \in Nat
      /\ gone.rows \subseteq stored
  BY DEF TypeInv, BaseInv, TypeOK, AggInv, DeletionExact
<1>3. DeletionExact'
  <2>1. \A r \in gone.rows : verdict'[r] = verdict[r]
    BY <1>1, <1>t
  <2>2. AcceptedOf(gone.rows)' = AcceptedOf(gone.rows)
    BY <2>1, <1>2 DEF AcceptedOf
  <2> QED BY <1>2, <2>2 DEF AggInv, DeletionExact, Halfway, Committing
<1>4. CASE ~StatusAsRead(c, s)
  BY <1>1, <1>2, <1>3, <1>4 DEF AggInv, CountsExact, AcceptedOf
<1>5. CASE StatusAsRead(c, s)
  <2>1. s \in stored /\ verdict[s] # "ac" /\ (BecomesAccepted(c, s) <=> seen[c][s] = "ac")
    BY <1>1, <1>5 DEF StatusAsRead, AggInv, WasInv, Rewrites, BecomesAccepted
  <2>2. AcceptedOf(stored) \in SUBSET Submits /\ s \notin AcceptedOf(stored)
    BY <2>1, <1>t DEF AcceptedOf
  <2>3. IsFiniteSet(AcceptedOf(stored))
    BY <2>2, SubmitsFinite
  <2>4. submitCnt = Cardinality(stored) /\ acCnt = Cardinality(AcceptedOf(stored))
    BY DEF AggInv, CountsExact
  <2>5. CASE seen[c][s] = "ac"
    <3>1. AcceptedOf(stored)' = AcceptedOf(stored) \cup {s}
      BY <1>1, <1>2, <1>5, <2>1, <2>5, <1>t DEF AcceptedOf
    <3>2. Cardinality(AcceptedOf(stored)') = Cardinality(AcceptedOf(stored)) + 1
      BY <3>1, <2>2, <2>3, FS_AddElement
    <3> QED BY <1>1, <1>2, <1>3, <1>5, <2>1, <2>4, <2>5, <3>2 DEF CountsExact
  <2>6. CASE seen[c][s] # "ac"
    <3>1. AcceptedOf(stored)' = AcceptedOf(stored)
      BY <1>1, <1>2, <1>5, <2>1, <2>6, <1>t DEF AcceptedOf
    <3> QED BY <1>1, <1>2, <1>3, <1>5, <2>1, <2>4, <2>6, <3>1 DEF CountsExact
  <2> QED BY <2>5, <2>6
<1> QED BY <1>4, <1>5

LEMMA AggInsert ==
  ASSUME TypeInv, AggInv, NEW c \in Crawlers, InsertRows(c), ~torn'
  PROVE  CountsExact' /\ DeletionExact'
<1> DEFINE NewAc == {s \in neu[c] : seen[c][s] = "ac"}
<1>1. /\ stored' = stored \cup neu[c]
      /\ verdict' = [s \in Submits |-> IF s \in neu[c] THEN seen[c][s] ELSE verdict[s]]
      /\ submitCnt' = submitCnt + Cardinality(neu[c])
      /\ acCnt' = acCnt + Cardinality(NewAc)
      /\ neu[c] \cap stored = {}
      /\ torn' = (torn \/ (Halfway /\ neu[c] # {}))
      /\ UNCHANGED <<ex, purge, gone>>
  BY DEF InsertRows, NoDuplicate, maint, purging
<1>h. ~torn /\ (Halfway => neu[c] = {})
  BY <1>1
<1>2. neu[c] \in SUBSET Submits /\ stored \in SUBSET Submits /\ gone.rows \subseteq stored
  BY <1>h DEF TypeInv, BaseInv, TypeOK, AggInv, DeletionExact
<1>3. /\ IsFiniteSet(neu[c]) /\ IsFiniteSet(stored)
      /\ IsFiniteSet(NewAc) /\ IsFiniteSet(AcceptedOf(stored))
  <2>1. NewAc \in SUBSET Submits /\ AcceptedOf(stored) \in SUBSET Submits
    BY <1>2 DEF AcceptedOf
  <2> QED BY <1>2, <2>1, SubmitsFinite
<1>4. Cardinality(stored') = Cardinality(stored) + Cardinality(neu[c])
  BY <1>1, <1>3, DisjointUnion
<1>5. AcceptedOf(stored)' = AcceptedOf(stored) \cup NewAc /\ AcceptedOf(stored) \cap NewAc = {}
  BY <1>1, <1>2 DEF AcceptedOf
<1>6. Cardinality(AcceptedOf(stored)') = Cardinality(AcceptedOf(stored)) + Cardinality(NewAc)
  BY <1>3, <1>5, DisjointUnion
<1>7. submitCnt = Cardinality(stored) /\ acCnt = Cardinality(AcceptedOf(stored))
  BY <1>h DEF AggInv, CountsExact
<1>8. CountsExact'
  BY <1>1, <1>4, <1>6, <1>7 DEF CountsExact
<1>9. AcceptedOf(gone.rows)' = AcceptedOf(gone.rows)
  BY <1>1, <1>2 DEF AcceptedOf
<1>10. Halfway => stored' = stored
  BY <1>1, <1>h
<1> QED
  BY <1>1, <1>2, <1>8, <1>9, <1>10, <1>h DEF AggInv, DeletionExact, Halfway, Committing

\* A deletion that nothing disturbed leaves the rest counted exactly.
LEMMA AggDeleted ==
  ASSUME TypeInv, AggInv, CommitDeletion, Committing, ~torn
  PROVE  CountsExact' /\ gone' = Nothing
<1> DEFINE Left == stored \ gone.rows
<1>1. /\ stored' = Left
      /\ verdict' = [s \in Submits |-> IF s \in gone.rows THEN "pending" ELSE verdict[s]]
      /\ submitCnt' = submitCnt - gone.total
      /\ acCnt' = acCnt - gone.accepted
      /\ gone' = Nothing
  BY DEF CommitDeletion
<1>2. /\ gone.rows \subseteq stored /\ stored \in SUBSET Submits
      /\ gone.total = Cardinality(gone.rows) /\ gone.accepted = Cardinality(AcceptedOf(gone.rows))
      /\ submitCnt = Cardinality(stored) /\ acCnt = Cardinality(AcceptedOf(stored))
  BY DEF TypeInv, BaseInv, TypeOK, AggInv, CountsExact, DeletionExact
<1>3. Left \in SUBSET Submits /\ gone.rows \in SUBSET Submits
      /\ AcceptedOf(Left) \in SUBSET Submits /\ AcceptedOf(gone.rows) \in SUBSET Submits
  BY <1>2 DEF AcceptedOf
<1>4. /\ IsFiniteSet(Left) /\ IsFiniteSet(gone.rows)
      /\ IsFiniteSet(AcceptedOf(Left)) /\ IsFiniteSet(AcceptedOf(gone.rows))
      /\ Cardinality(Left) \in Nat /\ Cardinality(gone.rows) \in Nat
      /\ Cardinality(AcceptedOf(Left)) \in Nat /\ Cardinality(AcceptedOf(gone.rows)) \in Nat
  BY <1>3, SubmitsFinite
<1>5. Cardinality(stored) = Cardinality(Left) + Cardinality(gone.rows)
  <2>1. stored = Left \cup gone.rows /\ Left \cap gone.rows = {}
    BY <1>2
  <2> QED BY <2>1, <1>4, DisjointUnion
<1>6. Cardinality(AcceptedOf(stored)) = Cardinality(AcceptedOf(Left)) + Cardinality(AcceptedOf(gone.rows))
  <2>1. /\ AcceptedOf(stored) = AcceptedOf(Left) \cup AcceptedOf(gone.rows)
        /\ AcceptedOf(Left) \cap AcceptedOf(gone.rows) = {}
    BY <1>2 DEF AcceptedOf
  <2> QED BY <2>1, <1>4, DisjointUnion
<1>7. AcceptedOf(stored)' = AcceptedOf(Left)
  BY <1>1, <1>2 DEF AcceptedOf
<1>8. submitCnt' = Cardinality(stored') /\ acCnt' = Cardinality(AcceptedOf(stored)')
  BY <1>1, <1>2, <1>4, <1>5, <1>6, <1>7
<1> QED BY <1>1, <1>8 DEF CountsExact

LEMMA NothingExact ==
  ASSUME gone = Nothing, ~Deleting
  PROVE  DeletionExact
BY FS_EmptySet DEF DeletionExact, Nothing, Deleting, Halfway, Committing

LEMMA AggNext ==
  ASSUME TypeInv, AggInv, [Next]_vars
  PROVE  AggInv'
<1>w. WasInv'
  <2>1. CASE \E c \in Crawlers : CrawlerStep(c)
    BY <2>1, WasCrawl DEF AggInv
  <2>2. CASE ~\E c \in Crawlers : CrawlerStep(c)
    <3>1. UNCHANGED <<pc, was, seen>>
      BY <2>2 DEF Next, RebinderStep, PurgeStep, Judge, LockExpires, RequestRebind, BumpGeneration,
         RebindLock, RebindDeletesRows, RebindDeletesCounts, CommitRebind, RebindFails, RebinderCrash,
         PurgeTruncates, PurgeDeletesRows, PurgeDeletesCounts, CommitPurge, PurgeFails, PurgeCaches,
         vars, crawl
    <3> QED BY <3>1 DEF AggInv, WasInv, Rewrites
  <2> QED BY <2>1, <2>2
<1>k. ASSUME UNCHANGED <<stored, verdict, submitCnt, acCnt, torn>>
      PROVE  /\ ~torn' => CountsExact'
             /\ ~torn' /\ gone' = Nothing /\ ~Deleting' => DeletionExact'
             /\ ~torn' /\ UNCHANGED <<ex, purge>> /\ gone'.rows = gone.rows
                       /\ gone'.total = gone.total /\ gone'.accepted = gone.accepted => DeletionExact'
  BY <1>k, FS_EmptySet DEF AggInv, CountsExact, DeletionExact, AcceptedOf, Nothing, Deleting, Halfway,
     Committing
<1>1. ASSUME NEW c \in Crawlers, CrawlerStep(c) PROVE AggInv'
  <2>0. OneDeletion'
    BY <1>1, GoneCrawl DEF AggInv, OneDeletion
  <2>1. CASE RefreshVerdict(c)
    <3>1. torn' = torn
      BY <2>1 DEF RefreshVerdict
    <3> QED BY <2>0, <2>1, <3>1, <1>w, AggRefresh DEF AggInv
  <2>2. CASE InsertRows(c)
    BY <2>0, <2>2, <1>w, AggInsert DEF AggInv
  <2>3. CASE ~RefreshVerdict(c) /\ ~InsertRows(c)
    <3>1. UNCHANGED <<stored, verdict, submitCnt, acCnt, torn>>
      BY <1>1, <2>3
      DEF CrawlerStep, LoadRow, FetchRating, ReadGeneration, Fetch, FetchFails, AcquireLock,
          LockTimeout, CheckGeneration, DiscardStale, ReadExisting, FilterNew, FinishImport, ImportFails,
          SaveContests, CrawlerCrash, db, rows
    <3> QED BY <1>1, <1>k, <1>w, <2>0, <3>1, GoneCrawl DEF AggInv
  <2> QED BY <2>1, <2>2, <2>3
<1>2. CASE RebindDeletesRows \/ PurgeDeletesRows
  <2>1. /\ UNCHANGED <<stored, verdict, submitCnt, acCnt, torn>> /\ ~Deleting
        /\ gone' = [gone EXCEPT !.rows = stored, !.contests = contest]
        /\ \/ ex' = "count" /\ UNCHANGED purge
           \/ purge' = "count" /\ UNCHANGED ex
    BY <1>2 DEF RebindDeletesRows, PurgeDeletesRows, DeleteRows, db, rows, maint
  <2>2. gone'.rows = stored
    BY <2>1 DEF TypeInv, BaseInv, TypeOK
  <2>3. ~torn' => DeletionExact'
    BY <2>1, <2>2 DEF DeletionExact, Halfway, Committing, Deleting
  <2> QED BY <1>k, <1>w, <2>1, <2>3 DEF AggInv, OneDeletion, Deleting
<1>3. CASE RebindDeletesCounts \/ PurgeDeletesCounts
  <2>1. /\ UNCHANGED <<stored, verdict, submitCnt, acCnt, torn>> /\ Halfway
        /\ DeleteCounts(repair) \/ DeleteCounts(NoMark)
        /\ \/ ex = "count" /\ ex' = "commit" /\ UNCHANGED purge
           \/ purge = "count" /\ purge' = "commit" /\ UNCHANGED ex
    BY <1>3 DEF RebindDeletesCounts, PurgeDeletesCounts, Halfway, db, rows, maint
  <2>2. gone'.rows = gone.rows /\ gone'.total = submitCnt /\ gone'.accepted = acCnt
    BY <2>1 DEF DeleteCounts, TypeInv, BaseInv, TypeOK
  <2>3. OneDeletion' /\ ~Halfway'
    BY <2>1 DEF AggInv, OneDeletion, Halfway
  <2>4. ~torn' => DeletionExact'
    BY <2>1, <2>2, <2>3 DEF AggInv, CountsExact, DeletionExact, AcceptedOf
  <2> QED BY <1>k, <1>w, <2>1, <2>3, <2>4 DEF AggInv
<1>4. CASE CommitRebind \/ CommitPurge
  <2>1. CommitDeletion /\ Committing /\ torn' = torn
    BY <1>4 DEF CommitRebind, CommitPurge, CommitDeletion, Committing
  <2>2. ~Deleting' /\ OneDeletion'
    BY <1>4 DEF CommitRebind, CommitPurge, AggInv, OneDeletion, Deleting, maint
  <2>3. ~torn => CountsExact' /\ DeletionExact'
    <3>1. ~torn => CountsExact' /\ gone' = Nothing
      BY <2>1, AggDeleted
    <3>2. gone' = Nothing /\ ~Deleting' => DeletionExact'
      BY FS_EmptySet DEF DeletionExact, Nothing, Deleting, Halfway, Committing, AcceptedOf
    <3> QED BY <2>2, <3>1, <3>2
  <2> QED BY <1>w, <2>1, <2>2, <2>3 DEF AggInv
<1>5. CASE RebindFails \/ RebinderCrash \/ PurgeFails
  <2>1. UNCHANGED <<stored, verdict, submitCnt, acCnt, torn>>
    BY <1>5 DEF RebindFails, RebinderCrash, PurgeFails, db, rows
  <2>2. OneDeletion'
    BY <1>5 DEF RebindFails, RebinderCrash, PurgeFails, AggInv, OneDeletion, maint
  <2>3. CASE gone' = Nothing /\ ~Deleting'
    BY <1>k, <1>w, <2>1, <2>2, <2>3 DEF AggInv
  <2>4. CASE ~(gone' = Nothing /\ ~Deleting')
    <3>1. /\ ex \notin {"count", "commit"} /\ ex' = "idle"
          /\ UNCHANGED <<purge, gone>>
      BY <1>5, <2>4 DEF RebindFails, RebinderCrash, PurgeFails, RollBack, AggInv, OneDeletion, Deleting,
         TypeInv, GoneBounded, maint
    <3>2. ~torn' => DeletionExact'
      BY <2>1, <3>1 DEF AggInv, DeletionExact, Halfway, Committing, AcceptedOf
    <3> QED BY <1>k, <1>w, <2>1, <2>2, <3>2 DEF AggInv
  <2> QED BY <2>3, <2>4
<1>6. CASE PurgeTruncates
  <2>1. /\ stored' = {} /\ submitCnt' = 0 /\ acCnt' = 0 /\ gone' = gone /\ ~Deleting /\ ~Deleting'
    BY <1>6 DEF PurgeTruncates, Deleting, maint
  <2>2. CountsExact'
    <3>1. AcceptedOf(stored)' = {}
      BY <2>1 DEF AcceptedOf
    <3> QED BY <2>1, <3>1, FS_EmptySet DEF CountsExact
  <2>3. gone' = Nothing
    BY <2>1 DEF TypeInv, GoneBounded
  <2>4. DeletionExact'
    BY <2>1, <2>3, FS_EmptySet DEF DeletionExact, Nothing, Deleting, Halfway, Committing, AcceptedOf
  <2> QED BY <1>w, <2>1, <2>2, <2>4 DEF AggInv, OneDeletion, Deleting
<1>7. CASE \/ \E s \in Submits : Judge(s)
           \/ LockExpires \/ \E a \in Accounts : RequestRebind(a)
           \/ UNCHANGED vars
  <2>1. UNCHANGED <<stored, verdict, submitCnt, acCnt, torn, ex, purge, gone>>
    BY <1>7 DEF Judge, LockExpires, RequestRebind, vars, db, rows, maint, purging
  <2> QED BY <1>k, <1>w, <2>1 DEF AggInv, OneDeletion
<1>8. CASE BumpGeneration \/ RebindLock \/ PurgeCaches
  <2>1. /\ UNCHANGED <<stored, verdict, submitCnt, acCnt, torn, gone>>
        /\ ex \in {"count", "commit"} <=> ex' \in {"count", "commit"}
        /\ purge \in {"count", "commit"} <=> purge' \in {"count", "commit"}
        /\ (Halfway' <=> Halfway) /\ (Committing' <=> Committing)
    BY <1>8 DEF BumpGeneration, RebindLock, PurgeCaches, Halfway, Committing, db, rows, maint, purging
  <2>2. ~torn' => DeletionExact'
    BY <2>1 DEF AggInv, DeletionExact, AcceptedOf
  <2> QED BY <1>k, <1>w, <2>1, <2>2 DEF AggInv, OneDeletion
<1>9. CASE RebinderStep \/ RebindFails \/ RebinderCrash
  BY <1>9, <1>2, <1>3, <1>4, <1>5, <1>8 DEF RebinderStep
<1>10. CASE PurgeStep
  BY <1>10, <1>2, <1>3, <1>4, <1>5, <1>6, <1>8 DEF PurgeStep
<1> QED
  BY <1>1, <1>7, <1>9, <1>10 DEF Next

LEMMA AggInit == Init => AggInv
<1> SUFFICES ASSUME Init PROVE AggInv
  OBVIOUS
<1>1. stored = {} /\ submitCnt = 0 /\ acCnt = 0 /\ AcceptedOf(stored) = {}
  BY DEF Init, AcceptedOf
<1>2. CountsExact
  BY <1>1, FS_EmptySet DEF CountsExact
<1>3. DeletionExact
  BY NothingExact DEF Init, Deleting
<1>4. WasInv
  BY DEF Init, WasInv, NoneRead
<1> QED BY <1>2, <1>3, <1>4 DEF Init, AggInv, OneDeletion

-----------------------------------------------------------------------------
(* The lock and the generations, when nothing but its TTL frees a lock.    *)

PurgeOff == MaxPurge = 0 => purge = "idle"

\* Whoever is in the critical section holds the lock.
LockHeld ==
  LockTrusted => /\ \A c \in Crawlers : InCritical(c) => lock = c
                 /\ ex \in {"delete", "count", "commit"} => lock = Rebinder

\* The counter has reached every generation handed out.
GenerationReached ==
  LockTrusted => bindGen <= gen /\ (ex # "idle" => exGen <= gen)

\* A checked crawl is newer than the last rebind and stays so to its end.
CheckedIsFresh ==
  LockTrusted => \A c \in Crawlers :
                   pc[c] \in {"read", "refresh", "insert", "repair"} => g[c] >= bindGen

\* A rebind has deleted all there was, and no import commits meanwhile.
DeletesAll ==
  LockTrusted =>
    /\ ~torn
    /\ ex \in {"count", "commit"} => gone.rows = stored
    /\ ex = "commit" => gone.total = submitCnt /\ gone.accepted = acCnt /\ gone.mark = repair

IInv == TypeInv /\ PurgeOff /\ LockHeld /\ GenerationReached /\ CheckedIsFresh
        /\ StaleFetchDiscarded /\ DeletesAll

LEMMA IInit == Init => IInv
<1>1. Init => PurgeOff /\ LockHeld /\ GenerationReached /\ CheckedIsFresh /\ StaleFetchDiscarded
              /\ DeletesAll
  BY DEF Init, DeletesAll, PurgeOff, LockHeld, InCritical, GenerationReached, CheckedIsFresh, StaleFetchDiscarded
<1> QED BY <1>1, TypeInit DEF IInv

LEMMA ExclusionFromLock == IInv => WriterExclusion
BY ConstantsAssumption DEF IInv, LockHeld, WriterExclusion

\* A step of one crawler: the others' positions and generations stay.
LEMMA CrawlerStepSafe ==
  ASSUME IInv, LockTrusted, NEW c \in Crawlers, CrawlerStep(c)
  PROVE  LockHeld' /\ GenerationReached' /\ CheckedIsFresh' /\ StaleFetchDiscarded'
<1> USE ConstantsAssumption
<1>n. Rebinder # c /\ Free # c /\ Orphan # c
  OBVIOUS
<1>l. LockTrusted' = LockTrusted /\ ~LockFaults
  BY DEF LockTrusted
<1>t. /\ pc \in [Crawlers -> CrawlPC] /\ g \in [Crawlers -> Nat]
      /\ gen \in Nat /\ bindGen \in Nat /\ exGen \in Nat /\ tag \in [Submits -> Nat]
      /\ stored \in SUBSET Submits /\ neu \in [Crawlers -> SUBSET Submits]
  BY DEF IInv, TypeInv, BaseInv, TypeOK
<1>i. /\ \A d \in Crawlers : InCritical(d) => lock = d
      /\ ex \in {"delete", "count", "commit"} => lock = Rebinder
      /\ bindGen <= gen /\ (ex # "idle" => exGen <= gen)
      /\ \A d \in Crawlers : pc[d] \in {"read", "refresh", "insert", "repair"} => g[d] >= bindGen
      /\ \A s \in stored : tag[s] >= bindGen
      /\ repair # NoMark => repair >= bindGen
  BY DEF IInv, LockHeld, GenerationReached, CheckedIsFresh, StaleFetchDiscarded
<1>m. UNCHANGED <<gen, bindGen, ex, exGen>>
  BY DEF CrawlerStep, LoadRow, FetchRating, ReadGeneration, Fetch, FetchFails, AcquireLock,
     LockTimeout, CheckGeneration, DiscardStale, ReadExisting, RefreshVerdict, FilterNew, InsertRows,
     FinishImport, ImportFails, SaveContests, CrawlerCrash, maint
<1>1. LockHeld'
  <2>1. CASE \/ LoadRow(c) \/ FetchRating(c) \/ ReadGeneration(c) \/ Fetch(c) \/ FetchFails(c)
             \/ LockTimeout(c) \/ SaveContests(c)
    BY <2>1, <1>t, <1>i, <1>m DEF LockHeld, InCritical, LoadRow, FetchRating, ReadGeneration,
       Fetch, FetchFails, LockTimeout, SaveContests, Goto
  <2>2. CASE AcquireLock(c)
    BY <2>2, <1>n, <1>t, <1>i, <1>l, <1>m DEF LockHeld, InCritical, AcquireLock, Goto
  <2>3. CASE CheckGeneration(c) \/ ReadExisting(c) \/ RefreshVerdict(c) \/ FilterNew(c) \/ InsertRows(c)
    BY <2>3, <1>t, <1>i, <1>m DEF LockHeld, InCritical, CheckGeneration, ReadExisting, RefreshVerdict,
       FilterNew, InsertRows, Goto, crawl
  <2>4. CASE DiscardStale(c) \/ FinishImport(c) \/ ImportFails(c)
    BY <2>4, <1>n, <1>t, <1>i, <1>m DEF LockHeld, InCritical, DiscardStale, FinishImport,
       ImportFails, ReleaseLock, Goto
  <2>5. CASE CrawlerCrash(c)
    BY <2>5, <1>n, <1>t, <1>i, <1>m DEF LockHeld, InCritical, CrawlerCrash, Goto
  <2> QED BY <2>1, <2>2, <2>3, <2>4, <2>5 DEF CrawlerStep
<1>2. GenerationReached'
  BY <1>i, <1>m DEF GenerationReached
<1>3. CheckedIsFresh'
  <2>1. CASE CheckGeneration(c)
    BY <2>1, <1>t, <1>i, <1>m DEF CheckedIsFresh, CheckGeneration, GenerationMatches, Goto
  <2>2. CASE ReadExisting(c) \/ RefreshVerdict(c) \/ FilterNew(c) \/ InsertRows(c)
    BY <2>2, <1>t, <1>i, <1>m DEF CheckedIsFresh, ReadExisting, RefreshVerdict, FilterNew, InsertRows, Goto, crawl
  <2>3. CASE \/ LoadRow(c) \/ FetchRating(c) \/ ReadGeneration(c) \/ Fetch(c) \/ FetchFails(c)
             \/ AcquireLock(c) \/ LockTimeout(c)
    BY <2>3, <1>t, <1>i, <1>m DEF CheckedIsFresh, LoadRow, FetchRating, ReadGeneration, Fetch,
       FetchFails, AcquireLock, LockTimeout, Goto
  <2>4. CASE DiscardStale(c) \/ FinishImport(c) \/ ImportFails(c) \/ SaveContests(c) \/ CrawlerCrash(c)
    BY <2>4, <1>t, <1>i, <1>m DEF CheckedIsFresh, DiscardStale, FinishImport, ImportFails,
       SaveContests, CrawlerCrash, Goto
  <2> QED BY <2>1, <2>2, <2>3, <2>4 DEF CrawlerStep
<1>4. StaleFetchDiscarded'
  <2>1. CASE InsertRows(c)
    <3>1. pc[c] = "insert" /\ g[c] >= bindGen /\ g[c] \in Nat /\ neu[c] \in SUBSET Submits
      BY <2>1, <1>t, <1>i DEF InsertRows
    <3>2. /\ stored' = stored \cup neu[c] /\ repair' = repair
          /\ tag' = [s \in Submits |-> IF s \in neu[c] THEN g[c] ELSE tag[s]]
      BY <2>1 DEF InsertRows
    <3> QED BY <3>1, <3>2, <1>t, <1>i, <1>m DEF StaleFetchDiscarded
  <2>2. CASE FinishImport(c)
    <3>1. pc[c] = "repair" /\ g[c] >= bindGen
      BY <2>2, <1>i DEF FinishImport
    <3> QED BY <2>2, <3>1, <1>i, <1>m DEF StaleFetchDiscarded, FinishImport, rows
  <2>3. CASE ~InsertRows(c) /\ ~FinishImport(c)
    <3>1. UNCHANGED <<stored, tag, repair>>
      BY <2>3 DEF CrawlerStep, LoadRow, FetchRating, ReadGeneration, Fetch, FetchFails, AcquireLock,
         LockTimeout, CheckGeneration, DiscardStale, ReadExisting, RefreshVerdict, FilterNew, ImportFails,
         SaveContests, CrawlerCrash, db, rows
    <3> QED BY <3>1, <1>i, <1>m DEF StaleFetchDiscarded
  <2> QED BY <2>1, <2>2, <2>3
<1> QED BY <1>1, <1>2, <1>3, <1>4

LEMMA PurgeOffNext ==
  ASSUME IInv, [Next]_vars
  PROVE  PurgeOff'
<1>t. /\ purges \in 0..MaxPurge /\ purge \in {"idle", "count", "commit", "caches"} /\ PurgeOff
      /\ MaxPurge \in Nat
  BY ConstantsAssumption DEF IInv, TypeInv, BaseInv, TypeOK
<1>1. CASE PurgeStep
  BY <1>1, <1>t DEF PurgeStep, PurgeAllowed, PurgeTruncates, PurgeDeletesRows, PurgeDeletesCounts,
     CommitPurge, PurgeFails, PurgeCaches, PurgeOff
<1>2. CASE ~PurgeStep
  <2>1. UNCHANGED purge
    BY <1>2 DEF Next, RebinderStep, Judge, CrawlerStep, LoadRow, FetchRating, ReadGeneration, Fetch,
       FetchFails, AcquireLock, LockTimeout, CheckGeneration, DiscardStale, ReadExisting,
       RefreshVerdict, FilterNew, InsertRows, FinishImport, ImportFails, SaveContests, CrawlerCrash,
       LockExpires, RequestRebind, BumpGeneration, RebindLock, RebindDeletesRows, RebindDeletesCounts,
       CommitRebind, RebindFails, RebinderCrash, vars, purging
  <2> QED BY <2>1, <1>t DEF PurgeOff
<1> QED BY <1>1, <1>2

\* No crawler imports while a rebind deletes.
LEMMA DeletesAllNext ==
  ASSUME IInv, LockTrusted, [Next]_vars
  PROVE  DeletesAll'
<1> USE ConstantsAssumption
<1>l. ~LockFaults /\ MaxPurge = 0
  BY DEF LockTrusted
<1>t. /\ purge = "idle" /\ purges = 0 /\ ~PurgeAllowed
      /\ gone \in [rows : SUBSET Submits, contests : SUBSET Accounts, total : Nat,
                   accepted : Nat, mark : Nat \cup {NoMark}]
  BY <1>l DEF IInv, TypeInv, BaseInv, TypeOK, PurgeOff, PurgeAllowed
<1>n. torn \in BOOLEAN
  BY DEF IInv, TypeInv, BaseInv, TypeOK
<1>i. /\ ~torn
      /\ ex \in {"count", "commit"} => gone.rows = stored
      /\ ex = "commit" => gone.total = submitCnt /\ gone.accepted = acCnt /\ gone.mark = repair
      /\ \A d \in Crawlers : InCritical(d) => lock = d
      /\ ex \in {"delete", "count", "commit"} => lock = Rebinder
  BY DEF IInv, DeletesAll, LockHeld
<1>1. ASSUME NEW c \in Crawlers, CrawlerStep(c) PROVE DeletesAll'
  <2>0. /\ gone'.total = gone.total /\ gone'.accepted = gone.accepted /\ gone'.rows = gone.rows
        /\ gone'.mark = gone.mark /\ UNCHANGED <<ex, purge>>
    BY <1>1, GoneCrawl DEF IInv
  <2>1. CASE InCritical(c)
    <3>1. ex \notin {"count", "commit"}
      BY <2>1, <1>i
    <3>2. ~torn'
      <4>1. CASE InsertRows(c)
        BY <4>1, <3>1, <1>i, <1>t, <1>n DEF InsertRows, Halfway
      <4>2. CASE ~InsertRows(c)
        <5>1. torn' = torn
          BY <1>1, <4>2 DEF CrawlerStep, LoadRow, FetchRating, ReadGeneration, Fetch, FetchFails,
             AcquireLock, LockTimeout, CheckGeneration, DiscardStale, ReadExisting, RefreshVerdict,
             FilterNew, FinishImport, ImportFails, SaveContests, CrawlerCrash, db, rows
        <5> QED BY <5>1, <1>i
      <4> QED BY <4>1, <4>2
    <3> QED BY <2>0, <3>1, <3>2 DEF DeletesAll
  <2>2. CASE ~InCritical(c)
    <3>1. UNCHANGED <<stored, submitCnt, acCnt, repair, torn>>
      BY <1>1, <2>2 DEF InCritical, CrawlerStep, LoadRow, FetchRating, ReadGeneration, Fetch, FetchFails,
         AcquireLock, LockTimeout, CheckGeneration, DiscardStale, ReadExisting, RefreshVerdict,
         FilterNew, InsertRows, FinishImport, ImportFails, SaveContests, CrawlerCrash, db, rows
    <3> QED BY <2>0, <3>1, <1>i DEF DeletesAll
  <2> QED BY <2>1, <2>2
<1>2. CASE RebindDeletesRows
  <2>1. gone'.rows = stored /\ stored' = stored /\ torn' = torn /\ ex' = "count"
    BY <1>2, <1>t DEF RebindDeletesRows, DeleteRows, db, rows
  <2> QED BY <2>1, <1>i DEF DeletesAll
<1>3. CASE RebindDeletesCounts
  <2>1. /\ gone'.rows = gone.rows /\ gone'.total = submitCnt /\ gone'.accepted = acCnt
        /\ gone'.mark = repair
        /\ UNCHANGED <<stored, submitCnt, acCnt, repair, torn>> /\ ex = "count"
    BY <1>3, <1>t DEF RebindDeletesCounts, DeleteCounts, db, rows
  <2> QED BY <2>1, <1>i DEF DeletesAll
<1>4. CASE CommitRebind \/ RebindFails \/ RebinderCrash
  <2>1. ex' = "idle" /\ torn' = torn
    BY <1>4 DEF CommitRebind, CommitDeletion, RebindFails, RebinderCrash, db, rows
  <2> QED BY <2>1, <1>i DEF DeletesAll
<1>5. CASE \/ \E s \in Submits : Judge(s)
           \/ LockExpires \/ \E a \in Accounts : RequestRebind(a)
           \/ UNCHANGED vars
  <2>1. UNCHANGED <<stored, submitCnt, acCnt, repair, torn, ex, gone>>
    BY <1>5 DEF Judge, LockExpires, RequestRebind, vars, db, rows, maint, purging
  <2> QED BY <2>1, <1>i DEF DeletesAll
<1>6. CASE BumpGeneration \/ RebindLock
  <2>1. torn' = torn /\ ex' \notin {"count", "commit"}
    BY <1>6 DEF BumpGeneration, RebindLock, db, rows
  <2> QED BY <2>1, <1>i DEF DeletesAll
<1>7. CASE PurgeStep
  BY <1>7, <1>t DEF PurgeStep, PurgeTruncates, PurgeDeletesRows, PurgeDeletesCounts, CommitPurge,
     PurgeFails, PurgeCaches
<1>8. CASE RebinderStep
  BY <1>8, <1>2, <1>3, <1>4, <1>6 DEF RebinderStep
<1> QED BY <1>1, <1>4, <1>5, <1>7, <1>8 DEF Next

\* A step of anyone.
LEMMA SafeNext ==
  ASSUME IInv, LockTrusted, [Next]_vars
  PROVE  LockHeld' /\ GenerationReached' /\ CheckedIsFresh' /\ StaleFetchDiscarded'
<1> USE ConstantsAssumption
<1>l. ~LockFaults /\ MaxPurge = 0
  BY DEF LockTrusted
<1>t. /\ pc \in [Crawlers -> CrawlPC] /\ g \in [Crawlers -> Nat]
      /\ gen \in Nat /\ bindGen \in Nat /\ exGen \in Nat
      /\ purge = "idle" /\ purges = 0
  BY <1>l DEF IInv, TypeInv, BaseInv, TypeOK, PurgeOff
<1>i. /\ \A d \in Crawlers : InCritical(d) => lock = d
      /\ ex \in {"delete", "count", "commit"} => lock = Rebinder
      /\ bindGen <= gen /\ (ex # "idle" => exGen <= gen)
      /\ \A d \in Crawlers : pc[d] \in {"read", "refresh", "insert", "repair"} => g[d] >= bindGen
      /\ \A s \in stored : tag[s] >= bindGen
      /\ repair # NoMark => repair >= bindGen
  BY DEF IInv, LockHeld, GenerationReached, CheckedIsFresh, StaleFetchDiscarded
<1>d. ex = "commit" => gone.rows = stored /\ gone.mark = repair
  BY DEF IInv, DeletesAll
<1>1. CASE \/ \E s \in Submits : Judge(s)
           \/ \E a \in Accounts : RequestRebind(a)
           \/ UNCHANGED vars
  BY <1>1, <1>i DEF Judge, RequestRebind, vars, db, rows, crawl, maint, InCritical,
     LockHeld, GenerationReached, CheckedIsFresh, StaleFetchDiscarded
<1>2. CASE \E c \in Crawlers : CrawlerStep(c)
  BY <1>2, CrawlerStepSafe
<1>3. CASE LockExpires
  BY <1>3, <1>l, <1>i DEF LockExpires, db, rows, crawl, maint, InCritical,
     LockHeld, GenerationReached, CheckedIsFresh, StaleFetchDiscarded
<1>4. CASE BumpGeneration
  BY <1>4, <1>i, <1>t DEF BumpGeneration, db, rows, crawl, InCritical,
     LockHeld, GenerationReached, CheckedIsFresh, StaleFetchDiscarded
<1>5. CASE RebindLock \/ RebindDeletesRows \/ RebindDeletesCounts
  BY <1>5, <1>i, <1>t DEF RebindLock, RebindDeletesRows, RebindDeletesCounts, db, rows, crawl, InCritical,
     LockHeld, GenerationReached, CheckedIsFresh, StaleFetchDiscarded
<1>6. CASE CommitRebind
  <2>1. \A c \in Crawlers : ~InCritical(c)
    BY <1>6, <1>i DEF CommitRebind
  <2>2. /\ UNCHANGED <<pc, g, gen, exGen>> /\ ex' = "idle" /\ bindGen' = exGen
        /\ stored' = {} /\ repair' = NoMark
    BY <1>6, <1>d DEF CommitRebind, CommitDeletion, crawl
  <2>3. exGen <= gen
    BY <1>6, <1>i DEF CommitRebind
  <2> QED BY <2>1, <2>2, <2>3 DEF InCritical, LockHeld, GenerationReached, CheckedIsFresh,
          StaleFetchDiscarded
<1>7. CASE RebindFails \/ RebinderCrash
  BY <1>7, <1>i, <1>t DEF RebindFails, RebinderCrash, db, rows, crawl, InCritical,
     LockHeld, GenerationReached, CheckedIsFresh, StaleFetchDiscarded
<1>8. CASE PurgeStep
  BY <1>8, <1>l, <1>t DEF PurgeStep, PurgeAllowed, PurgeTruncates, PurgeDeletesRows,
     PurgeDeletesCounts, CommitPurge, PurgeFails, PurgeCaches
<1> QED
  BY <1>1, <1>2, <1>3, <1>4, <1>5, <1>6, <1>7, <1>8 DEF Next, RebinderStep

LEMMA INext == IInv /\ [Next]_vars => IInv'
<1> SUFFICES ASSUME IInv, [Next]_vars PROVE IInv'
  OBVIOUS
<1>1. TypeInv' /\ PurgeOff'
  BY TypeNext, PurgeOffNext DEF IInv
<1>2. CASE ~LockTrusted
  BY <1>1, <1>2 DEF IInv, LockHeld, GenerationReached, CheckedIsFresh, StaleFetchDiscarded,
     DeletesAll, LockTrusted
<1>3. CASE LockTrusted
  BY <1>1, <1>3, SafeNext, DeletesAllNext DEF IInv
<1> QED BY <1>2, <1>3

(* With a trusted lock no two of the crawlers and the rebind transaction   *)
(* are ever inside the section that SetNX on spider:writelock guards.      *)
THEOREM ExclusionCorrect == Spec => []WriterExclusion
BY IInit, INext, ExclusionFromLock, PTL DEF Spec

(* With a trusted lock, what was fetched under a generation that a rebind  *)
(* has superseded leaves no row and no repair marker behind the rebind.    *)
THEOREM StaleFetchCorrect == Spec => []StaleFetchDiscarded
<1>1. IInv => StaleFetchDiscarded
  BY DEF IInv
<1> QED BY <1>1, IInit, INext, PTL DEF Spec

(* daily_user_stats counts submit_logs exactly, for every number of        *)
(* crawlers and submissions: always while the write lock can be trusted,   *)
(* and with lost locks, crashes and purges unless an import commits        *)
(* between a deletion's DELETE of the rows and its DELETE of the counts,   *)
(* which one READ COMMITTED transaction does not prevent                   *)
(* (deleteSpiderPlatformData).                                             *)
THEOREM AggregatesCorrect == Spec => []AggregatesMatchLogs
<1>1. IInv /\ AggInv => AggregatesMatchLogs
  BY DEF IInv, DeletesAll, AggInv, CountsExact, AcceptedOf, AggregatesMatchLogs
<1>2. IInv => TypeInv
  BY DEF IInv
<1> QED BY <1>1, <1>2, IInit, INext, AggInit, AggNext, PTL DEF Spec

-----------------------------------------------------------------------------
(* The ledger.  A crawl's copy of a verdict may be old but is never wrong, *)
(* and a rebind under way is ahead of the last one.                        *)

Told(s) == {"pending", FinalVerdict[s]} \cup (IF Correctable(s) THEN {"wa"} ELSE {})

Truthful ==
  /\ \A s \in Submits : remote[s] \in Told(s) /\ verdict[s] \in Told(s)
  /\ \A c \in Crawlers : \A s \in Submits : seen[c][s] \in Told(s)

\* Nothing is remembered of a row that is not stored.
Blank == \A s \in Submits : s \notin stored => verdict[s] = "pending" /\ tag[s] = 0

RebindAhead == LockTrusted => (ex # "idle" => bindGen < exGen)

LInv == IInv /\ AggInv /\ Truthful /\ Blank /\ RebindAhead

LEMMA LInit == Init => LInv
BY IInit, AggInit DEF Init, LInv, Truthful, Told, Blank, RebindAhead, NoVerdicts

LEMMA TruthfulKept ==
  ASSUME Truthful, UNCHANGED <<remote, verdict, seen>>
  PROVE  Truthful'
BY DEF Truthful, Told

\* A crawl that leaves its attempt forgets what it was told.
LEMMA TruthfulForgets ==
  ASSUME TypeInv, Truthful, NEW c \in Crawlers, Forget(c), UNCHANGED <<remote, verdict>>
  PROVE  Truthful'
<1>1. seen' = [seen EXCEPT ![c] = NoVerdicts]
  BY DEF Forget
<1>2. \A s \in Submits : NoVerdicts[s] \in Told(s)
  BY DEF NoVerdicts, Told
<1>3. seen \in [Crawlers -> [Submits -> Verdicts]]
  BY DEF TypeInv, BaseInv, TypeOK
<1>4. \A d \in Crawlers : seen'[d] = IF d = c THEN NoVerdicts ELSE seen[d]
  BY <1>1, <1>3
<1> QED BY <1>2, <1>4 DEF Truthful, Told

LEMMA TruthfulCrawl ==
  ASSUME TypeInv, Truthful, NEW c \in Crawlers, CrawlerStep(c)
  PROVE  Truthful'
<1>t. /\ remote \in [Submits -> Verdicts] /\ verdict \in [Submits -> Verdicts]
      /\ seen \in [Crawlers -> [Submits -> Verdicts]]
      /\ neu \in [Crawlers -> SUBSET Submits]
  BY DEF TypeInv, BaseInv, TypeOK
<1>1. CASE Fetch(c)
  <2>1. PICK S \in SUBSET {s \in Submits : Owner[s] = plat[c]} :
          seen' = [seen EXCEPT ![c] =
                     [s \in Submits |-> IF s \in S THEN remote[s] ELSE "pending"]]
    BY <1>1 DEF Fetch
  <2>2. UNCHANGED <<remote, verdict>>
    BY <1>1 DEF Fetch, db, rows
  <2>3. ASSUME NEW d \in Crawlers, NEW s \in Submits PROVE seen'[d][s] \in Told(s)
    <3>1. CASE d = c
      <4>1. seen'[c][s] = IF s \in S THEN remote[s] ELSE "pending"
        BY <2>1, <1>t
      <4> QED BY <3>1, <4>1 DEF Truthful, Told
    <3>2. CASE d # c
      <4>1. seen'[d] = seen[d]
        BY <2>1, <3>2, <1>t
      <4> QED BY <4>1 DEF Truthful
    <3> QED BY <3>1, <3>2
  <2> QED BY <2>2, <2>3 DEF Truthful, Told
<1>2. CASE RefreshVerdict(c)
  <2>1. PICK s \in Submits : verdict' = [verdict EXCEPT ![s] = seen[c][s]] \/ verdict' = verdict
    BY <1>2 DEF RefreshVerdict
  <2>2. UNCHANGED <<remote, seen>>
    BY <1>2 DEF RefreshVerdict
  <2>3. \A r \in Submits : verdict'[r] = verdict[r] \/ (r = s /\ verdict'[r] = seen[c][s])
    BY <2>1, <1>t
  <2> QED BY <2>2, <2>3 DEF Truthful, Told
<1>3. CASE InsertRows(c)
  <2>1. /\ \A s \in Submits : verdict'[s] = IF s \in neu[c] THEN seen[c][s] ELSE verdict[s]
        /\ UNCHANGED <<remote, seen>>
    BY <1>3 DEF InsertRows
  <2> QED BY <2>1 DEF Truthful, Told
<1>4. CASE \/ LockTimeout(c) \/ DiscardStale(c) \/ FinishImport(c) \/ ImportFails(c)
           \/ SaveContests(c) \/ CrawlerCrash(c)
  <2>1. Forget(c) /\ UNCHANGED <<remote, verdict>>
    BY <1>4 DEF LockTimeout, DiscardStale, FinishImport, ImportFails, SaveContests, CrawlerCrash, db, rows
  <2> QED BY <2>1, TruthfulForgets
<1>5. CASE \/ LoadRow(c) \/ FetchRating(c) \/ ReadGeneration(c) \/ FetchFails(c)
           \/ AcquireLock(c) \/ CheckGeneration(c) \/ ReadExisting(c) \/ FilterNew(c)
  <2>1. UNCHANGED <<remote, verdict, seen>>
    BY <1>5 DEF LoadRow, FetchRating, ReadGeneration, FetchFails, AcquireLock,
       CheckGeneration, ReadExisting, FilterNew, db, rows
  <2> QED BY <2>1, TruthfulKept
<1> QED BY <1>1, <1>2, <1>3, <1>4, <1>5 DEF CrawlerStep

LEMMA TruthfulNext ==
  ASSUME TypeInv, Truthful, [Next]_vars
  PROVE  Truthful'
<1>1. ASSUME NEW s \in Submits, Judge(s) PROVE Truthful'
  <2>1. remote \in [Submits -> Verdicts]
    BY DEF TypeInv, BaseInv, TypeOK
  <2>2. PICK v \in Told(s) : remote' = [remote EXCEPT ![s] = v]
    BY <1>1 DEF Judge, Told, Correctable
  <2>3. \A r \in Submits : remote'[r] = IF r = s THEN v ELSE remote[r]
    BY <2>1, <2>2
  <2>4. UNCHANGED <<verdict, seen>>
    BY <1>1 DEF Judge, db, rows, crawl
  <2> QED BY <2>3, <2>4 DEF Truthful, Told
<1>2. CASE \E c \in Crawlers : CrawlerStep(c)
  BY <1>2, TruthfulCrawl
<1>3. CASE CommitRebind \/ CommitPurge \/ PurgeTruncates
  <2>1. /\ UNCHANGED <<remote, seen>>
        /\ \A s \in Submits : verdict'[s] \in {"pending", verdict[s]}
    BY <1>3 DEF CommitRebind, CommitPurge, CommitDeletion, PurgeTruncates, NoVerdicts, crawl
  <2> QED BY <2>1 DEF Truthful, Told
<1>4. CASE \/ LockExpires
           \/ \E a \in Accounts : RequestRebind(a)
           \/ BumpGeneration \/ RebindLock \/ RebindDeletesRows \/ RebindDeletesCounts
           \/ RebindFails \/ RebinderCrash
           \/ PurgeDeletesRows \/ PurgeDeletesCounts \/ PurgeFails \/ PurgeCaches
           \/ UNCHANGED vars
  <2>1. UNCHANGED <<remote, verdict, seen>>
    BY <1>4 DEF LockExpires, RequestRebind, BumpGeneration, RebindLock, RebindDeletesRows,
       RebindDeletesCounts, RebindFails, RebinderCrash, PurgeDeletesRows, PurgeDeletesCounts,
       PurgeFails, PurgeCaches, vars, db, rows, crawl
  <2> QED BY <2>1, TruthfulKept
<1> QED BY <1>1, <1>2, <1>3, <1>4 DEF Next, RebinderStep, PurgeStep

LEMMA BlankNext ==
  ASSUME TypeInv, Blank, [Next]_vars
  PROVE  Blank'
<1>t. /\ verdict \in [Submits -> Verdicts] /\ tag \in [Submits -> Nat]
      /\ stored \in SUBSET Submits /\ neu \in [Crawlers -> SUBSET Submits]
  BY DEF TypeInv, BaseInv, TypeOK
<1>k. ASSUME UNCHANGED <<stored, verdict, tag>> PROVE Blank'
  BY <1>k DEF Blank
<1>1. ASSUME NEW c \in Crawlers, CrawlerStep(c) PROVE Blank'
  <2>1. CASE RefreshVerdict(c)
    <3>1. PICK s \in Submits : IF StatusAsRead(c, s)
                              THEN verdict' = [verdict EXCEPT ![s] = seen[c][s]]
                              ELSE verdict' = verdict
      BY <2>1 DEF RefreshVerdict
    <3>2. UNCHANGED <<stored, tag>>
      BY <2>1 DEF RefreshVerdict
    <3>3. \A r \in Submits : verdict'[r] = verdict[r] \/ r \in stored
      BY <3>1, <1>t DEF StatusAsRead
    <3> QED BY <3>2, <3>3 DEF Blank
  <2>2. CASE InsertRows(c)
    <3>1. /\ stored' = stored \cup neu[c]
          /\ \A s \in Submits : s \notin neu[c] => verdict'[s] = verdict[s] /\ tag'[s] = tag[s]
      BY <2>2 DEF InsertRows
    <3> QED BY <3>1 DEF Blank
  <2>3. CASE ~RefreshVerdict(c) /\ ~InsertRows(c)
    <3>1. UNCHANGED <<stored, verdict, tag>>
      BY <1>1, <2>3
      DEF CrawlerStep, LoadRow, FetchRating, ReadGeneration, Fetch, FetchFails, AcquireLock,
          LockTimeout, CheckGeneration, DiscardStale, ReadExisting, FilterNew, FinishImport, ImportFails,
          SaveContests, CrawlerCrash, db, rows
    <3> QED BY <1>k, <3>1
  <2> QED BY <2>1, <2>2, <2>3
<1>2. CASE CommitRebind \/ CommitPurge
  <2>1. CommitDeletion
    BY <1>2 DEF CommitRebind, CommitPurge
  <2> QED BY <2>1 DEF CommitDeletion, Blank
<1>3. CASE PurgeTruncates
  BY <1>3 DEF PurgeTruncates, NoVerdicts, Blank
<1>4. CASE \/ \E s \in Submits : Judge(s)
           \/ LockExpires
           \/ \E a \in Accounts : RequestRebind(a)
           \/ BumpGeneration \/ RebindLock \/ RebindDeletesRows \/ RebindDeletesCounts
           \/ RebindFails \/ RebinderCrash
           \/ PurgeDeletesRows \/ PurgeDeletesCounts \/ PurgeFails \/ PurgeCaches
           \/ UNCHANGED vars
  <2>1. UNCHANGED <<stored, verdict, tag>>
    BY <1>4 DEF Judge, LockExpires, RequestRebind, BumpGeneration, RebindLock, RebindDeletesRows,
       RebindDeletesCounts, RebindFails, RebinderCrash, PurgeDeletesRows, PurgeDeletesCounts,
       PurgeFails, PurgeCaches, vars, db, rows
  <2> QED BY <1>k, <2>1
<1> QED BY <1>1, <1>2, <1>3, <1>4 DEF Next, RebinderStep, PurgeStep

LEMMA RebindAheadNext ==
  ASSUME IInv, RebindAhead, [Next]_vars
  PROVE  RebindAhead'
<1>t. bindGen \in Nat /\ exGen \in Nat /\ gen \in Nat
  BY DEF IInv, TypeInv, BaseInv, TypeOK
<1>1. CASE BumpGeneration
  <2>1. LockTrusted => bindGen <= gen
    BY DEF IInv, GenerationReached
  <2> QED BY <1>1, <1>t, <2>1 DEF BumpGeneration, RebindAhead, LockTrusted
<1>2. CASE CommitRebind \/ RebindFails \/ RebinderCrash
  BY <1>2 DEF CommitRebind, RebindFails, RebinderCrash, RebindAhead
<1>3. CASE RebindLock \/ RebindDeletesRows \/ RebindDeletesCounts
  BY <1>3 DEF RebindLock, RebindDeletesRows, RebindDeletesCounts, RebindAhead, LockTrusted
<1>4. CASE ~RebinderStep /\ ~RebindFails /\ ~RebinderCrash
  <2>1. UNCHANGED <<ex, exGen, bindGen>>
    BY <1>4 DEF Next, Judge, CrawlerStep, LoadRow, FetchRating, ReadGeneration, Fetch,
       FetchFails, AcquireLock, LockTimeout, CheckGeneration, DiscardStale, ReadExisting,
       RefreshVerdict, FilterNew, InsertRows, FinishImport, ImportFails, SaveContests, CrawlerCrash,
       LockExpires, RequestRebind, PurgeStep, PurgeTruncates, PurgeDeletesRows, PurgeDeletesCounts,
       CommitPurge, PurgeFails, PurgeCaches, vars, maint
  <2> QED BY <2>1 DEF RebindAhead, LockTrusted
<1> QED BY <1>1, <1>2, <1>3, <1>4 DEF RebinderStep

LEMMA LNext == LInv /\ [Next]_vars => LInv'
BY INext, AggNext, TruthfulNext, BlankNext, RebindAheadNext DEF LInv, IInv

LEMMA LInvCorrect == Spec => []LInv
BY LInit, LNext, PTL DEF Spec

-----------------------------------------------------------------------------
(* Every step of the ingestion is a step of the ledger or leaves it alone. *)

LEMMA LedgerInit == Init => L!Init
BY DEF Init, L!Init, NoVerdicts, NoMark

LEMMA ToldIsShown == \A s : Told(s) = L!Shown(s)
BY DEF Told, L!Shown, Correctable, L!Correctable

LEMMA LedgerRefresh ==
  ASSUME LInv, NEW c \in Crawlers, RefreshVerdict(c)
  PROVE  L!Next \/ UNCHANGED L!vars
<1>1. PICK s \in Submits :
        /\ was[c][s] # NotRead
        /\ IF StatusAsRead(c, s)
           THEN /\ verdict' = [verdict EXCEPT ![s] = seen[c][s]]
                /\ acCnt' = IF BecomesAccepted(c, s) THEN acCnt + 1 ELSE acCnt
           ELSE UNCHANGED <<verdict, acCnt>>
  BY DEF RefreshVerdict
<1>2. UNCHANGED <<binding, stored, tag, submitCnt, repair, bindGen>>
  BY DEF RefreshVerdict, maint
<1>3. CASE ~StatusAsRead(c, s)
  BY <1>1, <1>2, <1>3 DEF L!vars
<1>4. CASE StatusAsRead(c, s)
  <2>1. /\ s \in stored /\ verdict[s] = was[c][s]
        /\ Rewrites(verdict[s], seen[c][s])
    BY <1>1, <1>4 DEF StatusAsRead, LInv, AggInv, WasInv
  <2>2. seen[c][s] \in L!Shown(s)
    BY ToldIsShown DEF LInv, Truthful
  <2>3. /\ seen[c][s] \in L!Shown(s) \ {"pending"}
        /\ verdict[s] = "pending" \/ (L!Correctable(s) /\ verdict[s] = "wa" /\ seen[c][s] = "ac")
    BY <2>1, <2>2 DEF Rewrites, L!Shown, L!Correctable
  <2>4. /\ verdict' = [verdict EXCEPT ![s] = seen[c][s]]
        /\ acCnt' = IF seen[c][s] = "ac" THEN acCnt + 1 ELSE acCnt
    BY <1>1, <1>4, <2>1, <2>3 DEF BecomesAccepted
  <2>5. L!Learn(s)
    BY <1>2, <2>1, <2>3, <2>4 DEF L!Learn
  <2> QED BY <2>5 DEF L!Next
<1> QED BY <1>3, <1>4

\* The ledger counts as the ingestion does.
LEMMA SameCount == \A S : L!Cardinality(S) = Cardinality(S)
BY Zenon DEF Cardinality, L!Cardinality

LEMMA LedgerInsert ==
  ASSUME LInv, NEW c \in Crawlers, InsertRows(c)
  PROVE  L!Next
<1>1. /\ stored' = stored \cup neu[c] /\ neu[c] \cap stored = {}
      /\ verdict' = [s \in Submits |-> IF s \in neu[c] THEN seen[c][s] ELSE verdict[s]]
      /\ tag' = [s \in Submits |-> IF s \in neu[c] THEN g[c] ELSE tag[s]]
      /\ submitCnt' = submitCnt + Cardinality(neu[c])
      /\ acCnt' = acCnt + Cardinality({s \in neu[c] : seen[c][s] = "ac"})
      /\ UNCHANGED <<binding, repair, bindGen>> /\ pc[c] = "insert"
  BY DEF InsertRows, NoDuplicate, maint
<1>2. neu[c] \in SUBSET Submits
  BY DEF LInv, IInv, TypeInv, BaseInv, TypeOK
<1>3. LockTrusted => g[c] >= bindGen
  BY <1>1 DEF LInv, IInv, CheckedIsFresh
<1>4. {s \in neu[c] : seen[c][s] = "ac"} = {s \in neu[c] : verdict'[s] = "ac"}
  BY <1>1, <1>2
<1>5. \A s \in Submits : seen[c][s] \in L!Shown(s)
  BY ToldIsShown DEF LInv, Truthful
<1>6. ASSUME NEW s \in Submits
      PROVE  IF s \in neu[c]
             THEN /\ verdict'[s] \in L!Shown(s)
                  /\ LockTrusted => tag'[s] >= bindGen
             ELSE verdict'[s] = verdict[s] /\ tag'[s] = tag[s]
  <2>1. /\ verdict'[s] = IF s \in neu[c] THEN seen[c][s] ELSE verdict[s]
        /\ tag'[s] = IF s \in neu[c] THEN g[c] ELSE tag[s]
    BY <1>1
  <2> QED BY <2>1, <1>3, <1>5
<1>7. acCnt' = acCnt + Cardinality({s \in neu[c] : verdict'[s] = "ac"})
  BY <1>1, <1>4
<1>8. L!Add(neu[c])
  BY <1>1, <1>6, <1>7, SameCount DEF L!Add
<1> QED BY <1>2, <1>8 DEF L!Next

\* What a deletion that is not disturbed leaves: nothing; a disturbed one
\* leaves what was imported meanwhile.
LEMMA LedgerEmpty ==
  ASSUME LInv, CommitDeletion, LockTrusted => ex = "commit"
  PROVE  L!Empty
<1>1. /\ stored' = stored \ gone.rows
      /\ verdict' = [s \in Submits |-> IF s \in gone.rows THEN "pending" ELSE verdict[s]]
      /\ tag' = [s \in Submits |-> IF s \in gone.rows THEN 0 ELSE tag[s]]
      /\ submitCnt' = submitCnt - gone.total /\ acCnt' = acCnt - gone.accepted
  BY DEF CommitDeletion
<1>t. /\ gone \in [rows : SUBSET Submits, contests : SUBSET Accounts, total : Nat,
                   accepted : Nat, mark : Nat \cup {NoMark}]
      /\ submitCnt \in Nat /\ acCnt \in Nat
      /\ gone.total <= submitCnt /\ gone.accepted <= acCnt
  BY DEF LInv, IInv, TypeInv, BaseInv, TypeOK, GoneBounded
<1>2. submitCnt' \in 0..submitCnt /\ acCnt' \in 0..acCnt
  BY <1>1, <1>t
<1>3. LockTrusted => stored' = {} /\ submitCnt' = 0 /\ acCnt' = 0
  BY <1>1, <1>t DEF LInv, IInv, DeletesAll
<1>4. ASSUME NEW s \in Submits
      PROVE  IF s \in stored' THEN verdict'[s] = verdict[s] /\ tag'[s] = tag[s]
                              ELSE verdict'[s] = "pending" /\ tag'[s] = 0
  BY <1>1 DEF LInv, Blank
<1> QED BY <1>1, <1>2, <1>3, <1>4 DEF L!Empty

LEMMA LedgerNext ==
  ASSUME LInv, [Next]_vars
  PROVE  [L!Next]_(L!vars)
<1>1. ASSUME UNCHANGED <<binding, stored, verdict, tag, submitCnt, acCnt, repair, bindGen>>
      PROVE  UNCHANGED L!vars
  BY <1>1 DEF L!vars
<1>2. ASSUME NEW c \in Crawlers, FinishImport(c)
      PROVE  L!Next \/ UNCHANGED L!vars
  <2>1. /\ UNCHANGED <<binding, stored, verdict, tag, submitCnt, acCnt, bindGen>>
        /\ pc[c] = "repair" /\ repair' \in {repair, g[c]}
    BY <1>2 DEF FinishImport, rows, maint
  <2>2. CASE repair' = repair
    BY <1>1, <2>1, <2>2
  <2>3. CASE repair' = g[c]
    <3>1. g[c] \in Nat /\ (LockTrusted => g[c] >= bindGen)
      BY <2>1 DEF LInv, IInv, TypeInv, BaseInv, TypeOK, CheckedIsFresh
    <3>2. L!MarkComplete
      BY <2>1, <2>3, <3>1 DEF L!MarkComplete
    <3> QED BY <3>2 DEF L!Next
  <2> QED BY <2>1, <2>2, <2>3
<1>3. ASSUME NEW c \in Crawlers, CrawlerStep(c)
      PROVE  L!Next \/ UNCHANGED L!vars
  <2>1. CASE RefreshVerdict(c)
    BY <2>1, LedgerRefresh
  <2>2. CASE InsertRows(c)
    BY <2>2, LedgerInsert
  <2>3. CASE FinishImport(c)
    BY <2>3, <1>2
  <2>4. CASE ~RefreshVerdict(c) /\ ~InsertRows(c) /\ ~FinishImport(c)
    BY <1>1, <1>3, <2>4
    DEF CrawlerStep, LoadRow, FetchRating, ReadGeneration, Fetch, FetchFails, AcquireLock,
        LockTimeout, CheckGeneration, DiscardStale, ReadExisting, FilterNew, ImportFails,
        SaveContests, CrawlerCrash, db, rows, maint
  <2> QED BY <2>1, <2>2, <2>3, <2>4
<1>4. CASE CommitRebind
  <2>1. intent \in Accounts /\ exGen \in Nat /\ (LockTrusted => exGen > bindGen)
    BY <1>4 DEF CommitRebind, LInv, IInv, TypeInv, BaseInv, TypeOK, HasIntent, RebindAhead
  <2>2. CommitDeletion
    BY <1>4 DEF CommitRebind
  <2>3. L!Empty
    BY <1>4, <2>2, LedgerEmpty DEF CommitRebind
  <2>4. repair' \in {repair, -1} /\ (LockTrusted => repair' = -1)
    BY <1>4 DEF CommitRebind, LInv, IInv, DeletesAll, NoMark
  <2>5. L!Rebind(intent)
    BY <1>4, <2>1, <2>3, <2>4 DEF CommitRebind, L!Rebind
  <2> QED BY <2>1, <2>5 DEF L!Next
<1>5. CASE CommitPurge
  <2>1. CommitDeletion /\ ~LockTrusted
    BY <1>5 DEF CommitPurge, LockTrusted, LInv, IInv, PurgeOff
  <2>2. L!Empty
    BY <2>1, LedgerEmpty
  <2>3. L!Purge
    BY <1>5, <2>2 DEF CommitPurge, L!Purge, maint
  <2> QED BY <2>3 DEF L!Next
<1>6. CASE PurgeTruncates
  <2>1. submitCnt \in Nat /\ acCnt \in Nat
    BY DEF LInv, IInv, TypeInv, BaseInv, TypeOK
  <2>2. L!Purge
    BY <1>6, <2>1 DEF PurgeTruncates, L!Purge, L!Empty, NoVerdicts, maint
  <2> QED BY <2>2 DEF L!Next
<1>7. CASE \/ \E s \in Submits : Judge(s)
           \/ LockExpires
           \/ \E a \in Accounts : RequestRebind(a)
           \/ BumpGeneration \/ RebindLock \/ RebindDeletesRows \/ RebindDeletesCounts
           \/ RebindFails \/ RebinderCrash
           \/ PurgeDeletesRows \/ PurgeDeletesCounts \/ PurgeFails \/ PurgeCaches
           \/ UNCHANGED vars
  <2>1. UNCHANGED <<binding, stored, verdict, tag, submitCnt, acCnt, repair, bindGen>>
    BY <1>7 DEF Judge, LockExpires, RequestRebind, BumpGeneration, RebindLock, RebindDeletesRows,
       RebindDeletesCounts, RebindFails, RebinderCrash, PurgeDeletesRows, PurgeDeletesCounts,
       PurgeFails, PurgeCaches, vars, db, rows, maint
  <2> QED BY <1>1, <2>1
<1> QED BY <1>3, <1>4, <1>5, <1>6, <1>7 DEF Next, RebinderStep, PurgeStep

(* However many crawls overlap, fail or die, and however many of them work *)
(* from an old copy: a submission is counted by the transaction that       *)
(* stores it, its verdict is one that the judge has shown and changes only *)
(* from pending or from a WA that the platform corrects, and rows go only  *)
(* in the commit of a rebind or of a purge, all of them while the lock can *)
(* be trusted (saveSubmits, refreshExistingVerdicts,                       *)
(* deleteSpiderPlatformData, PurgeSubmitsAndRecrawl).                      *)
THEOREM ImplementsLedger == Spec => LedgerKept
<1>1. LInv /\ [Next]_vars => [L!Next]_(L!vars)
  BY LedgerNext
<1> QED
  BY <1>1, LedgerInit, LInvCorrect, PTL DEF Spec, LedgerKept, L!Spec

\* What a step may do to a stored row: its verdict is decided, or a WA that
\* the platform corrects becomes AC; only a committing deletion takes it.
RowAdvances(s) ==
  \/ verdict'[s] = verdict[s]
  \/ verdict[s] = "pending"
  \/ Correctable(s) /\ verdict[s] = "wa" /\ verdict'[s] = "ac"
RowKept(s) ==
  IF s \in stored' THEN RowAdvances(s) ELSE CommitRebind \/ CommitPurge \/ PurgeTruncates

(* No crawl takes a row away, an accepted verdict back, or a decided one   *)
(* back except a corrected WA, although a crawl that saw the submission    *)
(* still pending or still WA may import last, and although a batch may     *)
(* hold a row that was deleted and stored again since it was read          *)
(* (shouldRewriteFetchedStatus and the UPDATE's "status = <as read>").     *)
THEOREM DecidedStays == Spec => [][\A s \in stored : RowKept(s)]_vars
<1>1. ASSUME LInv, [Next]_vars, NEW s \in stored PROVE RowKept(s)
  <2>t. s \in Submits /\ verdict \in [Submits -> Verdicts]
    BY <1>1 DEF LInv, IInv, TypeInv, BaseInv, TypeOK
  <2>1. ASSUME NEW c \in Crawlers, CrawlerStep(c) PROVE RowKept(s)
    <3>1. CASE RefreshVerdict(c)
      <4>1. stored' = stored
        BY <3>1 DEF RefreshVerdict
      <4>3. CASE verdict'[s] = verdict[s]
        BY <4>1, <4>3 DEF RowKept, RowAdvances
      <4>4. CASE verdict'[s] # verdict[s]
        <5>1. StatusAsRead(c, s) /\ was[c][s] # NotRead /\ verdict'[s] = seen[c][s]
          BY <3>1, <4>4, <2>t DEF RefreshVerdict
        <5>2. Rewrites(verdict[s], seen[c][s]) /\ seen[c][s] \in Told(s)
          BY <1>1, <2>1, <2>t, <5>1 DEF StatusAsRead, LInv, AggInv, WasInv, Truthful
        <5> QED BY <4>1, <5>1, <5>2 DEF Rewrites, Told, Correctable, RowKept, RowAdvances
      <4> QED BY <4>3, <4>4
    <3>2. CASE InsertRows(c)
      <4>1. s \in stored' /\ verdict'[s] = verdict[s]
        BY <3>2, <2>t DEF InsertRows, NoDuplicate
      <4> QED BY <4>1 DEF RowKept, RowAdvances
    <3>3. CASE ~RefreshVerdict(c) /\ ~InsertRows(c)
      <4>1. UNCHANGED <<stored, verdict>>
        BY <2>1, <3>3
        DEF CrawlerStep, LoadRow, FetchRating, ReadGeneration, Fetch, FetchFails, AcquireLock,
            LockTimeout, CheckGeneration, DiscardStale, ReadExisting, FilterNew, FinishImport,
            ImportFails, SaveContests, CrawlerCrash, db, rows
      <4> QED BY <4>1 DEF RowKept, RowAdvances
    <3> QED BY <3>1, <3>2, <3>3
  <2>2. CASE CommitRebind \/ CommitPurge
    <3>1. /\ stored' = stored \ gone.rows
          /\ verdict'[s] = IF s \in gone.rows THEN "pending" ELSE verdict[s]
      BY <2>2, <2>t DEF CommitRebind, CommitPurge, CommitDeletion
    <3> QED BY <2>2, <3>1 DEF RowKept, RowAdvances
  <2>3. CASE PurgeTruncates
    <3>1. s \notin stored'
      BY <2>3 DEF PurgeTruncates
    <3> QED BY <2>3, <3>1 DEF RowKept
  <2>4. CASE \/ \E r \in Submits : Judge(r)
             \/ LockExpires
             \/ \E a \in Accounts : RequestRebind(a)
             \/ BumpGeneration \/ RebindLock \/ RebindDeletesRows \/ RebindDeletesCounts
             \/ RebindFails \/ RebinderCrash
             \/ PurgeDeletesRows \/ PurgeDeletesCounts \/ PurgeFails \/ PurgeCaches
             \/ UNCHANGED vars
    <3>1. UNCHANGED <<stored, verdict>>
      BY <2>4 DEF Judge, LockExpires, RequestRebind, BumpGeneration, RebindLock, RebindDeletesRows,
         RebindDeletesCounts, RebindFails, RebinderCrash, PurgeDeletesRows, PurgeDeletesCounts,
         PurgeFails, PurgeCaches, vars, db, rows
    <3> QED BY <3>1 DEF RowKept, RowAdvances
  <2> QED BY <1>1, <2>1, <2>2, <2>3, <2>4 DEF Next, RebinderStep, PurgeStep
<1>2. LInv /\ [Next]_vars => [\A s \in stored : RowKept(s)]_vars
  BY <1>1
<1> QED
  BY <1>2, LInvCorrect, PTL DEF Spec
=============================================================================
