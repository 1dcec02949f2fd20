-------------------------- MODULE ClientSyncProofs --------------------------
(***************************************************************************)
(* Theorems about ClientSync: the state is well-formed, a stale cache is   *)
(* owed by a receipt, the checkpoint of a founded binding hides nothing,   *)
(* and the count a session reports is what its pages inserted.             *)
(***************************************************************************)
EXTENDS ClientSync, FiniteSetTheorems, WellFoundedInduction, TLAPS

------------------------------------------------------------------------------
(* Types *)

LEMMA LessIsWellFounded ==
  \E R : IsWellFoundedOn(R, Nat) /\ \A x, y \in Nat : x < y => <<x, y>> \in R
<1>1. \A x, y \in Nat : x < y => <<x, y>> \in OpToRel(<, Nat)
  BY Zenon DEF OpToRel
<1> QED
  BY <1>1, NatLessThanWellFounded, Zenon

LEMMA HasLeast ==
  ASSUME NEW T, T \subseteq Nat, T # {}
  PROVE  \E x \in T : \A y \in T : x <= y
<1>1. PICK R : IsWellFoundedOn(R, Nat) /\ \A x, y \in Nat : x < y => <<x, y>> \in R
  BY LessIsWellFounded
<1>2. IsWellFoundedOn(R, Nat)
  BY <1>1
<1>3. PICK x \in T : \A y \in T : ~(<<y, x>> \in R)
  BY <1>2, WFMin, Zenon
<1>4. ASSUME NEW y \in T PROVE ~(y < x)
  BY <1>1, <1>3
<1> QED
  BY <1>3, <1>4

LEMMA HasLargest ==
  ASSUME NEW S \in SUBSET (1..MaxTop), S # {}
  PROVE  \E i \in S : \A j \in S : j <= i
<1> DEFINE T == {MaxTop - i : i \in S}
<1>1. MaxTop \in Nat
  BY SyncConstants
<1>2. \A i \in S : i \in 1..MaxTop /\ MaxTop - i \in Nat
  BY <1>1
<1>3. T \subseteq Nat /\ T # {}
  BY <1>2
<1>4. PICK x \in T : \A y \in T : x <= y
  BY <1>3, HasLeast, Zenon
<1>5. PICK i \in S : x = MaxTop - i
  OBVIOUS
<1>6. \A j \in S : MaxTop - i <= MaxTop - j
  BY <1>4, <1>5
<1> QED
  BY <1>1, <1>2, <1>6

LEMMA Bounds ==
  /\ PerPage \in Nat \ {0}
  /\ InitialTop \in Nat /\ MaxTop \in Nat /\ InitialTop <= MaxTop
  /\ MaxRestarts \in Nat /\ MaxRebinds \in Nat /\ MaxFaults \in Nat
BY SyncConstants

LEMMA InferredType ==
  ASSUME TypeOK
  PROVE  InferredCheckpoint \in 0..MaxTop
<1>1. CASE site = "LuoGu" /\ rows # {}
  <2>1. rows \in SUBSET (1..MaxTop)
    BY DEF TypeOK
  <2>2. \E i \in rows : \A j \in rows : j <= i
    BY <1>1, <2>1, HasLargest
  <2>3. InferredCheckpoint = CHOOSE i \in rows : \A j \in rows : j <= i
    BY <1>1 DEF InferredCheckpoint
  <2>4. InferredCheckpoint \in rows
    BY <2>2, <2>3, Zenon
  <2> QED
    BY <2>1, <2>4, Bounds
<1>2. CASE ~(site = "LuoGu" /\ rows # {})
  BY <1>2, Bounds DEF InferredCheckpoint
<1> QED
  BY <1>1, <1>2

LEMMA NoStateType == NoState \in State
BY Bounds DEF NoState, State, Pages

LEMMA StartedType ==
  ASSUME NEW st \in State, NEW old \in 0..MaxTop, NEW g \in Nat
  PROVE  [st EXCEPT !.old = old, !.gen = g] \in State
BY DEF State

LEMMA ResetType ==
  ASSUME NEW st \in State, NEW c \in -1..MaxTop
  PROVE  [st EXCEPT !.first = 0, !.count = c, !.last = 0, !.done = FALSE] \in State
<1>1. 0 \in 0..MaxTop
  BY Bounds
<1>2. [st EXCEPT !.first = 0] \in State
  BY <1>1 DEF State
<1>3. \A x \in State : [x EXCEPT !.count = c] \in State
  BY DEF State
<1>4. \A x \in State : [x EXCEPT !.last = 0] \in State
  BY DEF State
<1>5. \A x \in State : [x EXCEPT !.done = FALSE] \in State
  BY DEF State
<1>6. [st EXCEPT !.first = 0, !.count = c, !.last = 0, !.done = FALSE]
      = [[[[st EXCEPT !.first = 0] EXCEPT !.count = c] EXCEPT !.last = 0] EXCEPT !.done = FALSE]
  BY DEF State
<1> QED
  BY <1>2, <1>3, <1>4, <1>5, <1>6

LEMMA PageCounts ==
  ASSUME NEW p, NEW t \in Nat, NEW S
  PROVE  Cardinality(PageIds(p, t) \ S) \in Nat
<1>1. IsFiniteSet(1..t)
  BY FS_Interval
<1>2. (PageIds(p, t) \ S) \in SUBSET (1..t)
  BY DEF PageIds
<1> QED
  BY <1>1, <1>2, FS_Subset, FS_CardinalityType, Zenon

LEMMA ImportedType ==
  ASSUME NEW st \in State, NEW r \in Receipt
  PROVE  Imported(st, r) \in State
<1>1. /\ r.page + 1 \in Pages \cup {MaxTop + 2} /\ r.page \in {0} \cup Pages
      /\ r.first \in 0..MaxTop /\ r.count \in -1..MaxTop /\ r.ins \in Nat /\ r.done \in BOOLEAN
  BY Bounds DEF Receipt, Pages
<1> QED
  BY <1>1 DEF Imported, State

LEMMA BusyWork ==
  ASSUME TypeOK, NEW h \in Handler, work[h] # Idle
  PROVE  work[h] \in Work
BY DEF TypeOK

LEMMA StepWork ==
  ASSUME NEW w \in Work, NEW st \in State,
         NEW next \in {"store", "restart"}, NEW pc \in {"effects", "store", "restart"}
  PROVE  /\ [w EXCEPT !.pc = pc, !.st = st, !.next = next] \in Work
         /\ [w EXCEPT !.pc = pc, !.st = st] \in Work
         /\ [w EXCEPT !.pc = pc] \in Work
BY DEF Work

\* What a commit that inserts n rows makes of receipt r, whatever is pending.
Writes(h, n, r) ==
  /\ r = [scan |-> work[h].st.restarts, page |-> work[h].page, count |-> work[h].top,
          ins |-> work[h].st.ins + n, new |-> n,
          first |-> FirstOf(work[h]), done |-> Completes(work[h]), applied |-> r.applied]
  /\ r.applied \in BOOLEAN
  /\ r.applied => PageIds(work[h].page, work[h].top) \ rows = {}
  /\ receipts' = [receipts EXCEPT ![work[h].s] = @ \cup {r}]
  /\ work' = [work EXCEPT ![h] =
                [work[h] EXCEPT !.pc = "effects", !.st = Imported(work[h].st, r)]]

LEMMA CommitReceipt ==
  ASSUME NEW h \in Handler, Commit(h),
         NEW n, n = Cardinality(PageIds(work[h].page, work[h].top) \ rows)
  PROVE  \E r : Writes(h, n, r)
<1> DEFINE new == PageIds(work[h].page, work[h].top) \ rows
           r(pending) == [scan |-> work[h].st.restarts, page |-> work[h].page,
                          count |-> work[h].top, ins |-> work[h].st.ins + n, new |-> n,
                          first |-> FirstOf(work[h]), done |-> Completes(work[h]),
                          applied |-> new = {} /\ ~pending]
<1>1. PICK pending \in BOOLEAN :
        /\ receipts' = [receipts EXCEPT ![work[h].s] = @ \cup {r(pending)}]
        /\ work' = [work EXCEPT ![h] =
                      [work[h] EXCEPT !.pc = "effects", !.st = Imported(work[h].st, r(pending))]]
  BY DEF Commit
<1>2. r(pending).applied \in BOOLEAN /\ (r(pending).applied => new = {})
  OBVIOUS
<1>3. Writes(h, n, r(pending))
  BY <1>1, <1>2 DEF Writes
<1> QED
  BY <1>3

LEMMA TypeInit == Init => TypeOK
<1> SUFFICES ASSUME Init PROVE TypeOK
  OBVIOUS
<1>1. /\ sess \in [Session -> State] /\ receipts \in [Session -> SUBSET Receipt]
      /\ inserted \in [Session -> Nat] /\ work \in [Handler -> {Idle} \cup Work]
      /\ status \in [Session -> {"new", "live", "gone"}]
      /\ lock \in [Session -> Handler \cup {Nobody}]
  BY NoStateType DEF Init
<1>2. /\ site \in Sites /\ top \in 0..MaxTop /\ head \in 0..MaxTop /\ gen \in 0..MaxRebinds
      /\ faults \in 0..MaxFaults
  BY Bounds DEF Init
<1>3. rows \subseteq 1..MaxTop
  BY DEF Init
<1>4. /\ rebinding \in BOOLEAN /\ stale \subseteq {"rows", "verdicts"} /\ unfounded \in BOOLEAN
      /\ active \in Session \cup {Nobody}
  BY DEF Init
<1> QED
  BY <1>1, <1>2, <1>3, <1>4 DEF TypeOK

LEMMA TypeStep == TypeOK /\ [Next]_vars => TypeOK'
<1> SUFFICES ASSUME TypeOK, [Next]_vars
             PROVE  TypeOK'
  OBVIOUS
<1> USE Bounds DEF sql, redis
<1>1. CASE NewSubmission
  BY <1>1 DEF NewSubmission, TypeOK
<1>2. CASE RebindBumps
  BY <1>2 DEF RebindBumps, Fault, TypeOK
<1>3. CASE RebindCommits
  <2>1. rows' \subseteq 1..MaxTop /\ head' \in 0..MaxTop
    BY <1>3 DEF RebindCommits
  <2> QED
    BY <1>3, <2>1 DEF RebindCommits, TypeOK
<1>4. ASSUME NEW s \in Session, Start(s)
      PROVE  TypeOK'
  <2>1. PICK old \in 0..MaxTop :
          /\ sess' = [sess EXCEPT ![s] = [NoState EXCEPT !.old = old, !.gen = gen]]
          /\ unfounded' \in BOOLEAN
    <3> DEFINE o == IF head # 0 THEN head ELSE InferredCheckpoint
    <3>1. o \in 0..MaxTop
      BY InferredType DEF TypeOK
    <3> QED
      BY <3>1, <1>4 DEF Start
  <2>2. [NoState EXCEPT !.old = old, !.gen = gen] \in State
    <3>1. gen \in Nat /\ 1 \in Pages \cup {MaxTop + 2} /\ -1 \in -1..MaxTop
      BY DEF Pages, TypeOK
    <3> QED
      BY <3>1, NoStateType, StartedType
  <2> QED
    BY <1>4, <2>1, <2>2 DEF Start, TypeOK
<1>5. ASSUME NEW s \in Session, Terminate(s), UNCHANGED <<site, top, gen, rebinding, sql, stale, unfounded, faults>>,
             work' \in [Handler -> {Idle} \cup Work]
      PROVE  TypeOK'
  BY <1>5, NoStateType DEF Terminate, TypeOK
<1>6. ASSUME NEW s \in Session, SessionStale(s) \/ Replace(s)
      PROVE  TypeOK'
  BY <1>6, <1>5 DEF SessionStale, Replace, TypeOK
<1>7. ASSUME NEW h \in Handler, ImportStale(h) \/ RestartExhausted(h)
      PROVE  TypeOK'
  <2>1. work[h] \in Work
    BY <1>7, BusyWork DEF ImportStale, RestartExhausted, Idle
  <2>2. work[h].s \in Session
    BY <2>1 DEF Work
  <2>3. work' \in [Handler -> {Idle} \cup Work]
    BY <1>7 DEF ImportStale, RestartExhausted, TypeOK
  <2> QED
    BY <1>7, <1>5, <2>2, <2>3 DEF ImportStale, RestartExhausted
<1>8. ASSUME NEW s \in Session, Expire(s)
      PROVE  TypeOK'
  BY <1>8, NoStateType DEF Expire, TypeOK
<1>9. ASSUME NEW h \in Handler, NEW s \in Session, NEW p \in Pages, NEW t \in InitialTop..top,
             Upload(h, s, p, t)
      PROVE  TypeOK'
  <2>1. Decision(sess[s], p, t) \in {"answer", "restart", "import"}
    BY DEF Decision
  <2>3. t \in 0..MaxTop
    BY DEF TypeOK
  <2>2. [pc |-> Decision(sess[s], p, t), s |-> s, page |-> p, top |-> t, st |-> sess[s],
         next |-> "store"] \in Work
    BY <1>9, <2>1, <2>3 DEF Upload, Work, TypeOK
  <2> QED
    BY <1>9, <2>2 DEF Upload, TypeOK
<1>10. ASSUME NEW h \in Handler, Replay(h)
       PROVE  TypeOK'
  <2>1. work[h] \in Work
    BY <1>10, BusyWork DEF Replay, Idle
  <2>2. PICK r \in ReceiptsOf(work[h].s, work[h].st.restarts, work[h].page) :
          work' = [work EXCEPT ![h] = [work[h] EXCEPT
            !.pc = "effects", !.st = Imported(work[h].st, r),
            !.next = IF r.count = work[h].top THEN "store" ELSE "restart"]]
    BY <1>10 DEF Replay
  <2>3. r \in Receipt /\ work[h].st \in State
    BY <2>1 DEF ReceiptsOf, Work, TypeOK
  <2>4. work'[h] \in Work
    BY <2>1, <2>2, <2>3, ImportedType, StepWork DEF TypeOK
  <2> QED
    BY <1>10, <2>2, <2>4 DEF Replay, TypeOK
<1>11. ASSUME NEW h \in Handler, Commit(h)
       PROVE  TypeOK'
  <2>1. work[h] \in Work
    BY <1>11, BusyWork DEF Commit, Fresh, Idle
  <2>2. /\ work[h].s \in Session /\ work[h].page \in Pages
        /\ work[h].top \in 0..MaxTop /\ work[h].st \in State
    BY <2>1 DEF Work
  <2>3. PICK n : n = Cardinality(PageIds(work[h].page, work[h].top) \ rows)
    OBVIOUS
  <2>c. PICK r : Writes(h, n, r)
    BY <1>11, <2>3, CommitReceipt
  <2>a. /\ r = [scan |-> work[h].st.restarts, page |-> work[h].page, count |-> work[h].top,
                ins |-> work[h].st.ins + n, new |-> n,
                first |-> FirstOf(work[h]), done |-> Completes(work[h]), applied |-> r.applied]
        /\ r.applied \in BOOLEAN
        /\ receipts' = [receipts EXCEPT ![work[h].s] = @ \cup {r}]
        /\ work' = [work EXCEPT ![h] =
                      [work[h] EXCEPT !.pc = "effects", !.st = Imported(work[h].st, r)]]
    BY <2>c DEF Writes
  <2>b. /\ rows' = rows \cup (PageIds(work[h].page, work[h].top) \ rows)
        /\ head' = IF r.done THEN r.first ELSE head
        /\ inserted' = [inserted EXCEPT ![work[h].s] = @ + n]
        /\ stale' \subseteq {"rows", "verdicts"}
        /\ unfounded' \in BOOLEAN
    <3>1. r.done = Completes(work[h]) /\ r.first = FirstOf(work[h])
      BY <2>a
    <3> QED
      BY <1>11, <2>3, <3>1 DEF Commit, TypeOK
  <2>4. n \in Nat
    <3>1. work[h].top \in Nat
      BY <2>2
    <3> QED
      BY <3>1, <2>3, PageCounts
  <2>5. FirstOf(work[h]) \in 0..MaxTop
    BY <2>2 DEF FirstOf, State
  <2>6. Completes(work[h]) \in BOOLEAN
    BY DEF Completes
  <2>7. r \in Receipt
    BY <2>2, <2>a, <2>4, <2>5, <2>6 DEF Receipt, State
  <2>8. work'[h] \in Work
    BY <2>1, <2>2, <2>a, <2>7, ImportedType, StepWork DEF TypeOK
  <2>9. rows' \subseteq 1..MaxTop
    <3>1. PageIds(work[h].page, work[h].top) \subseteq 1..MaxTop
      BY <2>2 DEF PageIds
    <3> QED
      BY <3>1, <2>b DEF TypeOK
  <2>10. head' \in 0..MaxTop
    BY <2>a, <2>b, <2>5 DEF TypeOK
  <2>11. receipts' \in [Session -> SUBSET Receipt] /\ inserted' \in [Session -> Nat]
    <3>1. inserted[work[h].s] + n \in Nat
      BY <2>2, <2>4 DEF TypeOK
    <3>2. receipts[work[h].s] \cup {r} \in SUBSET Receipt
      BY <2>2, <2>7 DEF TypeOK
    <3> QED
      BY <3>1, <3>2, <2>a, <2>b DEF TypeOK
  <2>12. work' \in [Handler -> {Idle} \cup Work]
    BY <2>a, <2>8 DEF TypeOK
  <2> QED
    BY <1>11, <2>b, <2>9, <2>10, <2>11, <2>12 DEF Commit, TypeOK
<1>12. ASSUME NEW s \in Session, NEW r \in receipts[s], Applied(s, r)
       PROVE  receipts' \in [Session -> SUBSET Receipt] /\ stale' \subseteq {"rows", "verdicts"}
  <2>1. r \in Receipt
    BY <1>12 DEF TypeOK
  <2>2. [r EXCEPT !.applied = TRUE] \in Receipt
    BY <2>1 DEF Receipt
  <2>3. r.applied \in BOOLEAN
    BY <2>1 DEF Receipt
  <2> QED
    BY <1>12, <2>1, <2>2, <2>3 DEF Applied, TypeOK
<1>13. ASSUME NEW h \in Handler, Effects(h)
       PROVE  TypeOK'
  <2>1. work[h] \in Work
    BY <1>13, BusyWork DEF Effects, Idle
  <2>2. receipts' \in [Session -> SUBSET Receipt] /\ stale' \subseteq {"rows", "verdicts"}
    BY <1>13, <1>12, <2>1 DEF Effects, ReceiptsOf, Work, TypeOK
  <2>3. [work[h] EXCEPT !.pc = work[h].next] \in Work
    BY <2>1 DEF Work
  <2>4. work' \in [Handler -> {Idle} \cup Work]
    BY <1>13, <2>3 DEF Effects, TypeOK
  <2> QED
    BY <1>13, <2>2, <2>4 DEF Effects, TypeOK
<1>14. ASSUME NEW h \in Handler, Store(h)
       PROVE  TypeOK'
  <2>1. work[h] \in Work
    BY <1>14, BusyWork DEF Store, Idle
  <2>2. work[h].s \in Session /\ work[h].st \in State
    BY <2>1 DEF Work
  <2> QED
    BY <1>14, <2>2 DEF Store, Stored, Unlocked, TypeOK
<1>15. ASSUME NEW h \in Handler, Restart(h)
       PROVE  TypeOK'
  <2>1. work[h] \in Work
    BY <1>15, BusyWork DEF Restart, Idle
  <2>2. work[h].s \in Session /\ work[h].st \in State /\ work[h].top \in 0..MaxTop
    BY <2>1 DEF Work
  <2>3. [work[h].st EXCEPT !.restarts = @ + 1, !.exp = 1, !.first = 0,
                           !.count = work[h].top, !.last = 0, !.done = FALSE] \in State
    <3>1. work[h].st.restarts + 1 \in 0..MaxRestarts
      BY <1>15, <2>2 DEF Restart, MayRestart, State
    <3>2. 1 \in Pages \cup {MaxTop + 2} /\ 0 \in {0} \cup Pages /\ work[h].top \in -1..MaxTop
      BY <2>2 DEF Pages
    <3>3. [work[h].st EXCEPT !.restarts = @ + 1, !.exp = 1] \in State
      BY <2>2, <3>1, <3>2 DEF State
    <3>4. [[work[h].st EXCEPT !.restarts = @ + 1, !.exp = 1] EXCEPT
             !.first = 0, !.count = work[h].top, !.last = 0, !.done = FALSE] \in State
      BY <3>2, <3>3, ResetType
    <3>5. [work[h].st EXCEPT !.restarts = @ + 1, !.exp = 1, !.first = 0, !.count = work[h].top,
                             !.last = 0, !.done = FALSE]
          = [[work[h].st EXCEPT !.restarts = @ + 1, !.exp = 1] EXCEPT
               !.first = 0, !.count = work[h].top, !.last = 0, !.done = FALSE]
      BY <2>2 DEF State
    <3> QED
      BY <3>4, <3>5
  <2> QED
    BY <1>15, <2>2, <2>3 DEF Restart, Stored, Unlocked, TypeOK
<1>16. ASSUME NEW h \in Handler, Fails(h) \/ Crashes(h)
       PROVE  TypeOK'
  <2>1. work' \in [Handler -> {Idle} \cup Work] /\ faults' \in 0..MaxFaults
    BY <1>16 DEF Fails, Crashes, Fault, TypeOK
  <2>2. lock' \in [Session -> Handler \cup {Nobody}]
    BY <1>16 DEF Fails, Crashes, Unlocked, TypeOK
  <2> QED
    BY <1>16, <2>1, <2>2 DEF Fails, Crashes, TypeOK
<1>17. ASSUME NEW s \in Session, LockExpires(s)
       PROVE  TypeOK'
  BY <1>17 DEF LockExpires, Fault, TypeOK
<1>18. ASSUME NEW s \in Session, NEW r \in receipts[s], ReplayEffects(s, r)
       PROVE  TypeOK'
  BY <1>18, <1>12 DEF ReplayEffects, TypeOK
<1>19. ASSUME NEW s \in Session, CleanReceipts(s)
       PROVE  TypeOK'
  BY <1>19 DEF CleanReceipts, TypeOK
<1>20. CASE UNCHANGED vars
  BY <1>20 DEF vars, TypeOK
<1>21. ASSUME NEW h \in Handler, RefreshVerdicts(h)
       PROVE  TypeOK'
  BY <1>21 DEF RefreshVerdicts, TypeOK
<1> QED
  BY <1>1, <1>2, <1>3, <1>4, <1>6, <1>7, <1>8, <1>9, <1>10, <1>11, <1>13, <1>14, <1>15,
     <1>16, <1>17, <1>18, <1>19, <1>20, <1>21 DEF Next, Browser, Serve

\* The state is well-formed for every number of sessions, handlers, restarts
\* and submissions.
THEOREM TypeCorrect == Spec => []TypeOK
BY TypeInit, TypeStep, PTL DEF Spec

------------------------------------------------------------------------------
(* A stale cache is owed *)

LEMMA OwedStep == TypeOK /\ StaleCacheIsOwed /\ [Next]_vars => StaleCacheIsOwed'
<1> SUFFICES ASSUME TypeOK, StaleCacheIsOwed, [Next]_vars
             PROVE  StaleCacheIsOwed'
  OBVIOUS
<1> USE DEF sql, redis
<1>1. ASSUME UNCHANGED <<stale, receipts>>
      PROVE  StaleCacheIsOwed'
  BY <1>1 DEF StaleCacheIsOwed
<1>2. ASSUME NEW s \in Session, NEW r \in receipts[s], Applied(s, r)
      PROVE  StaleCacheIsOwed'
  <2>1. SUFFICES ASSUME "rows" \in stale, r.applied
                 PROVE  StaleCacheIsOwed'
    BY <1>2 DEF Applied, StaleCacheIsOwed
  <2>2. PICK t \in Session : \E q \in receipts[t] : ~q.applied
    BY <2>1 DEF StaleCacheIsOwed
  <2>3. PICK q \in receipts[t] : ~q.applied
    BY <2>2
  <2>4. q \in receipts'[t]
    BY <1>2, <2>1, <2>3 DEF Applied, TypeOK
  <2> QED
    BY <2>3, <2>4 DEF StaleCacheIsOwed
<1>3. ASSUME NEW h \in Handler, Commit(h)
      PROVE  StaleCacheIsOwed'
  <2>1. work[h].s \in Session
    BY <1>3, BusyWork DEF Commit, Fresh, Idle, Work
  <2> DEFINE New == PageIds(work[h].page, work[h].top) \ rows
  <2>7. PICK n : n = Cardinality(New)
    OBVIOUS
  <2>8. PICK r : Writes(h, n, r)
    BY <1>3, <2>7, CommitReceipt
  <2>2. /\ r.applied => New = {}
        /\ receipts' = [receipts EXCEPT ![work[h].s] = @ \cup {r}]
        /\ "rows" \in stale' => "rows" \in stale \/ New # {}
    BY <1>3, <2>8 DEF Commit, Writes
  <2>3. receipts'[work[h].s] = receipts[work[h].s] \cup {r}
    BY <2>1, <2>2 DEF TypeOK
  <2>4. \A t \in Session : receipts[t] \subseteq receipts'[t]
    BY <2>1, <2>2 DEF TypeOK
  <2>5. CASE "rows" \in stale
    BY <2>4, <2>5 DEF StaleCacheIsOwed
  <2>6. CASE New # {}
    BY <2>1, <2>2, <2>3, <2>6 DEF StaleCacheIsOwed
  <2> QED
    BY <2>2, <2>5, <2>6 DEF StaleCacheIsOwed
<1>4. ASSUME NEW h \in Handler, Effects(h)
      PROVE  StaleCacheIsOwed'
  <2>1. work[h].s \in Session
    BY <1>4, BusyWork DEF Effects, Idle, Work
  <2> QED
    BY <1>4, <1>1, <1>2, <2>1 DEF Effects, ReceiptsOf
<1>5. ASSUME NEW s \in Session, CleanReceipts(s)
      PROVE  StaleCacheIsOwed'
  <2>1. \A t \in Session : \A q \in receipts[t] : ~q.applied => q \in receipts'[t]
    BY <1>5 DEF CleanReceipts, TypeOK
  <2> QED
    BY <1>5, <2>1 DEF CleanReceipts, StaleCacheIsOwed
<1>6. CASE NewSubmission \/ RebindBumps \/ RebindCommits
  BY <1>1, <1>6 DEF NewSubmission, RebindBumps, RebindCommits
<1>7. ASSUME NEW s \in Session, Start(s)
      PROVE  StaleCacheIsOwed'
  <2>1. UNCHANGED <<stale, receipts>>
    BY <1>7 DEF Start
  <2> QED
    BY <1>1, <2>1
<1>8. ASSUME NEW s \in Session,
             SessionStale(s) \/ Replace(s) \/ Expire(s) \/ LockExpires(s)
      PROVE  StaleCacheIsOwed'
  BY <1>1, <1>8 DEF SessionStale, Replace, Expire, LockExpires
<1>9. ASSUME NEW h \in Handler, ImportStale(h) \/ Replay(h) \/ Store(h) \/ Restart(h)
               \/ RestartExhausted(h) \/ Fails(h) \/ Crashes(h)
      PROVE  StaleCacheIsOwed'
  BY <1>1, <1>9 DEF ImportStale, Replay, Store, Restart, RestartExhausted, Fails, Crashes
<1>10. ASSUME NEW h \in Handler, NEW s \in Session, NEW p \in Pages, NEW t \in InitialTop..top,
              Upload(h, s, p, t)
       PROVE  StaleCacheIsOwed'
  BY <1>1, <1>10 DEF Upload
<1>11. ASSUME NEW s \in Session, NEW r \in receipts[s], ReplayEffects(s, r)
       PROVE  StaleCacheIsOwed'
  BY <1>2, <1>11 DEF ReplayEffects
<1>12. CASE UNCHANGED vars
  BY <1>1, <1>12 DEF vars
<1>13. ASSUME NEW h \in Handler, RefreshVerdicts(h)
       PROVE  StaleCacheIsOwed'
  BY <1>13 DEF RefreshVerdicts, StaleCacheIsOwed
<1> QED
  BY <1>3, <1>4, <1>5, <1>6, <1>7, <1>8, <1>9, <1>10, <1>11, <1>12, <1>13
     DEF Next, Browser, Serve

\* Whatever crashes between a page's transaction and the invalidation of the
\* user's caches, an unapplied receipt remains while a cache lacks stored rows.
THEOREM StaleCacheOwed == Spec => []StaleCacheIsOwed
<1>1. Init => StaleCacheIsOwed
  BY DEF Init, StaleCacheIsOwed
<1> QED
  BY <1>1, OwedStep, TypeCorrect, PTL DEF Spec

------------------------------------------------------------------------------
(* The checkpoint hides nothing *)

\* Everything above a and up to b is stored.
Span(a, b) == \A i \in 1..b : i > a => i \in rows

\* A copy of a session, wherever it is, that may still lead to a commit: it
\* was started on a settled binding, everything up to its old checkpoint is
\* stored, and so is everything its scan has passed.
Good(st) ==
  st.gen = gen /\ ~unfounded =>
    /\ ~rebinding
    /\ Span(0, st.old)
    /\ st.exp > 1 => Span(st.count - (st.exp - 1) * PerPage, st.first)

Sound(st) ==
  /\ st.gen <= gen
  /\ st.count <= top
  /\ st.exp = 1 => st.first = 0
  /\ Good(st)

\* A receipt of st's session that st's handler may replay.
Fits(r, st) ==
  st.gen = gen /\ ~unfounded => Span(r.count - r.page * PerPage, r.first)

Copies ==
  /\ \A s \in Session : status[s] = "live" => Sound(sess[s])
  /\ \A h \in Handler : work[h] # Idle =>
       /\ Sound(work[h].st)
       /\ work[h].top <= top
       /\ work[h].pc = "import" => work[h].page = work[h].st.exp

Stubs ==
  \A s \in Session : \A r \in receipts[s] :
    /\ r.count <= top
    /\ status[s] = "live" => Fits(r, sess[s])
    /\ \A h \in Handler : work[h] # Idle /\ work[h].s = s => Fits(r, work[h].st)

Untouched ==
  \A s \in Session : status[s] = "new" =>
    /\ receipts[s] = {}
    /\ \A h \in Handler : work[h] # Idle => work[h].s # s

Founded == Copies /\ Stubs /\ Untouched /\ CheckpointHidesNothing

\* Copies of a session that exist, and what steps make of them.
Copy(s, st) ==
  \/ status[s] = "live" /\ st = sess[s]
  \/ \E h \in Handler : work[h] # Idle /\ work[h].s = s /\ st = work[h].st

Calm ==
  /\ gen' = gen /\ rebinding' = rebinding
  /\ rows \subseteq rows' /\ top <= top'
  /\ unfounded => unfounded'

From(s, st) == Sound(st)' /\ \E c : Copy(s, c) /\ c.gen = st.gen

LEMMA SoundStays ==
  ASSUME TypeOK, TypeOK', Calm, NEW st \in State, Sound(st)
  PROVE  Sound(st)'
<1>1. st.count <= top'
  BY Bounds DEF Calm, Sound, State, TypeOK
<1>2. Good(st)'
  BY DEF Calm, Sound, Good, Span
<1> QED
  BY <1>1, <1>2 DEF Calm, Sound

LEMMA CopyType ==
  ASSUME TypeOK, NEW s \in Session, NEW st, Copy(s, st)
  PROVE  st \in State
BY BusyWork DEF Copy, TypeOK, Work

LEMMA CopyFrom ==
  ASSUME TypeOK, TypeOK', Founded, Calm, NEW s \in Session, NEW st, Copy(s, st)
  PROVE  From(s, st)
<1>1. Sound(st)
  BY DEF Founded, Copies, Copy
<1> QED
  BY <1>1, CopyType, SoundStays DEF From

LEMMA Inherit ==
  ASSUME TypeOK, TypeOK', Founded, Calm,
         \A s \in Session : \A st : status'[s] = "live" /\ st = sess'[s] => From(s, st),
         \A h \in Handler : \A w : w = work'[h] /\ w # Idle =>
           /\ From(w.s, w.st)
           /\ w.top <= top'
           /\ w.pc = "import" => w.page = w.st.exp,
         \A s \in Session : \A r \in receipts'[s] :
           \/ \E q \in receipts[s] : r.count = q.count /\ r.page = q.page /\ r.first = q.first
           \/ r.count <= top' /\ (~unfounded' => Span(r.count - r.page * PerPage, r.first)'),
         \A s \in Session : status'[s] = "new" =>
           /\ status[s] = "new" /\ receipts'[s] = {}
           /\ \A h \in Handler : work'[h] # Idle => work'[h].s # s
  PROVE  Copies' /\ Stubs' /\ Untouched'
<1>1. Copies'
  <2>1. ASSUME NEW s \in Session, status'[s] = "live" PROVE Sound(sess[s])'
    <3>1. PICK st : st = sess'[s]
      OBVIOUS
    <3>2. Sound(st)'
      BY <2>1, <3>1 DEF From
    <3> QED
      BY <3>1, <3>2 DEF Sound, Good
  <2>2. ASSUME NEW h \in Handler, work'[h] # Idle
        PROVE  /\ Sound(work[h].st)'
               /\ work'[h].top <= top'
               /\ work'[h].pc = "import" => work'[h].page = work'[h].st.exp
    <3>1. PICK w : w = work'[h]
      OBVIOUS
    <3>2. PICK st : st = w.st
      OBVIOUS
    <3>3. Sound(st)'
      BY <2>2, <3>1, <3>2 DEF From
    <3>4. Sound(work[h].st)'
      BY <3>1, <3>2, <3>3 DEF Sound, Good
    <3> QED
      BY <2>2, <3>1, <3>4
  <2> QED
    BY <2>1, <2>2 DEF Copies
<1>2. ASSUME NEW s \in Session, NEW r \in receipts'[s], NEW st, From(s, st)
      PROVE  r.count <= top' /\ Fits(r, st)'
  <2>1. PICK c : Copy(s, c) /\ c.gen = st.gen
    BY <1>2 DEF From
  <2>2. CASE r.count <= top' /\ (~unfounded' => Span(r.count - r.page * PerPage, r.first)')
    BY <2>2 DEF Fits
  <2>3. ASSUME NEW q \in receipts[s], r.count = q.count, r.page = q.page, r.first = q.first
        PROVE  r.count <= top' /\ Fits(r, st)'
    <3>1. Fits(q, c) /\ q.count <= top
      BY <2>1 DEF Copy, Founded, Stubs
    <3>2. q.count \in 0..MaxTop
      BY DEF TypeOK, Receipt
    <3>3. r.count <= top'
      BY <2>3, <3>1, <3>2, Bounds DEF Calm, TypeOK
    <3>4. Fits(r, st)'
      BY <2>1, <2>3, <3>1 DEF Fits, Calm, Span
    <3> QED
      BY <3>3, <3>4
  <2> QED
    BY <2>2, <2>3
<1>3. ASSUME NEW s \in Session, NEW r \in receipts'[s]
      PROVE  r.count <= top'
  <2>1. CASE r.count <= top'
    BY <2>1
  <2>2. CASE \E q \in receipts[s] : r.count = q.count
    <3>1. PICK q \in receipts[s] : r.count = q.count
      BY <2>2
    <3>2. q.count \in 0..MaxTop /\ q.count <= top
      BY DEF TypeOK, Receipt, Founded, Stubs
    <3> QED
      BY <3>1, <3>2, Bounds DEF Calm, TypeOK
  <2> QED
    BY <2>1, <2>2
<1>4. Stubs'
  <2>1. ASSUME NEW s \in Session, NEW r \in receipts'[s], status'[s] = "live"
        PROVE  Fits(r, sess[s])'
    <3>1. PICK st : st = sess'[s]
      OBVIOUS
    <3>2. Fits(r, st)'
      BY <1>2, <2>1, <3>1
    <3> QED
      BY <3>1, <3>2 DEF Fits
  <2>2. ASSUME NEW s \in Session, NEW r \in receipts'[s], NEW h \in Handler,
               work'[h] # Idle, work'[h].s = s
        PROVE  Fits(r, work[h].st)'
    <3>1. PICK st : st = work'[h].st
      OBVIOUS
    <3>2. From(s, st)
      BY <2>2, <3>1
    <3>3. Fits(r, st)'
      BY <1>2, <3>2
    <3> QED
      BY <3>1, <3>3 DEF Fits
  <2> QED
    BY <1>3, <2>1, <2>2 DEF Stubs
<1>5. Untouched'
  BY DEF Untouched
<1> QED
  BY <1>1, <1>4, <1>5

LEMMA HeadStays ==
  ASSUME TypeOK, Calm, CheckpointHidesNothing, head' = head
  PROVE  CheckpointHidesNothing'
BY DEF Calm, CheckpointHidesNothing, ScanComplete

\* Steps that make no new copy of a session and no new page of a receipt.
LEMMA Quiet ==
  ASSUME TypeOK, TypeOK', Founded, Calm, head' = head,
         \A s \in Session : status'[s] = "live" => status[s] = "live" /\ sess'[s] = sess[s],
         \A h \in Handler : work'[h] # Idle =>
           /\ work[h] # Idle
           /\ work'[h].s = work[h].s /\ work'[h].st = work[h].st /\ work'[h].top = work[h].top
           /\ work'[h].pc = "import" => work[h].pc = "import" /\ work'[h].page = work[h].page,
         \A s \in Session : \A r \in receipts'[s] :
           \E q \in receipts[s] : r.count = q.count /\ r.page = q.page /\ r.first = q.first,
         \A s \in Session : status'[s] = "new" => status[s] = "new"
  PROVE  Founded'
<1>1. ASSUME NEW s \in Session, NEW st, status'[s] = "live", st = sess'[s]
      PROVE  From(s, st)
  BY <1>1, CopyFrom DEF Copy
<1>2. ASSUME NEW h \in Handler, NEW w, w = work'[h], w # Idle
      PROVE  /\ From(w.s, w.st)
             /\ w.top <= top'
             /\ w.pc = "import" => w.page = w.st.exp
  <2>1. work[h] \in Work /\ work[h] # Idle
    BY <1>2, BusyWork
  <2>2. work[h].s \in Session /\ work[h].top \in 0..MaxTop
    BY <2>1 DEF Work
  <2>3. Copy(w.s, w.st)
    BY <1>2 DEF Copy
  <2>4. w.s \in Session
    BY <1>2, <2>2
  <2>5. From(w.s, w.st)
    BY <2>3, <2>4, CopyFrom
  <2>6. w.top <= top'
    BY <1>2, <2>1, <2>2, Bounds DEF Founded, Copies, Calm, TypeOK
  <2>7. w.pc = "import" => w.page = w.st.exp
    BY <1>2, <2>1 DEF Founded, Copies
  <2> QED
    BY <2>5, <2>6, <2>7
<1>3. ASSUME NEW s \in Session, status'[s] = "new"
      PROVE  /\ status[s] = "new" /\ receipts'[s] = {}
             /\ \A h \in Handler : work'[h] # Idle => work'[h].s # s
  <2>1. status[s] = "new"
    BY <1>3
  <2>2. receipts[s] = {} /\ \A h \in Handler : work[h] # Idle => work[h].s # s
    BY <2>1 DEF Founded, Untouched
  <2>3. receipts'[s] = {}
    BY <2>2
  <2>4. \A h \in Handler : work'[h] # Idle => work'[h].s # s
    BY <2>2
  <2> QED
    BY <2>1, <2>3, <2>4
<1>4. Copies' /\ Stubs' /\ Untouched'
  BY <1>1, <1>2, <1>3, Inherit
<1> QED
  BY <1>4, HeadStays DEF Founded

LEMMA NoStateSound ==
  ASSUME TypeOK, NEW st, st.exp = 1, st.first = 0, st.count = -1, st.gen <= gen,
         st.gen = gen /\ ~unfounded => ~rebinding /\ Span(0, st.old)
  PROVE  Sound(st)
BY DEF Sound, Good, TypeOK

LEMMA FoundedQuiet ==
  ASSUME TypeOK, TypeOK', Founded,
         \/ NewSubmission
         \/ \E s \in Session : SessionStale(s) \/ Replace(s) \/ Expire(s) \/ LockExpires(s)
                               \/ CleanReceipts(s) \/ \E r \in receipts[s] : ReplayEffects(s, r)
         \/ \E h \in Handler : ImportStale(h) \/ RestartExhausted(h) \/ Effects(h)
                               \/ RefreshVerdicts(h) \/ Fails(h) \/ Crashes(h)
         \/ UNCHANGED vars
  PROVE  Founded'
<1> USE DEF sql, redis
<1> DEFINE SameCopies ==
             /\ \A s \in Session : status'[s] = "live" => status[s] = "live" /\ sess'[s] = sess[s]
             /\ \A s \in Session : status'[s] = "new" => status[s] = "new"
           SameWork ==
             \A h \in Handler : work'[h] # Idle =>
               /\ work[h] # Idle
               /\ work'[h].s = work[h].s /\ work'[h].st = work[h].st /\ work'[h].top = work[h].top
               /\ work'[h].pc = "import" => work[h].pc = "import" /\ work'[h].page = work[h].page
           SameReceipts ==
             \A s \in Session : \A r \in receipts'[s] :
               \E q \in receipts[s] : r.count = q.count /\ r.page = q.page /\ r.first = q.first
<1>1. ASSUME Calm, head' = head, SameCopies, SameWork, SameReceipts
      PROVE  Founded'
  BY <1>1, Quiet
<1>2. ASSUME NEW s \in Session, Terminate(s)
      PROVE  SameCopies
  BY <1>2 DEF Terminate, TypeOK
<1>3. ASSUME NEW s \in Session, NEW r \in receipts[s], Applied(s, r)
      PROVE  SameReceipts
  <2>1. r \in Receipt
    BY DEF TypeOK
  <2>2. PICK q : q = [r EXCEPT !.applied = TRUE]
    OBVIOUS
  <2>3. q.count = r.count /\ q.page = r.page /\ q.first = r.first
    BY <2>1, <2>2 DEF Receipt
  <2>4. receipts' = [receipts EXCEPT ![s] = (@ \ {r}) \cup {q}]
    BY <1>3, <2>2 DEF Applied
  <2> QED
    BY <2>3, <2>4 DEF TypeOK
<1>4. CASE NewSubmission
  <2>1. Calm
    BY <1>4, Bounds DEF NewSubmission, Calm, TypeOK
  <2> QED
    BY <1>1, <1>4, <2>1 DEF NewSubmission
<1>5. ASSUME UNCHANGED <<top, gen, rebinding, rows, head, unfounded>>
      PROVE  Calm /\ head' = head
  BY <1>5, Bounds DEF Calm, TypeOK
<1>6. ASSUME NEW s \in Session, SessionStale(s) \/ Replace(s)
      PROVE  Founded'
  <2>1. SameCopies
    BY <1>2, <1>6 DEF SessionStale, Replace
  <2>2. SameWork /\ SameReceipts
    BY <1>6 DEF SessionStale, Replace
  <2> QED
    BY <1>1, <1>5, <1>6, <2>1, <2>2 DEF SessionStale, Replace
<1>7. ASSUME NEW s \in Session, Expire(s)
      PROVE  Founded'
  <2>1. SameCopies
    BY <1>7 DEF Expire, TypeOK
  <2> QED
    BY <1>1, <1>5, <1>7, <2>1 DEF Expire
<1>8. ASSUME NEW s \in Session, LockExpires(s)
      PROVE  Founded'
  BY <1>1, <1>5, <1>8 DEF LockExpires
<1>9. ASSUME NEW s \in Session, CleanReceipts(s)
      PROVE  Founded'
  <2>1. SameReceipts
    BY <1>9 DEF CleanReceipts, TypeOK
  <2> QED
    BY <1>1, <1>5, <1>9, <2>1 DEF CleanReceipts
<1>10. ASSUME NEW s \in Session, NEW r \in receipts[s], ReplayEffects(s, r)
       PROVE  Founded'
  <2>1. SameReceipts
    BY <1>3, <1>10 DEF ReplayEffects
  <2> QED
    BY <1>1, <1>5, <1>10, <2>1 DEF ReplayEffects
<1>11. ASSUME NEW h \in Handler, ImportStale(h) \/ RestartExhausted(h)
       PROVE  Founded'
  <2>1. work[h].s \in Session
    BY <1>11, BusyWork DEF ImportStale, RestartExhausted, Idle, Work
  <2>2. SameCopies
    BY <1>2, <1>11, <2>1 DEF ImportStale, RestartExhausted
  <2>3. SameWork
    BY <1>11 DEF ImportStale, RestartExhausted, TypeOK
  <2> QED
    BY <1>1, <1>5, <1>11, <2>2, <2>3 DEF ImportStale, RestartExhausted
<1>12. ASSUME NEW h \in Handler, Effects(h)
       PROVE  Founded'
  <2>1. work[h] \in Work
    BY <1>12, BusyWork DEF Effects, Idle
  <2>2. SameReceipts
    BY <1>3, <1>12, <2>1 DEF Effects, ReceiptsOf, Work
  <2>3. work[h].next # "import"
    BY <2>1 DEF Work
  <2>4. PICK w : w = [work[h] EXCEPT !.pc = work[h].next]
    OBVIOUS
  <2>5. w.s = work[h].s /\ w.st = work[h].st /\ w.top = work[h].top /\ w.pc # "import"
    BY <2>1, <2>3, <2>4 DEF Work
  <2>6. work' = [work EXCEPT ![h] = w]
    BY <1>12, <2>4 DEF Effects
  <2>7. work[h] # Idle
    BY <1>12 DEF Effects, Idle
  <2>8. SameWork
    BY <2>5, <2>6, <2>7 DEF TypeOK
  <2> QED
    BY <1>1, <1>5, <1>12, <2>2, <2>8 DEF Effects
<1>13. ASSUME NEW h \in Handler, Fails(h) \/ Crashes(h)
       PROVE  Founded'
  <2>1. SameWork
    BY <1>13 DEF Fails, Crashes, TypeOK
  <2> QED
    BY <1>1, <1>5, <1>13, <2>1 DEF Fails, Crashes
<1>14. CASE UNCHANGED vars
  BY <1>1, <1>5, <1>14 DEF vars
<1>15. ASSUME NEW h \in Handler, RefreshVerdicts(h)
       PROVE  Founded'
  BY <1>1, <1>5, <1>15 DEF RefreshVerdicts
<1> QED
  BY <1>4, <1>6, <1>7, <1>8, <1>9, <1>10, <1>11, <1>12, <1>13, <1>14, <1>15

\* A bumped generation leaves no copy that could commit.
LEMMA FoundedRebind ==
  ASSUME TypeOK, TypeOK', Founded, RebindBumps \/ RebindCommits
  PROVE  Founded'
<1> USE DEF sql, redis
<1>1. UNCHANGED <<top, receipts, status, sess, work, unfounded>>
  BY DEF RebindBumps, RebindCommits
<1>2. ASSUME NEW s \in Session, NEW st, Copy(s, st)
      PROVE  st.gen <= gen /\ st.count <= top /\ (st.exp = 1 => st.first = 0) /\ Good(st)
  BY <1>2 DEF Founded, Copies, Copy, Sound
<1>3. ASSUME NEW s \in Session, NEW st, Copy(s, st)
      PROVE  st.gen <= gen' /\ (unfounded \/ st.gen # gen')
  <2>1. st.gen \in Nat
    BY <1>3, CopyType DEF State
  <2>2. CASE RebindBumps
    BY <1>2, <1>3, <2>1, <2>2 DEF RebindBumps, TypeOK
  <2>3. CASE RebindCommits
    BY <1>2, <1>3, <2>3 DEF RebindCommits, Good
  <2> QED
    BY <2>2, <2>3
<1>4. ASSUME NEW s \in Session, NEW st, Copy(s, st)
      PROVE  Sound(st)' /\ \A r \in receipts[s] : Fits(r, st)'
  BY <1>1, <1>2, <1>3, <1>4 DEF Sound, Good, Fits
<1>5. Copies'
  <2>1. ASSUME NEW s \in Session, status'[s] = "live" PROVE Sound(sess[s])'
    <3>1. PICK st : st = sess[s]
      OBVIOUS
    <3>2. Sound(st)'
      BY <1>1, <1>4, <2>1, <3>1 DEF Copy
    <3> QED
      BY <1>1, <3>1, <3>2 DEF Sound, Good
  <2>2. ASSUME NEW h \in Handler, work'[h] # Idle PROVE Sound(work[h].st)'
    <3>1. work[h].s \in Session
      BY <1>1, <2>2, BusyWork DEF Work
    <3>2. PICK st : st = work[h].st
      OBVIOUS
    <3>3. Sound(st)'
      BY <1>1, <1>4, <2>2, <3>1, <3>2 DEF Copy
    <3> QED
      BY <1>1, <3>2, <3>3 DEF Sound, Good
  <2> QED
    BY <1>1, <2>1, <2>2 DEF Founded, Copies
<1>6. Stubs'
  <2>1. ASSUME NEW s \in Session, NEW r \in receipts[s], status[s] = "live"
        PROVE  Fits(r, sess[s])'
    <3>1. PICK st : st = sess[s]
      OBVIOUS
    <3>2. Fits(r, st)'
      BY <1>4, <2>1, <3>1 DEF Copy
    <3> QED
      BY <1>1, <3>1, <3>2 DEF Fits
  <2>2. ASSUME NEW s \in Session, NEW r \in receipts[s], NEW h \in Handler,
               work[h] # Idle, work[h].s = s
        PROVE  Fits(r, work[h].st)'
    <3>1. PICK st : st = work[h].st
      OBVIOUS
    <3>2. Fits(r, st)'
      BY <1>4, <2>2, <3>1 DEF Copy
    <3> QED
      BY <1>1, <3>1, <3>2 DEF Fits
  <2> QED
    BY <1>1, <2>1, <2>2 DEF Founded, Stubs
<1>7. Untouched'
  BY <1>1 DEF Founded, Untouched
<1>8. CheckpointHidesNothing'
  BY DEF Founded, CheckpointHidesNothing, ScanComplete, RebindBumps, RebindCommits
<1> QED
  BY <1>5, <1>6, <1>7, <1>8 DEF Founded

LEMMA FoundedStart ==
  ASSUME TypeOK, TypeOK', Founded, NEW s \in Session, Start(s)
  PROVE  Founded'
<1> USE DEF sql, redis
<1>1. Calm /\ head' = head
  BY Bounds DEF Start, Calm, TypeOK
<1>2. PICK old, st :
        /\ old = IF head # 0 THEN head ELSE InferredCheckpoint
        /\ st = [NoState EXCEPT !.old = old, !.gen = gen]
  OBVIOUS
<1>3. /\ sess' = [sess EXCEPT ![s] = st]
      /\ unfounded' = (unfounded \/ rebinding \/ old # head)
  BY <1>2 DEF Start
<1>4. /\ status[s] = "new" /\ receipts[s] = {}
      /\ \A h \in Handler : work[h] # Idle => work[h].s # s
  BY DEF Start, Founded, Untouched
<1>5. /\ status' = [status EXCEPT ![s] = "live"]
      /\ UNCHANGED <<receipts, work>>
  BY DEF Start
<1>6. st.exp = 1 /\ st.first = 0 /\ st.count = -1 /\ st.old = old /\ st.gen = gen
  BY <1>2 DEF NoState
<1>7. ASSUME ~unfounded'
      PROVE  ~rebinding' /\ Span(0, old)'
  <2>1. ~unfounded /\ ~rebinding /\ old = head
    BY <1>3, <1>7
  <2>2. Span(0, head)
    BY <2>1 DEF Founded, CheckpointHidesNothing, ScanComplete, Span, TypeOK
  <2> QED
    BY <1>1, <2>1, <2>2 DEF Calm, Span
<1>8. Sound(st)'
  BY <1>1, <1>6, <1>7 DEF Sound, Good, Calm, TypeOK
<1>9. Copies'
  <2>1. ASSUME NEW t \in Session, status'[t] = "live", t # s PROVE Sound(sess[t])'
    <3>1. PICK x : x = sess[t]
      OBVIOUS
    <3>2. x = sess'[t] /\ Copy(t, x)
      BY <1>3, <1>5, <2>1, <3>1 DEF Copy, TypeOK
    <3>3. Sound(x)'
      BY <1>1, <3>2, CopyFrom DEF From
    <3> QED
      BY <3>2, <3>3 DEF Sound, Good
  <2>2. Sound(sess[s])'
    <3>1. sess'[s] = st
      BY <1>3 DEF TypeOK
    <3> QED
      BY <1>8, <3>1 DEF Sound, Good
  <2>3. ASSUME NEW h \in Handler, work'[h] # Idle
        PROVE  Sound(work[h].st)' /\ work'[h].top <= top'
    <3>1. work[h] \in Work /\ work[h] # Idle
      BY <1>5, <2>3, BusyWork
    <3>2. work[h].s \in Session
      BY <3>1 DEF Work
    <3>3. PICK x : x = work[h].st
      OBVIOUS
    <3>4. Copy(work[h].s, x)
      BY <3>1, <3>3 DEF Copy
    <3>5. Sound(x)'
      BY <1>1, <3>2, <3>4, CopyFrom DEF From
    <3>6. Sound(work[h].st)'
      BY <1>5, <3>3, <3>5 DEF Sound, Good
    <3> QED
      BY <1>5, <3>1, <3>6 DEF Founded, Copies, Start
  <2>4. \A h \in Handler : work'[h] # Idle /\ work'[h].pc = "import" =>
          work'[h].page = work'[h].st.exp
    BY <1>5 DEF Founded, Copies
  <2> QED
    BY <2>1, <2>2, <2>3, <2>4 DEF Copies
<1>10. Stubs'
  <2>1. ASSUME NEW t \in Session, NEW r \in receipts[t]
        PROVE  /\ t # s /\ r.count <= top'
               /\ status'[t] = "live" => Fits(r, sess[t])'
               /\ \A h \in Handler : work'[h] # Idle /\ work'[h].s = t => Fits(r, work[h].st)'
    <3>1. t # s /\ r.count <= top'
      BY <1>4 DEF Start, Founded, Stubs
    <3>2. sess'[t] = sess[t] /\ status'[t] = status[t] /\ work' = work
      BY <1>3, <1>5, <3>1 DEF TypeOK
    <3>3. status[t] = "live" => Fits(r, sess[t])
      BY DEF Founded, Stubs
    <3>4. \A h \in Handler : work[h] # Idle /\ work[h].s = t => Fits(r, work[h].st)
      BY DEF Founded, Stubs
    <3> QED
      BY <1>1, <3>1, <3>2, <3>3, <3>4 DEF Fits, Calm, Span
  <2> QED
    BY <1>5, <2>1 DEF Stubs
<1>11. Untouched'
  BY <1>5 DEF Founded, Untouched, TypeOK
<1>12. CheckpointHidesNothing'
  BY <1>1, HeadStays DEF Founded
<1> QED
  BY <1>9, <1>10, <1>11, <1>12 DEF Founded

\* The handlers that the step leaves alone.
LEMMA OthersWork ==
  ASSUME TypeOK, TypeOK', Founded, Calm, NEW h \in Handler, work[h] # Idle
  PROVE  /\ From(work[h].s, work[h].st)
         /\ work[h].top <= top'
         /\ work[h].pc = "import" => work[h].page = work[h].st.exp
<1>1. work[h].s \in Session /\ work[h].top \in 0..MaxTop
  BY BusyWork DEF Work
<1>2. Copy(work[h].s, work[h].st)
  BY DEF Copy
<1>3. work[h].top <= top'
  BY <1>1, Bounds DEF Founded, Copies, Calm, TypeOK
<1> QED
  BY <1>1, <1>2, <1>3, CopyFrom DEF Founded, Copies

\* Steps of handler h that leave the session to it: only h's own work changes.
LEMMA OwnWork ==
  ASSUME TypeOK, TypeOK', Founded, Calm, head' = head, NEW h \in Handler, NEW w,
         work' = [work EXCEPT ![h] = w],
         w # Idle => /\ From(w.s, w.st)
                     /\ w.top <= top'
                     /\ w.pc = "import" => w.page = w.st.exp
                     /\ status[w.s] # "new",
         \A s \in Session : \A st : status'[s] = "live" /\ st = sess'[s] => From(s, st),
         UNCHANGED <<status, receipts>>
  PROVE  Founded'
<1>1. ASSUME NEW g \in Handler, NEW v, v = work'[g], v # Idle
      PROVE  /\ From(v.s, v.st)
             /\ v.top <= top'
             /\ v.pc = "import" => v.page = v.st.exp
  <2>1. CASE g = h
    <3>1. v = w
      BY <1>1, <2>1 DEF TypeOK
    <3> QED
      BY <1>1, <3>1
  <2>2. CASE g # h
    <3>1. v = work[g]
      BY <1>1, <2>2 DEF TypeOK
    <3> QED
      BY <1>1, <3>1, OthersWork
  <2> QED
    BY <2>1, <2>2
<1>2. ASSUME NEW s \in Session, status'[s] = "new"
      PROVE  /\ status[s] = "new" /\ receipts'[s] = {}
             /\ \A g \in Handler : work'[g] # Idle => work'[g].s # s
  <2>1. status[s] = "new" /\ receipts[s] = {}
    BY <1>2 DEF Founded, Untouched
  <2>2. \A g \in Handler : work[g] # Idle => work[g].s # s
    BY <2>1 DEF Founded, Untouched
  <2>3. \A g \in Handler : work'[g] # Idle => work'[g].s # s
    BY <2>1, <2>2 DEF TypeOK
  <2> QED
    BY <2>1, <2>3
<1>3. Copies' /\ Stubs' /\ Untouched'
  BY <1>1, <1>2, Inherit
<1> QED
  BY <1>3, HeadStays DEF Founded

LEMMA LiveFrom ==
  ASSUME TypeOK, TypeOK', Founded, Calm, UNCHANGED <<status, sess>>
  PROVE  \A s \in Session : \A st : status'[s] = "live" /\ st = sess'[s] => From(s, st)
BY CopyFrom DEF Copy

LEMMA FoundedUpload ==
  ASSUME TypeOK, TypeOK', Founded, NEW h \in Handler, NEW s \in Session, NEW p \in Pages,
         NEW t \in InitialTop..top, Upload(h, s, p, t)
  PROVE  Founded'
<1> USE DEF sql, redis
<1>1. Calm /\ head' = head
  BY Bounds DEF Upload, Calm, TypeOK
<1>2. PICK w : w = [pc |-> Decision(sess[s], p, t), s |-> s, page |-> p, top |-> t,
                    st |-> sess[s], next |-> "store"]
  OBVIOUS
<1>3. work' = [work EXCEPT ![h] = w]
  BY <1>2 DEF Upload
<1>4. From(w.s, w.st)
  <2>1. w.s = s /\ w.st = sess[s]
    BY <1>2
  <2>2. Copy(s, sess[s])
    BY DEF Copy, Upload
  <2> QED
    BY <1>1, <2>1, <2>2, CopyFrom
<1>5. w.pc = "import" => w.page = w.st.exp
  BY <1>2 DEF Decision
<1>6. w.top <= top'
  BY <1>2, Bounds DEF Upload, TypeOK
<1>7. status[w.s] # "new"
  BY <1>2 DEF Upload
<1>8. UNCHANGED <<status, sess, receipts>>
  BY DEF Upload
<1> QED
  BY <1>1, <1>3, <1>4, <1>5, <1>6, <1>7, <1>8, OwnWork, LiveFrom

LEMMA FoundedReplay ==
  ASSUME TypeOK, TypeOK', Founded, NEW h \in Handler, Replay(h)
  PROVE  Founded'
<1> USE DEF sql, redis
<1>1. Calm /\ head' = head
  BY Bounds DEF Replay, Calm, TypeOK
<1>2. work[h] \in Work /\ work[h] # Idle
  BY BusyWork DEF Replay, Idle
<1>3. work[h].s \in Session /\ work[h].st \in State
  BY <1>2 DEF Work
<1>4. PICK r \in receipts[work[h].s] :
        work' = [work EXCEPT ![h] = [work[h] EXCEPT
          !.pc = "effects", !.st = Imported(work[h].st, r),
          !.next = IF r.count = work[h].top THEN "store" ELSE "restart"]]
  BY DEF Replay, ReceiptsOf
<1>5. PICK w : w = [work[h] EXCEPT
                      !.pc = "effects", !.st = Imported(work[h].st, r),
                      !.next = IF r.count = work[h].top THEN "store" ELSE "restart"]
  OBVIOUS
<1>6. PICK st : st = Imported(work[h].st, r)
  OBVIOUS
<1>7. w.s = work[h].s /\ w.st = st /\ w.pc = "effects" /\ w.top = work[h].top
  BY <1>2, <1>5, <1>6 DEF Work
<1>8. /\ st.gen = work[h].st.gen /\ st.old = work[h].st.old
      /\ st.exp = r.page + 1 /\ st.count = r.count /\ st.first = r.first
  BY <1>3, <1>6 DEF Imported, State
<1>9. Sound(work[h].st) /\ Copy(work[h].s, work[h].st)
  BY <1>2 DEF Founded, Copies, Copy
<1>10. Fits(r, work[h].st) /\ r.count <= top /\ r \in Receipt
  BY <1>2, <1>3 DEF Founded, Stubs, TypeOK
<1>11. r.page \in Nat \ {0} /\ st \in State
  BY <1>3, <1>6, <1>10, ImportedType DEF Receipt, Pages
<1>12. (st.exp - 1) * PerPage = r.page * PerPage /\ st.exp # 1
  BY <1>8, <1>11, Bounds
<1>13. Sound(st)
  BY <1>8, <1>9, <1>10, <1>12 DEF Sound, Good, Fits
<1>14. Sound(st)'
  BY <1>1, <1>11, <1>13, SoundStays
<1>15. From(w.s, w.st)
  BY <1>7, <1>8, <1>9, <1>14 DEF From
<1>16. w.top <= top'
  BY <1>1, <1>2, <1>7, OthersWork
<1>17. status[w.s] # "new"
  BY <1>2, <1>3, <1>7 DEF Founded, Untouched
<1>18. UNCHANGED <<status, sess, receipts>>
  BY DEF Replay
<1> QED
  BY <1>1, <1>4, <1>5, <1>7, <1>15, <1>16, <1>17, <1>18, OwnWork, LiveFrom

\* A handler's copy, or a scan that starts again, becomes the session.
LEMMA FoundedStored ==
  ASSUME TypeOK, TypeOK', Founded, NEW h \in Handler, Store(h) \/ Restart(h)
  PROVE  Founded'
<1> USE DEF sql, redis
<1>1. Calm /\ head' = head
  BY Bounds DEF Store, Restart, Calm, TypeOK
<1>2. work[h] \in Work /\ work[h] # Idle
  BY BusyWork DEF Store, Restart, Idle
<1>3. /\ work[h].s \in Session /\ work[h].st \in State
      /\ work[h].top \in 0..MaxTop /\ work[h].top <= top
  BY <1>2 DEF Work, Founded, Copies
<1>4. Sound(work[h].st) /\ Copy(work[h].s, work[h].st)
  BY <1>2 DEF Founded, Copies, Copy
<1>5. PICK st : /\ sess' = Stored(work[h].s, st)
                /\ From(work[h].s, st)
  <2>1. CASE Store(h)
    BY <1>1, <1>3, <1>4, <2>1, CopyFrom DEF Store
  <2>2. CASE Restart(h)
    <3>1. PICK st : st = [work[h].st EXCEPT !.restarts = @ + 1, !.exp = 1, !.first = 0,
                                            !.count = work[h].top, !.last = 0, !.done = FALSE]
      OBVIOUS
    <3>2. /\ st.exp = 1 /\ st.first = 0 /\ st.count = work[h].top
          /\ st.gen = work[h].st.gen /\ st.old = work[h].st.old
      BY <1>3, <3>1 DEF State
    <3>3. Sound(st)
      BY <1>3, <1>4, <3>2 DEF Sound, Good
    <3>4. st.gen <= gen' /\ st.count <= top'
      BY <1>1, <1>3, <3>2, <3>3, Bounds DEF Sound, Calm, TypeOK
    <3>5. Good(st)'
      BY <1>1, <3>3 DEF Sound, Good, Span, Calm
    <3>6. Sound(st)'
      BY <3>2, <3>4, <3>5 DEF Sound
    <3>7. sess' = Stored(work[h].s, st)
      BY <2>2, <3>1 DEF Restart
    <3> QED
      BY <1>4, <3>2, <3>6, <3>7 DEF From
  <2> QED
    BY <2>1, <2>2
<1>6. UNCHANGED <<status, receipts>> /\ work' = [work EXCEPT ![h] = Idle]
  BY DEF Store, Restart
<1>7. ASSUME NEW s \in Session, NEW x, status'[s] = "live", x = sess'[s]
      PROVE  From(s, x)
  <2>1. CASE s = work[h].s
    BY <1>5, <1>6, <1>7, <2>1 DEF Stored, TypeOK
  <2>2. CASE s # work[h].s
    <3>1. x = sess[s]
      BY <1>5, <1>7, <2>2 DEF Stored, TypeOK
    <3> QED
      BY <1>1, <1>6, <1>7, <3>1, CopyFrom DEF Copy
  <2> QED
    BY <2>1, <2>2
<1> QED
  BY <1>1, <1>6, <1>7, OwnWork

\* A page that continues the scan extends what the scan has passed.
LEMMA PageExtends ==
  ASSUME TypeOK, NEW h \in Handler, work[h] \in Work, Sound(work[h].st),
         work[h].page = work[h].st.exp, ~OlderThanLast(work[h]),
         work[h].st.gen = gen, ~unfounded,
         PageIds(work[h].page, work[h].top) \subseteq rows',
         rows \subseteq rows'
  PROVE  \A i \in 1..FirstOf(work[h]) : i > work[h].top - work[h].page * PerPage => i \in rows'
<1>1. /\ work[h].page \in Nat \ {0} /\ work[h].top \in Nat
      /\ work[h].st.count \in Int /\ work[h].st.first \in Nat
  BY Bounds DEF Work, State, Pages
<1>2. PICK a \in Nat, b \in Nat :
        a = work[h].page * PerPage /\ b = (work[h].page - 1) * PerPage
  BY <1>1, Bounds
<1>3. \A i \in 1..work[h].top :
        work[h].top - a < i /\ i <= work[h].top - b => i \in rows'
  BY <1>2 DEF PageIds
<1>4. CASE work[h].page = 1
  <2>1. FirstOf(work[h]) = work[h].top
    BY <1>4 DEF FirstOf, Sound
  <2>2. b = 0
    BY <1>2, <1>4, Bounds
  <2> QED
    BY <1>1, <1>2, <1>3, <2>1, <2>2
<1>5. CASE work[h].page # 1
  <2>1. FirstOf(work[h]) = work[h].st.first
    BY <1>5 DEF FirstOf
  <2>2. Span(work[h].st.count - b, work[h].st.first)
    <3>1. work[h].st.exp > 1
      BY <1>1, <1>5
    <3>2. b = (work[h].st.exp - 1) * PerPage
      BY <1>2
    <3>3. Good(work[h].st)
      BY DEF Sound
    <3>4. Span(work[h].st.count - (work[h].st.exp - 1) * PerPage, work[h].st.first)
      BY <3>1, <3>3 DEF Good
    <3> QED
      BY <3>2, <3>4
  <2>3. ASSUME NEW i \in 1..work[h].st.first, i > work[h].top - a
        PROVE  i \in rows'
    <3>1. CASE i > work[h].st.count - b
      BY <2>2, <3>1 DEF Span
    <3>2. CASE i <= work[h].st.count - b
      <4>1. i <= work[h].top - b
        <5>1. work[h].st.count <= work[h].top
          BY <1>1, <1>5 DEF OlderThanLast
        <5> QED
          BY <1>1, <1>2, <3>2, <5>1
      <4>2. i \in 1..work[h].top
        BY <1>1, <1>2, <4>1
      <4> QED
        BY <1>3, <2>3, <4>1, <4>2
    <3> QED
      BY <1>1, <1>2, <3>1, <3>2
  <2> QED
    BY <1>2, <2>1, <2>3
<1> QED
  BY <1>4, <1>5

LEMMA FoundedCommit ==
  ASSUME TypeOK, TypeOK', Founded, NEW h \in Handler, Commit(h)
  PROVE  Founded'
<1> USE DEF sql, redis
<1>1. work[h] \in Work /\ work[h] # Idle
  BY BusyWork DEF Commit, Fresh, Idle
<1>2. /\ work[h].s \in Session /\ work[h].st \in State /\ work[h].page \in Nat \ {0}
      /\ work[h].page \in Pages /\ work[h].top \in 0..MaxTop /\ work[h].top <= top
  BY <1>1 DEF Work, Pages, Founded, Copies
<1>3. /\ work[h].page = work[h].st.exp
      /\ Sound(work[h].st) /\ Copy(work[h].s, work[h].st) /\ work[h].st.gen = gen
  BY <1>1 DEF Founded, Copies, Copy, Commit, Fresh
<1>4. PICK n : n = Cardinality(PageIds(work[h].page, work[h].top) \ rows)
  OBVIOUS
<1>b. PICK r : Writes(h, n, r)
  BY <1>4, CommitReceipt
<1>5. /\ r = [scan |-> work[h].st.restarts, page |-> work[h].page, count |-> work[h].top,
              ins |-> work[h].st.ins + n, new |-> n,
              first |-> FirstOf(work[h]), done |-> Completes(work[h]), applied |-> r.applied]
      /\ receipts' = [receipts EXCEPT ![work[h].s] = @ \cup {r}]
      /\ work' = [work EXCEPT ![h] =
                    [work[h] EXCEPT !.pc = "effects", !.st = Imported(work[h].st, r)]]
  BY <1>b DEF Writes
<1>a. r.first = FirstOf(work[h])
  BY <1>5
<1>6. /\ rows' = rows \cup (PageIds(work[h].page, work[h].top) \ rows)
      /\ head' = IF Completes(work[h]) THEN r.first ELSE head
      /\ receipts' = [receipts EXCEPT ![work[h].s] = @ \cup {r}]
      /\ work' = [work EXCEPT ![h] =
                    [work[h] EXCEPT !.pc = "effects", !.st = Imported(work[h].st, r)]]
      /\ unfounded' = (unfounded \/ OlderThanLast(work[h]))
      /\ UNCHANGED <<top, gen, rebinding, status, sess>>
  BY <1>5, <1>a DEF Commit
<1>7. Calm
  BY <1>6, Bounds DEF Calm, TypeOK
<1>8. /\ r.page = work[h].page /\ r.count = work[h].top /\ r.first = FirstOf(work[h])
  BY <1>5
<1>9. ASSUME ~unfounded'
      PROVE  \A i \in 1..FirstOf(work[h]) :
               i > work[h].top - work[h].page * PerPage => i \in rows'
  BY <1>1, <1>3, <1>6, <1>9, PageExtends DEF Span
<1>10. ~unfounded' => Span(r.count - r.page * PerPage, r.first)'
  BY <1>6, <1>8, <1>9 DEF Span
<1>11. PICK st : st = Imported(work[h].st, r)
  OBVIOUS
<1>12. /\ st.gen = work[h].st.gen /\ st.old = work[h].st.old
       /\ st.exp = work[h].page + 1 /\ st.count = work[h].top /\ st.first = r.first
  BY <1>2, <1>8, <1>11 DEF Imported, State
<1>13. Sound(st)'
  <2>1. st.exp # 1 /\ (st.exp - 1) * PerPage = r.page * PerPage
    BY <1>2, <1>8, <1>12, Bounds
  <2>2. Good(st)'
    BY <1>3, <1>6, <1>7, <1>8, <1>10, <1>12, <2>1 DEF Sound, Good, Calm, Span
  <2> QED
    BY <1>2, <1>3, <1>6, <1>12, <2>1, <2>2 DEF Sound
<1>14. PICK w : w = [work[h] EXCEPT !.pc = "effects", !.st = Imported(work[h].st, r)]
  OBVIOUS
<1>15. w.s = work[h].s /\ w.st = st /\ w.pc = "effects" /\ w.top = work[h].top
  BY <1>1, <1>11, <1>14 DEF Work
<1>16. From(w.s, w.st)
  BY <1>3, <1>12, <1>13, <1>15 DEF From
<1>17. ASSUME NEW g \in Handler, NEW v, v = work'[g], v # Idle
       PROVE  /\ From(v.s, v.st)
              /\ v.top <= top'
              /\ v.pc = "import" => v.page = v.st.exp
  <2>1. CASE g = h
    <3>1. v = w
      BY <1>6, <1>14, <1>17, <2>1 DEF TypeOK
    <3> QED
      BY <1>2, <1>6, <1>15, <1>16, <3>1
  <2>2. CASE g # h
    <3>1. v = work[g]
      BY <1>6, <1>17, <2>2 DEF TypeOK
    <3> QED
      BY <1>7, <1>17, <3>1, OthersWork
  <2> QED
    BY <2>1, <2>2
<1>18. ASSUME NEW s \in Session, NEW q \in receipts'[s]
       PROVE  \/ \E x \in receipts[s] : q.count = x.count /\ q.page = x.page /\ q.first = x.first
              \/ q.count <= top' /\ (~unfounded' => Span(q.count - q.page * PerPage, q.first)')
  <2>1. q \in receipts[s] \/ q = r
    BY <1>2, <1>6 DEF TypeOK
  <2> QED
    BY <1>2, <1>6, <1>8, <1>10, <2>1
<1>19. ASSUME NEW s \in Session, status'[s] = "new"
       PROVE  /\ status[s] = "new" /\ receipts'[s] = {}
              /\ \A g \in Handler : work'[g] # Idle => work'[g].s # s
  <2>1. /\ status[s] = "new" /\ receipts[s] = {}
        /\ \A g \in Handler : work[g] # Idle => work[g].s # s
    BY <1>6, <1>19 DEF Founded, Untouched
  <2>2. s # work[h].s
    BY <1>1, <2>1
  <2>3. receipts'[s] = {}
    BY <1>6, <2>1, <2>2 DEF TypeOK
  <2>4. \A g \in Handler : g # h => work'[g] = work[g]
    BY <1>6 DEF TypeOK
  <2>5. work'[h].s # s
    BY <1>6, <1>14, <1>15, <2>2 DEF TypeOK
  <2> QED
    BY <2>1, <2>3, <2>4, <2>5
<1>20. UNCHANGED <<status, sess>>
  BY <1>6
<1>21. Copies' /\ Stubs' /\ Untouched'
  BY <1>7, <1>17, <1>18, <1>19, <1>20, LiveFrom, Inherit
<1>22. CheckpointHidesNothing'
  <2>1. CASE ~Completes(work[h])
    BY <1>6, <1>7, <2>1, HeadStays DEF Founded
  <2>2. CASE unfounded'
    BY <2>2 DEF CheckpointHidesNothing
  <2>3. CASE Completes(work[h]) /\ ~unfounded'
    <3>1. head' = FirstOf(work[h])
      BY <1>6, <1>8, <2>3
    <3>2. \A i \in 1..work[h].st.old : i \in rows
      <4>1. ~unfounded
        BY <1>6, <2>3
      <4> QED
        BY <1>3, <4>1 DEF Sound, Good, Span
    <3>3. PICK a \in Nat : a = work[h].page * PerPage
      BY <1>2, Bounds
    <3>4. \A i \in 1..FirstOf(work[h]) : i > work[h].top - a => i \in rows'
      BY <1>6, <1>9, <2>3, <3>3
    <3>5. CASE IsLastPage(work[h].page, work[h].top)
      <4>1. work[h].top - a <= 0
        BY <1>2, <3>3, <3>5 DEF IsLastPage
      <4>2. \A i \in 1..FirstOf(work[h]) : i > work[h].top - a
        BY <1>2, <3>3, <4>1
      <4>3. \A i \in 1..FirstOf(work[h]) : i \in rows'
        BY <3>4, <4>2
      <4> QED
        BY <3>1, <4>3 DEF CheckpointHidesNothing, ScanComplete
    <3>6. CASE work[h].st.old \in PageIds(work[h].page, work[h].top)
      <4>1. work[h].st.old > work[h].top - a /\ work[h].st.old \in Nat
        BY <3>3, <3>6 DEF PageIds
      <4>2. \A i \in 1..FirstOf(work[h]) : i <= work[h].st.old => i \in rows'
        BY <1>6, <3>2, <4>1
      <4>3. \A i \in 1..FirstOf(work[h]) : i > work[h].st.old => i > work[h].top - a
        BY <1>2, <3>3, <4>1
      <4>4. \A i \in 1..FirstOf(work[h]) : i \in rows'
        BY <3>4, <4>1, <4>2, <4>3
      <4> QED
        BY <3>1, <4>4 DEF CheckpointHidesNothing, ScanComplete
    <3> QED
      BY <2>3, <3>5, <3>6 DEF Completes
  <2> QED
    BY <2>1, <2>2, <2>3
<1> QED
  BY <1>21, <1>22 DEF Founded

LEMMA FoundedInit == Init => Founded
BY DEF Init, Founded, Copies, Stubs, Untouched, CheckpointHidesNothing, ScanComplete

LEMMA FoundedStep == TypeOK /\ TypeOK' /\ Founded /\ [Next]_vars => Founded'
BY FoundedQuiet, FoundedRebind, FoundedStart, FoundedUpload, FoundedReplay, FoundedStored,
   FoundedCommit DEF Next, Browser, Serve

\* For every number of sessions, handlers, pages, restarts and faults, and any
\* order and age of the uploads: a checkpoint hides no submission as long as no
\* session inferred it or met a rebind, and no page was stored that is older
\* than the page before it.
THEOREM CheckpointSound == Spec => []CheckpointHidesNothing
<1>1. Spec => [](TypeOK /\ Founded)
  BY TypeInit, TypeStep, FoundedInit, FoundedStep, PTL DEF Spec
<1>2. Founded => CheckpointHidesNothing
  BY DEF Founded
<1> QED
  BY <1>1, <1>2, PTL

------------------------------------------------------------------------------
(* The counters of a session *)

\* What the counters depend on of a page's receipt.
Mark(r) == [scan |-> r.scan, page |-> r.page, ins |-> r.ins, done |-> r.done]
Marks(s) == {Mark(r) : r \in receipts[s]}
MarkType == [scan : Nat, page : Nat \ {0}, ins : Nat, done : BOOLEAN]

\* One receipt for a page of a scan.
Single(M) == \A q, m \in M : q.scan = m.scan /\ q.page = m.page => q = m

\* The first scan's receipts go on without a gap, and only the last is done.
Chained(M) ==
  \A m \in M : m.scan = 0 =>
    \A p \in 1..m.page : \E q \in M : q.scan = 0 /\ q.page = p /\ (p < m.page => ~q.done)

\* Without a second scan, the last receipt has the sum of what was inserted.
Summed(M, n) ==
  (\A m \in M : m.scan = 0) =>
    /\ M = {} => n = 0
    /\ \A m \in M : (\A q \in M : q.page # m.page + 1) => m.ins = n

Ledger(M, n) == Single(M) /\ Chained(M) /\ Summed(M, n)

\* A copy of a session repeats the receipt of the last page it knows.
Backed(M, st) ==
  /\ st.last = 0 => st.exp = 1 /\ ~st.done /\ (st.restarts = 0 => st.ins = 0)
  /\ st.last # 0 => \E m \in M : /\ m.scan = st.restarts /\ m.page = st.last
                                 /\ st.exp = m.page + 1
                                 /\ st.ins = m.ins /\ st.done = m.done

Unstarted == \A s \in Session : status[s] = "new" => inserted[s] = 0
Ongoing == \A h \in Handler : work[h] # Idle /\ work[h].pc = "import" => ~work[h].st.done
Recorded ==
  \A s \in Session : \A st : Copy(s, st) => Ledger(Marks(s), inserted[s]) /\ Backed(Marks(s), st)

Counted == Unstarted /\ Ongoing /\ Recorded

LEMMA MarksType ==
  ASSUME TypeOK, NEW s \in Session
  PROVE  Marks(s) \in SUBSET MarkType
<1>1. ASSUME NEW r \in Receipt
      PROVE  Mark(r) \in MarkType
  BY Bounds DEF Receipt, Mark, MarkType, Pages
<1> QED
  BY <1>1 DEF Marks, TypeOK

LEMMA BackedGrows ==
  ASSUME NEW M, NEW N, M \subseteq N, NEW st, Backed(M, st)
  PROVE  Backed(N, st)
BY DEF Backed

\* The page that a copy of the session expects continues the ledger.
LEMMA LedgerGrows ==
  ASSUME NEW M \in SUBSET MarkType, NEW n \in Nat, NEW k \in Nat, NEW m \in MarkType,
         NEW st \in State, Ledger(M, n), Backed(M, st), ~st.done,
         m.scan = st.restarts, m.page = st.exp, m.ins = st.ins + k,
         \A q \in M : ~(q.scan = m.scan /\ q.page = m.page)
  PROVE  Ledger(M \cup {m}, n + k)
<1>t. \A q \in MarkType : q.page \in Nat \ {0} /\ q.ins \in Nat /\ q.scan \in Nat
  BY DEF MarkType
<1>1. Single(M \cup {m})
  BY DEF Ledger, Single
<1>2. ASSUME m.scan = 0, NEW p \in 1..m.page, p # m.page
      PROVE  \E q \in M : q.scan = 0 /\ q.page = p /\ ~q.done
  <2>1. st.last # 0
    BY <1>2 DEF Backed
  <2>2. PICK x \in M : x.scan = 0 /\ x.page + 1 = m.page /\ ~x.done
    BY <1>2, <2>1 DEF Backed
  <2>3. p \in 1..x.page
    BY <1>t, <1>2, <2>2
  <2>4. PICK q \in M : q.scan = 0 /\ q.page = p /\ (p < x.page => ~q.done)
    BY <2>2, <2>3 DEF Ledger, Chained
  <2>5. CASE p = x.page
    BY <2>2, <2>5
  <2>6. CASE p # x.page
    BY <1>t, <2>3, <2>4, <2>6
  <2> QED
    BY <2>5, <2>6
<1>3. Chained(M \cup {m})
  <2>1. ASSUME NEW x \in M \cup {m}, x.scan = 0, NEW p \in 1..x.page
        PROVE  \E q \in M \cup {m} : q.scan = 0 /\ q.page = p /\ (p < x.page => ~q.done)
    <3>1. CASE x \in M
      <4>1. PICK q \in M : q.scan = 0 /\ q.page = p /\ (p < x.page => ~q.done)
        BY <2>1, <3>1 DEF Ledger, Chained
      <4> QED
        BY <4>1
    <3>2. CASE x = m /\ p = m.page
      BY <1>t, <2>1, <3>2
    <3>3. CASE x = m /\ p # m.page
      <4>1. PICK q \in M : q.scan = 0 /\ q.page = p /\ ~q.done
        BY <1>2, <2>1, <3>3
      <4> QED
        BY <4>1
    <3> QED
      BY <3>1, <3>2, <3>3
  <2> QED
    BY <2>1 DEF Chained
<1>4. Summed(M \cup {m}, n + k)
  <2> SUFFICES ASSUME \A q \in M \cup {m} : q.scan = 0,
                      NEW x \in M \cup {m}, \A q \in M \cup {m} : q.page # x.page + 1
               PROVE  x.ins = n + k
    BY DEF Summed
  <2>1. \A q \in M : q.scan = 0 /\ q.page # m.page
    OBVIOUS
  <2>2. (M = {} => n = 0) /\ \A y \in M : (\A q \in M : q.page # y.page + 1) => y.ins = n
    BY <2>1 DEF Ledger, Summed
  <2>3. \A y \in M : \A p \in 1..y.page : \E q \in M : q.page = p
    BY <2>1 DEF Ledger, Chained
  <2>4. CASE x = m
    <3>1. CASE st.last = 0
      <4>1. m.page = 1 /\ st.ins = 0
        BY <3>1 DEF Backed
      <4>2. M = {}
        <5>1. \A y \in M : 1 \in 1..y.page
          BY <1>t
        <5> QED
          BY <2>1, <2>3, <4>1, <5>1
      <4> QED
        BY <2>2, <2>4, <4>1, <4>2
    <3>2. CASE st.last # 0
      <4>1. PICK y \in M : y.page + 1 = m.page /\ y.ins = st.ins
        BY <3>2 DEF Backed
      <4>2. y.ins = n
        BY <2>1, <2>2, <4>1
      <4> QED
        BY <2>4, <4>1, <4>2
    <3> QED
      BY <3>1, <3>2
  <2>5. CASE x \in M
    <3>1. x.page < m.page
      <4>1. ASSUME m.page <= x.page PROVE FALSE
        <5>1. m.page \in 1..x.page
          BY <1>t, <2>5, <4>1
        <5> QED
          BY <2>1, <2>3, <2>5, <5>1
      <4> QED
        BY <1>t, <2>5, <4>1
    <3>2. x.page + 1 \in 1..m.page /\ x.page + 1 # m.page
      BY <1>t, <2>5, <3>1
    <3>3. \E q \in M : q.page = x.page + 1
      BY <1>2, <3>2
    <3> QED
      BY <3>3
  <2> QED
    BY <2>4, <2>5
<1> QED
  BY <1>1, <1>3, <1>4 DEF Ledger

\* A marked receipt is the same receipt.
LEMMA AppliedMarks ==
  ASSUME TypeOK, NEW s \in Session, NEW r \in receipts[s], Applied(s, r)
  PROVE  \A t \in Session : Marks(t)' = Marks(t)
<1>1. PICK q : q = [r EXCEPT !.applied = TRUE]
  OBVIOUS
<1>2. r \in Receipt
  BY DEF TypeOK
<1>3. Mark(q) = Mark(r)
  BY <1>1, <1>2 DEF Mark, Receipt
<1>4. /\ receipts'[s] = (receipts[s] \ {r}) \cup {q}
      /\ \A t \in Session : t # s => receipts'[t] = receipts[t]
  BY <1>1 DEF Applied, TypeOK
<1>5. \A m : m \in Marks(s)' <=> m \in Marks(s)
  <2>1. ASSUME NEW m \in Marks(s) PROVE m \in Marks(s)'
    <3>1. PICK x \in receipts[s] : m = Mark(x)
      BY DEF Marks
    <3>2. CASE x = r
      BY <1>3, <1>4, <3>1, <3>2 DEF Marks
    <3>3. CASE x # r
      BY <1>4, <3>1, <3>3 DEF Marks
    <3> QED
      BY <3>2, <3>3
  <2>2. ASSUME NEW m \in Marks(s)' PROVE m \in Marks(s)
    <3>1. PICK x \in receipts'[s] : m = Mark(x)
      BY <2>2 DEF Marks
    <3>2. CASE x = q
      BY <1>3, <3>1, <3>2 DEF Marks
    <3>3. CASE x # q
      BY <1>4, <3>1, <3>3 DEF Marks
    <3> QED
      BY <3>2, <3>3
  <2> QED
    BY <2>1, <2>2
<1>6. Marks(s)' = Marks(s)
  BY <1>5
<1> QED
  BY <1>4, <1>6 DEF Marks

\* Steps that make no new copy of a session and no new receipt.
LEMMA CountedQuiet ==
  ASSUME Counted, inserted' = inserted,
         \A s \in Session : Marks(s)' = Marks(s),
         \A s \in Session : status'[s] = "new" => status[s] = "new",
         \A h \in Handler : work'[h] # Idle /\ work'[h].pc = "import" => ~work'[h].st.done,
         \A s \in Session : \A st : Copy(s, st)' => Copy(s, st)
  PROVE  Counted'
<1>1. ASSUME NEW s \in Session, NEW st, Copy(s, st)'
      PROVE  Ledger(Marks(s), inserted[s])' /\ Backed(Marks(s), st)'
  <2>1. Ledger(Marks(s), inserted[s]) /\ Backed(Marks(s), st)
    BY <1>1 DEF Counted, Recorded
  <2>2. Marks(s)' = Marks(s) /\ inserted'[s] = inserted[s]
    OBVIOUS
  <2>3. PICK M, n : M = Marks(s) /\ n = inserted[s]
    OBVIOUS
  <2>4. Ledger(M, n) /\ Backed(M, st)
    BY <2>1, <2>3
  <2>5. Marks(s)' = M /\ inserted[s]' = n
    BY <2>2, <2>3
  <2>6. Ledger(Marks(s), inserted[s])'
    BY <2>4, <2>5 DEF Ledger, Single, Chained, Summed
  <2>7. Backed(Marks(s), st)'
    BY <2>4, <2>5 DEF Backed
  <2> QED
    BY <2>6, <2>7
<1>2. Recorded'
  BY <1>1 DEF Recorded
<1>3. Unstarted' /\ Ongoing'
  BY DEF Counted, Unstarted, Ongoing
<1> QED
  BY <1>2, <1>3 DEF Counted

LEMMA CountedSame ==
  ASSUME TypeOK, Counted,
         \/ NewSubmission \/ RebindBumps \/ RebindCommits
         \/ \E s \in Session : SessionStale(s) \/ Replace(s) \/ Expire(s) \/ LockExpires(s)
                               \/ \E r \in receipts[s] : ReplayEffects(s, r)
         \/ \E h \in Handler : ImportStale(h) \/ RestartExhausted(h) \/ Effects(h)
                               \/ RefreshVerdicts(h) \/ Fails(h) \/ Crashes(h)
         \/ UNCHANGED vars
  PROVE  Counted'
<1> USE DEF sql, redis
<1> DEFINE SameSessions ==
             /\ \A s \in Session : status'[s] = "live" => status[s] = "live" /\ sess'[s] = sess[s]
             /\ \A s \in Session : status'[s] = "new" => status[s] = "new"
           SameWork ==
             \A h \in Handler : work'[h] # Idle =>
               /\ work[h] # Idle
               /\ work'[h].s = work[h].s /\ work'[h].st = work[h].st
               /\ work'[h].pc = "import" => work[h].pc = "import"
           SameMarks == \A s \in Session : Marks(s)' = Marks(s)
<1>1. ASSUME SameSessions, SameWork, SameMarks, inserted' = inserted
      PROVE  Counted'
  <2>1. ASSUME NEW s \in Session, NEW st, Copy(s, st)'
        PROVE  Copy(s, st)
    BY <1>1, <2>1 DEF Copy
  <2>2. \A h \in Handler : work'[h] # Idle /\ work'[h].pc = "import" => ~work'[h].st.done
    BY <1>1 DEF Counted, Ongoing
  <2> QED
    BY <1>1, <2>1, <2>2, CountedQuiet
<1>2. ASSUME receipts' = receipts
      PROVE  SameMarks
  BY <1>2 DEF Marks
<1>3. ASSUME NEW s \in Session, Terminate(s)
      PROVE  SameSessions
  BY <1>3 DEF Terminate, TypeOK
<1>4. CASE NewSubmission \/ RebindBumps \/ RebindCommits
  BY <1>1, <1>2, <1>4 DEF NewSubmission, RebindBumps, RebindCommits
<1>5. ASSUME NEW s \in Session, SessionStale(s) \/ Replace(s)
      PROVE  Counted'
  <2>1. SameSessions
    BY <1>3, <1>5 DEF SessionStale, Replace
  <2> QED
    BY <1>1, <1>2, <1>5, <2>1 DEF SessionStale, Replace
<1>6. ASSUME NEW s \in Session, Expire(s) \/ LockExpires(s)
      PROVE  Counted'
  <2>1. SameSessions
    BY <1>6 DEF Expire, LockExpires, TypeOK
  <2> QED
    BY <1>1, <1>2, <1>6, <2>1 DEF Expire, LockExpires
<1>7. ASSUME NEW s \in Session, NEW r \in receipts[s], ReplayEffects(s, r)
      PROVE  Counted'
  <2>1. SameMarks
    BY <1>7, AppliedMarks DEF ReplayEffects
  <2> QED
    BY <1>1, <1>7, <2>1 DEF ReplayEffects
<1>8. ASSUME NEW h \in Handler, ImportStale(h) \/ RestartExhausted(h)
      PROVE  Counted'
  <2>1. work[h].s \in Session
    BY <1>8, BusyWork DEF ImportStale, RestartExhausted, Idle, Work
  <2>2. SameSessions
    BY <1>3, <1>8, <2>1 DEF ImportStale, RestartExhausted
  <2>3. SameWork
    BY <1>8 DEF ImportStale, RestartExhausted, TypeOK
  <2> QED
    BY <1>1, <1>2, <1>8, <2>2, <2>3 DEF ImportStale, RestartExhausted
<1>9. ASSUME NEW h \in Handler, Effects(h)
      PROVE  Counted'
  <2>1. work[h] \in Work /\ work[h] # Idle
    BY <1>9, BusyWork DEF Effects, Idle
  <2>2. SameMarks
    BY <1>2, <1>9, <2>1, AppliedMarks DEF Effects, ReceiptsOf, Work
  <2>3. PICK w : w = [work[h] EXCEPT !.pc = work[h].next]
    OBVIOUS
  <2>4. w.s = work[h].s /\ w.st = work[h].st /\ w.pc # "import"
    BY <2>1, <2>3 DEF Work
  <2>5. work' = [work EXCEPT ![h] = w]
    BY <1>9, <2>3 DEF Effects
  <2>6. SameWork
    BY <2>1, <2>4, <2>5 DEF TypeOK
  <2> QED
    BY <1>1, <1>9, <2>2, <2>6 DEF Effects
<1>10. ASSUME NEW h \in Handler, Fails(h) \/ Crashes(h)
       PROVE  Counted'
  <2>1. SameWork
    BY <1>10 DEF Fails, Crashes, TypeOK
  <2> QED
    BY <1>1, <1>2, <1>10, <2>1 DEF Fails, Crashes
<1>11. CASE UNCHANGED vars
  BY <1>1, <1>2, <1>11 DEF vars
<1>12. ASSUME NEW h \in Handler, RefreshVerdicts(h)
       PROVE  Counted'
  BY <1>1, <1>2, <1>12 DEF RefreshVerdicts
<1> QED
  BY <1>4, <1>5, <1>6, <1>7, <1>8, <1>9, <1>10, <1>11, <1>12

\* Receipts go only when nothing knows the session any more.
LEMMA CountedClean ==
  ASSUME TypeOK, Counted, NEW s \in Session, CleanReceipts(s)
  PROVE  Counted'
<1>1. /\ UNCHANGED <<status, sess, work, inserted>>
      /\ \A t \in Session : t # s => receipts'[t] = receipts[t]
  BY DEF CleanReceipts, redis, TypeOK
<1>2. \A st : ~Copy(s, st)
  BY DEF CleanReceipts, Copy, Serving
<1>3. ASSUME NEW t \in Session, NEW st, Copy(t, st)'
      PROVE  Ledger(Marks(t), inserted[t])' /\ Backed(Marks(t), st)'
  <2>1. Copy(t, st) /\ t # s
    BY <1>1, <1>2, <1>3 DEF Copy
  <2>2. Marks(t)' = Marks(t) /\ inserted[t]' = inserted[t]
    BY <1>1, <2>1 DEF Marks
  <2> QED
    BY <2>1, <2>2 DEF Counted, Recorded, Ledger, Single, Chained, Summed, Backed
<1>4. Unstarted' /\ Ongoing'
  BY <1>1 DEF Counted, Unstarted, Ongoing
<1> QED
  BY <1>3, <1>4 DEF Counted, Recorded

LEMMA CountedStart ==
  ASSUME TypeOK, Founded, Counted, NEW s \in Session, Start(s)
  PROVE  Counted'
<1>1. PICK st : /\ sess' = [sess EXCEPT ![s] = st]
                /\ st.exp = 1 /\ st.last = 0 /\ ~st.done /\ st.ins = 0
  <2>1. PICK old, st : /\ old = IF head # 0 THEN head ELSE InferredCheckpoint
                       /\ st = [NoState EXCEPT !.old = old, !.gen = gen]
    OBVIOUS
  <2>2. st.exp = 1 /\ st.last = 0 /\ ~st.done /\ st.ins = 0
    BY <2>1 DEF NoState
  <2>3. sess' = [sess EXCEPT ![s] = st]
    BY <2>1 DEF Start
  <2> QED
    BY <2>2, <2>3
<1>2. /\ status[s] = "new" /\ status' = [status EXCEPT ![s] = "live"]
      /\ UNCHANGED <<receipts, work, inserted>>
  BY DEF Start, sql
<1>3. receipts[s] = {} /\ inserted[s] = 0 /\ \A h \in Handler : work[h] # Idle => work[h].s # s
  BY <1>2 DEF Founded, Untouched, Counted, Unstarted
<1>4. ASSUME NEW t \in Session, NEW x, Copy(t, x)'
      PROVE  Ledger(Marks(t), inserted[t])' /\ Backed(Marks(t), x)'
  <2>1. CASE t = s
    <3>1. x = st
      BY <1>1, <1>2, <1>3, <1>4, <2>1 DEF Copy, TypeOK
    <3>2. Marks(t)' = {} /\ inserted'[t] = 0
      BY <1>2, <1>3, <2>1 DEF Marks
    <3> QED
      BY <1>1, <3>1, <3>2 DEF Ledger, Single, Chained, Summed, Backed
  <2>2. CASE t # s
    <3>1. Copy(t, x)
      BY <1>1, <1>2, <1>4, <2>2 DEF Copy, TypeOK
    <3>2. Marks(t)' = Marks(t) /\ inserted[t]' = inserted[t]
      BY <1>2 DEF Marks
    <3> QED
      BY <3>1, <3>2 DEF Counted, Recorded, Ledger, Single, Chained, Summed, Backed
  <2> QED
    BY <2>1, <2>2
<1>5. Unstarted' /\ Ongoing'
  BY <1>2 DEF Counted, Unstarted, Ongoing, TypeOK
<1> QED
  BY <1>4, <1>5 DEF Counted, Recorded

\* The copies of a session that are there after a step of handler h on it.
LEMMA CopyOfOthers ==
  ASSUME TypeOK, NEW h \in Handler, NEW w, work' = [work EXCEPT ![h] = w],
         NEW s \in Session, NEW st, Copy(s, st)'
  PROVE  \/ status'[s] = "live" /\ st = sess'[s]
         \/ Copy(s, st)
         \/ w # Idle /\ w.s = s /\ st = w.st
<1>1. CASE status'[s] = "live" /\ st = sess'[s]
  BY <1>1
<1>2. ASSUME NEW g \in Handler, work'[g] # Idle, work'[g].s = s, st = work'[g].st
      PROVE  Copy(s, st) \/ (w # Idle /\ w.s = s /\ st = w.st)
  <2>1. CASE g = h
    BY <1>2, <2>1 DEF TypeOK
  <2>2. CASE g # h
    BY <1>2, <2>2 DEF Copy, TypeOK
  <2> QED
    BY <2>1, <2>2
<1> QED
  BY <1>1, <1>2 DEF Copy

LEMMA CountedUpload ==
  ASSUME TypeOK, Counted, NEW h \in Handler, NEW s \in Session, NEW p \in Pages,
         NEW a \in InitialTop..top, Upload(h, s, p, a)
  PROVE  Counted'
<1>1. PICK w : w = [pc |-> Decision(sess[s], p, a), s |-> s, page |-> p, top |-> a,
                    st |-> sess[s], next |-> "store"]
  OBVIOUS
<1>2. /\ work' = [work EXCEPT ![h] = w] /\ status[s] = "live"
      /\ UNCHANGED <<status, sess, receipts, inserted>>
  BY <1>1 DEF Upload, sql
<1>3. w.s = s /\ w.st = sess[s] /\ (w.pc = "import" => ~w.st.done)
  BY <1>1 DEF Decision
<1>4. ASSUME NEW t \in Session, NEW st, Copy(t, st)'
      PROVE  Copy(t, st)
  BY <1>2, <1>3, <1>4, CopyOfOthers DEF Copy
<1>5. \A g \in Handler : work'[g] # Idle /\ work'[g].pc = "import" => ~work'[g].st.done
  BY <1>2, <1>3 DEF Counted, Ongoing, TypeOK
<1>6. \A t \in Session : Marks(t)' = Marks(t)
  BY <1>2 DEF Marks
<1> QED
  BY <1>2, <1>4, <1>5, <1>6, CountedQuiet

LEMMA CountedStore ==
  ASSUME TypeOK, Counted, NEW h \in Handler, Store(h)
  PROVE  Counted'
<1>1. work[h] # Idle /\ work[h].s \in Session
  BY BusyWork DEF Store, Idle, Work
<1>2. /\ work' = [work EXCEPT ![h] = Idle] /\ sess' = Stored(work[h].s, work[h].st)
      /\ UNCHANGED <<status, receipts, inserted>>
  BY DEF Store, sql
<1>3. ASSUME NEW t \in Session, NEW st, Copy(t, st)'
      PROVE  Copy(t, st)
  <2>1. Copy(t, st) \/ (status[t] = "live" /\ st = sess'[t])
    BY <1>2, <1>3, CopyOfOthers
  <2>2. sess'[t] = sess[t] \/ (t = work[h].s /\ sess'[t] = work[h].st)
    BY <1>1, <1>2 DEF Stored, TypeOK
  <2> QED
    BY <1>1, <2>1, <2>2 DEF Copy
<1>4. \A g \in Handler : work'[g] # Idle /\ work'[g].pc = "import" => ~work'[g].st.done
  BY <1>2 DEF Counted, Ongoing, TypeOK
<1>5. \A t \in Session : Marks(t)' = Marks(t)
  BY <1>2 DEF Marks
<1> QED
  BY <1>2, <1>3, <1>4, <1>5, CountedQuiet

LEMMA CountedRestart ==
  ASSUME TypeOK, Counted, NEW h \in Handler, Restart(h)
  PROVE  Counted'
<1>1. work[h] # Idle /\ work[h].s \in Session /\ work[h].st \in State
  BY BusyWork DEF Restart, Idle, Work
<1>2. PICK x : x = [work[h].st EXCEPT !.restarts = @ + 1, !.exp = 1, !.first = 0,
                                      !.count = work[h].top, !.last = 0, !.done = FALSE]
  OBVIOUS
<1>3. /\ work' = [work EXCEPT ![h] = Idle] /\ sess' = Stored(work[h].s, x)
      /\ UNCHANGED <<status, receipts, inserted>>
  BY <1>2 DEF Restart, sql
<1>4. x.exp = 1 /\ x.last = 0 /\ ~x.done /\ x.restarts # 0
  BY <1>1, <1>2, Bounds DEF State
<1>5. \A t \in Session : Marks(t)' = Marks(t) /\ inserted[t]' = inserted[t]
  BY <1>3 DEF Marks
<1>6. ASSUME NEW t \in Session, NEW st, Copy(t, st)'
      PROVE  Ledger(Marks(t), inserted[t]) /\ Backed(Marks(t), st)
  <2>1. Copy(t, st) \/ (status[t] = "live" /\ st = sess'[t])
    BY <1>3, <1>6, CopyOfOthers
  <2>2. sess'[t] = sess[t] \/ (t = work[h].s /\ sess'[t] = x)
    BY <1>1, <1>3 DEF Stored, TypeOK
  <2>3. CASE Copy(t, st)
    BY <2>3 DEF Counted, Recorded
  <2>4. CASE t = work[h].s /\ st = x
    <3>1. Copy(t, work[h].st)
      BY <1>1, <2>4 DEF Copy
    <3>2. Ledger(Marks(t), inserted[t])
      BY <3>1 DEF Counted, Recorded
    <3> QED
      BY <1>4, <2>4, <3>2 DEF Backed
  <2> QED
    BY <2>1, <2>2, <2>3, <2>4 DEF Copy
<1>7. Unstarted' /\ Ongoing'
  BY <1>3 DEF Counted, Unstarted, Ongoing, TypeOK
<1>8. Recorded'
  BY <1>5, <1>6 DEF Recorded, Ledger, Single, Chained, Summed, Backed
<1> QED
  BY <1>7, <1>8 DEF Counted

LEMMA ImportedBacked ==
  ASSUME NEW st \in State, NEW r \in Receipt, r.scan = st.restarts, NEW M, Mark(r) \in M
  PROVE  Backed(M, Imported(st, r))
<1>1. PICK x : x = Imported(st, r)
  OBVIOUS
<1>2. /\ x.last = r.page /\ x.exp = r.page + 1 /\ x.ins = r.ins /\ x.done = r.done
      /\ x.restarts = st.restarts
  BY <1>1 DEF Imported, State
<1>3. r.page # 0
  BY DEF Receipt, Pages
<1>4. PICK m \in M : m = Mark(r)
  OBVIOUS
<1>5. m.scan = r.scan /\ m.page = r.page /\ m.ins = r.ins /\ m.done = r.done
  BY <1>4 DEF Mark
<1> QED
  BY <1>1, <1>2, <1>3, <1>5 DEF Backed

LEMMA CountedReplay ==
  ASSUME TypeOK, Counted, NEW h \in Handler, Replay(h)
  PROVE  Counted'
<1>1. work[h] \in Work /\ work[h] # Idle
  BY BusyWork DEF Replay, Idle
<1>2. work[h].s \in Session /\ work[h].st \in State
  BY <1>1 DEF Work
<1>3. PICK r \in receipts[work[h].s] :
        /\ r.scan = work[h].st.restarts
        /\ work' = [work EXCEPT ![h] = [work[h] EXCEPT
             !.pc = "effects", !.st = Imported(work[h].st, r),
             !.next = IF r.count = work[h].top THEN "store" ELSE "restart"]]
  BY DEF Replay, ReceiptsOf
<1>4. PICK w : w = [work[h] EXCEPT
                      !.pc = "effects", !.st = Imported(work[h].st, r),
                      !.next = IF r.count = work[h].top THEN "store" ELSE "restart"]
  OBVIOUS
<1>5. w.s = work[h].s /\ w.st = Imported(work[h].st, r) /\ w.pc = "effects"
  BY <1>1, <1>4 DEF Work
<1>6. UNCHANGED <<status, sess, receipts, inserted>> /\ work' = [work EXCEPT ![h] = w]
  BY <1>3, <1>4 DEF Replay, sql, redis
<1>7. \A t \in Session : Marks(t)' = Marks(t) /\ inserted[t]' = inserted[t]
  BY <1>6 DEF Marks
<1>8. ASSUME NEW t \in Session, NEW st, Copy(t, st)'
      PROVE  Ledger(Marks(t), inserted[t]) /\ Backed(Marks(t), st)
  <2>1. Copy(t, st) \/ (t = w.s /\ st = w.st)
    BY <1>6, <1>8, CopyOfOthers DEF Copy
  <2>2. CASE Copy(t, st)
    BY <2>2 DEF Counted, Recorded
  <2>3. CASE t = w.s /\ st = w.st
    <3>1. Copy(t, work[h].st)
      BY <1>1, <1>5, <2>3 DEF Copy
    <3>2. Ledger(Marks(t), inserted[t])
      BY <3>1 DEF Counted, Recorded
    <3>3. Mark(r) \in Marks(t) /\ r \in Receipt
      BY <1>2, <1>5, <2>3 DEF Marks, TypeOK
    <3>4. Backed(Marks(t), st)
      BY <1>2, <1>3, <1>5, <2>3, <3>3, ImportedBacked
    <3> QED
      BY <3>2, <3>4
  <2> QED
    BY <2>1, <2>2, <2>3
<1>9. Unstarted' /\ Ongoing'
  BY <1>5, <1>6 DEF Counted, Unstarted, Ongoing, TypeOK
<1>10. Recorded'
  BY <1>7, <1>8 DEF Recorded, Ledger, Single, Chained, Summed, Backed
<1> QED
  BY <1>9, <1>10 DEF Counted

LEMMA CountedCommit ==
  ASSUME TypeOK, Founded, Counted, NEW h \in Handler, Commit(h)
  PROVE  Counted'
<1>1. work[h] \in Work /\ work[h] # Idle /\ work[h].pc = "import"
  BY BusyWork DEF Commit, Fresh, Idle
<1>2. /\ work[h].s \in Session /\ work[h].st \in State /\ work[h].page \in Pages
      /\ work[h].top \in 0..MaxTop /\ work[h].page = work[h].st.exp
  BY <1>1 DEF Work, Founded, Copies
<1>s. PICK s \in Session : s = work[h].s
  BY <1>2
<1>3. PICK n : n = Cardinality(PageIds(work[h].page, work[h].top) \ rows)
  OBVIOUS
<1>a. PICK r : Writes(h, n, r)
  BY <1>3, CommitReceipt
<1>4. /\ r = [scan |-> work[h].st.restarts, page |-> work[h].page, count |-> work[h].top,
              ins |-> work[h].st.ins + n, new |-> n,
              first |-> FirstOf(work[h]), done |-> Completes(work[h]), applied |-> r.applied]
      /\ r.applied \in BOOLEAN
      /\ receipts' = [receipts EXCEPT ![work[h].s] = @ \cup {r}]
      /\ work' = [work EXCEPT ![h] =
                    [work[h] EXCEPT !.pc = "effects", !.st = Imported(work[h].st, r)]]
  BY <1>a DEF Writes
<1>5. PICK w : w = [work[h] EXCEPT !.pc = "effects", !.st = Imported(work[h].st, r)]
  OBVIOUS
<1>6. /\ receipts' = [receipts EXCEPT ![s] = @ \cup {r}]
      /\ inserted' = [inserted EXCEPT ![s] = @ + n]
      /\ work' = [work EXCEPT ![h] = w]
      /\ UNCHANGED <<status, sess>>
      /\ ReceiptsOf(s, work[h].st.restarts, work[h].page) = {}
  BY <1>s, <1>3, <1>4, <1>5 DEF Commit, Fresh, redis
<1>7. w.s = s /\ w.st = Imported(work[h].st, r) /\ w.pc = "effects"
  BY <1>s, <1>1, <1>5 DEF Work
<1>8. n \in Nat
  <2>1. work[h].top \in Nat
    BY <1>2, Bounds
  <2> QED
    BY <2>1, <1>3, PageCounts
<1>9. r \in Receipt /\ r.scan = work[h].st.restarts
  <2>1. FirstOf(work[h]) \in 0..MaxTop /\ Completes(work[h]) \in BOOLEAN
    BY <1>2 DEF FirstOf, Completes, State
  <2> QED
    BY <1>2, <1>4, <1>8, <2>1 DEF Receipt, State
<1>10. PICK m : m = Mark(r)
  OBVIOUS
<1>11. /\ m.scan = work[h].st.restarts /\ m.page = work[h].st.exp
       /\ m.ins = work[h].st.ins + n /\ m \in MarkType
  <2>1. m \in MarkType
    BY <1>9, <1>10, Bounds DEF Receipt, Mark, MarkType, Pages
  <2> QED
    BY <1>2, <1>4, <1>10, <2>1 DEF Mark
<1>12. /\ Marks(s)' = Marks(s) \cup {m}
       /\ \A t \in Session : t # s => Marks(t)' = Marks(t)
  <2>1. receipts'[s] = receipts[s] \cup {r}
    BY <1>s, <1>6 DEF TypeOK
  <2>2. Marks(s)' = Marks(s) \cup {m}
    <3>1. ASSUME NEW q \in Marks(s)'
          PROVE  q \in Marks(s) \cup {m}
      <4>1. PICK x \in receipts'[s] : q = Mark(x)
        BY <3>1 DEF Marks
      <4> QED
        BY <1>10, <2>1, <4>1 DEF Marks
    <3>2. ASSUME NEW q \in Marks(s) \cup {m}
          PROVE  q \in Marks(s)'
      BY <1>10, <2>1, <3>2 DEF Marks
    <3> QED
      BY <3>1, <3>2
  <2>3. \A t \in Session : t # s => Marks(t)' = Marks(t)
    BY <1>6 DEF Marks, TypeOK
  <2> QED
    BY <2>2, <2>3
<1>13. Copy(s, work[h].st)
  BY <1>s, <1>1 DEF Copy
<1>14. Ledger(Marks(s), inserted[s]) /\ Backed(Marks(s), work[h].st)
  BY <1>2, <1>13 DEF Counted, Recorded
<1>15. \A q \in Marks(s) : ~(q.scan = m.scan /\ q.page = m.page)
  <2>1. ASSUME NEW q \in Marks(s), q.scan = m.scan, q.page = m.page
        PROVE  FALSE
    <3>1. PICK x \in receipts[s] : q = Mark(x)
      BY DEF Marks
    <3>2. x \in ReceiptsOf(s, work[h].st.restarts, work[h].page)
      BY <1>2, <1>11, <2>1, <3>1 DEF Mark, ReceiptsOf
    <3> QED
      BY <1>6, <3>2
  <2> QED
    BY <2>1
<1>16. Ledger(Marks(s) \cup {m}, inserted[s] + n)
  <2>1. Marks(s) \in SUBSET MarkType /\ inserted[s] \in Nat
    BY <1>2, MarksType DEF TypeOK
  <2>2. ~work[h].st.done
    BY <1>1 DEF Counted, Ongoing
  <2> QED
    BY <1>2, <1>8, <1>11, <1>14, <1>15, <2>1, <2>2, LedgerGrows
<1>17. ASSUME NEW t \in Session, NEW st, Copy(t, st)'
       PROVE  Ledger(Marks(t), inserted[t])' /\ Backed(Marks(t), st)'
  <2>1. Copy(t, st) \/ (t = s /\ st = w.st)
    BY <1>6, <1>7, <1>17, CopyOfOthers DEF Copy
  <2>2. CASE t # s
    <3>1. Marks(t)' = Marks(t) /\ inserted[t]' = inserted[t]
      BY <1>6, <1>12, <2>2 DEF TypeOK
    <3> QED
      BY <2>1, <2>2, <3>1 DEF Counted, Recorded, Ledger, Single, Chained, Summed, Backed
  <2>3. CASE t = s
    <3>1. Marks(t)' = Marks(t) \cup {m} /\ inserted[t]' = inserted[t] + n
      <4>1. inserted'[s] = inserted[s] + n
        BY <1>s, <1>6 DEF TypeOK
      <4> QED
        BY <1>12, <2>3, <4>1
    <3>2. PICK M : M = Marks(t) \cup {m}
      OBVIOUS
    <3>3. Backed(M, st)
      <4>1. CASE Copy(t, st)
        <5>1. Backed(Marks(t), st)
          BY <4>1 DEF Counted, Recorded
        <5> QED
          BY <3>2, <5>1, BackedGrows
      <4>2. CASE st = w.st
        BY <1>2, <1>7, <1>9, <1>10, <3>2, <4>2, ImportedBacked
      <4> QED
        BY <2>1, <4>1, <4>2
    <3>4. Backed(Marks(t), st)'
      BY <3>1, <3>2, <3>3 DEF Backed
    <3>5. Ledger(Marks(t), inserted[t])'
      BY <1>16, <2>3, <3>1 DEF Ledger, Single, Chained, Summed
    <3> QED
      BY <3>4, <3>5
  <2> QED
    BY <2>2, <2>3
<1>18. Unstarted'
  <2>1. status[s] # "new"
    BY <1>s, <1>1, <1>2 DEF Founded, Untouched
  <2> QED
    BY <1>6, <2>1 DEF Counted, Unstarted, TypeOK
<1>19. Ongoing'
  BY <1>6, <1>7 DEF Counted, Ongoing, TypeOK
<1> QED
  BY <1>17, <1>18, <1>19 DEF Counted, Recorded

LEMMA CountedInit == Init => Counted
<1> SUFFICES ASSUME Init PROVE Counted
  OBVIOUS
<1>1. \A s \in Session : \A st : ~Copy(s, st)
  BY DEF Init, Copy
<1>2. Unstarted /\ Ongoing
  BY DEF Init, Unstarted, Ongoing
<1> QED
  BY <1>1, <1>2 DEF Counted, Recorded

LEMMA CountedStep == TypeOK /\ Founded /\ Counted /\ [Next]_vars => Counted'
BY CountedSame, CountedClean, CountedStart, CountedUpload, CountedReplay, CountedCommit,
   CountedStore, CountedRestart DEF Next, Browser, Serve

\* The receipt of a finished session's last page ends the chain of its first
\* scan, so it has the whole sum.
LEMMA CountedExact == TypeOK /\ Counted => CountersExact
<1> SUFFICES ASSUME TypeOK, Counted, NEW s \in Session,
                    status[s] = "live", sess[s].done, \A r \in receipts[s] : r.scan = 0
             PROVE  sess[s].ins = inserted[s]
  BY DEF CountersExact
<1>1. Ledger(Marks(s), inserted[s]) /\ Backed(Marks(s), sess[s])
  BY DEF Counted, Recorded, Copy
<1>2. \A m \in Marks(s) : m.scan = 0 /\ m.page \in Nat \ {0}
  <2>1. \A m \in Marks(s) : m.scan = 0
    BY DEF Marks, Mark
  <2> QED
    BY <2>1, MarksType DEF MarkType
<1>3. PICK m \in Marks(s) : m.ins = sess[s].ins /\ m.done
  BY <1>1 DEF Backed
<1>4. ASSUME NEW q \in Marks(s), q.page = m.page + 1
      PROVE  FALSE
  <2>1. m.page \in 1..q.page /\ m.page < q.page
    BY <1>2, <1>4
  <2>2. PICK x \in Marks(s) : x.scan = 0 /\ x.page = m.page /\ ~x.done
    BY <1>1, <1>2, <2>1 DEF Ledger, Chained
  <2>3. x = m
    BY <1>1, <1>2, <2>2 DEF Ledger, Single
  <2> QED
    BY <1>3, <2>2, <2>3
<1> QED
  BY <1>1, <1>2, <1>3, <1>4 DEF Ledger, Summed

\* For every number of sessions, handlers, pages and faults: a finished session
\* that scanned once reports exactly the rows its pages inserted.
THEOREM CountersCorrect == Spec => []CountersExact
<1>1. Spec => [](TypeOK /\ Founded /\ Counted)
  BY TypeInit, TypeStep, FoundedInit, FoundedStep, CountedInit, CountedStep, PTL DEF Spec
<1> QED
  BY <1>1, CountedExact, PTL
=============================================================================
