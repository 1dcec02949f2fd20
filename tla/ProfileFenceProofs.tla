------------------------- MODULE ProfileFenceProofs -------------------------
(***************************************************************************)
(* Proofs about ProfileFence: type correctness, that an operation replaces *)
(* the facts at most once and then reaches its tail, and that the fence is *)
(* never corrupt, for any number of workers, operations and builders and   *)
(* under every fault of the model.                                         *)
(***************************************************************************)
EXTENDS ProfileFence, TLAPS

\* A worker outside "idle" works on an operation.
HasOp == \A w \in Workers : pc[w] # "idle" => op[w] \in Ops

TypeInv == TypeOK /\ HasOp

LEMMA Parity ==
  /\ 0 \in Even
  /\ \A n \in Nat : n % 2 = 0 => n \in Even /\ (n + 1) \in Odd /\ (n + 1) % 2 = 1
  /\ \A n \in Nat : n % 2 = 1 => n \in Odd
  /\ \A n \in Nat : n % 2 = 0 \/ n % 2 = 1
BY DEF Even, Odd

LEMMA TypeInit == Init => TypeInv
BY FenceConstants, Parity
DEF Init, TypeInv, TypeOK, HasOp, Row, NewRow, NoRow, Phases, Snapshot, NoSnapshot, WorkerPC

\* The type of a worker's own variables after it leaves.
LEMMA LeaveType ==
  ASSUME TypeInv, NEW w \in Workers, Leave(w)
  PROVE  /\ pc' \in [Workers -> WorkerPC] /\ op' \in [Workers -> Ops \cup {Nobody}]
         /\ seenRow' \in [Workers -> Row] /\ token' \in [Workers -> Odd \cup {0}]
         /\ HasOp'
<1>1. NoRow \in Row
  BY DEF NoRow, Row, Phases
<1> QED BY <1>1 DEF TypeInv, TypeOK, HasOp, Leave, Goto, WorkerPC

LEMMA WorkerStepType ==
  ASSUME TypeInv, NEW w \in Workers, WorkerStep(w) \/ Crash(w) \/ \E o \in Ops : Load(w, o)
  PROVE  TypeInv'
<1> USE FenceConstants
<1>t. TypeOK /\ HasOp /\ NoSnapshot \in Snapshot /\ NoRow \in Row
  BY DEF TypeInv, NoSnapshot, Snapshot, NoRow, Row, Phases
<1>1. CASE \E o \in Ops : Load(w, o)
  <2>1. PICK o \in Ops : Load(w, o)
    BY <1>1
  <2>2. op' \in [Workers -> Ops \cup {Nobody}] /\ seenRow' \in [Workers -> Row]
    BY <1>t, <2>1 DEF Load, TypeOK
  <2>3. pc' \in [Workers -> WorkerPC] /\ HasOp'
    BY <1>t, <2>1 DEF Load, Goto, TypeOK, HasOp, WorkerPC
  <2> QED
    BY <1>t, <2>1, <2>2, <2>3 DEF Load, TypeInv, TypeOK, fence, builder, history
<1>2. CASE Begin(w)
  <2>1. gen' \in Nat /\ gen' \in Odd
    <3>1. gen \in Nat /\ ((gen' = gen /\ gen % 2 = 1) \/ (gen' = gen + 1 /\ gen % 2 # 1))
      BY <1>2, <1>t DEF Begin, Closed, TypeOK
    <3>2. gen % 2 = 0 \/ gen % 2 = 1
      BY <3>1, Parity
    <3> QED BY <3>1, <3>2, Parity
  <2>2. token' \in [Workers -> Odd \cup {0}] /\ lease' \in Workers
    BY <1>2, <1>t, <2>1 DEF Begin, TypeOK
  <2>3. pc' \in [Workers -> WorkerPC] /\ HasOp'
    BY <1>2, <1>t DEF Begin, Goto, TypeOK, HasOp, WorkerPC
  <2>4. fenceIntent' \in Ops \cup {Nobody}
    BY <1>2, <1>t DEF Begin, TypeOK
  <2> QED
    BY <1>2, <1>t, <2>1, <2>2, <2>3, <2>4 DEF Begin, TypeInv, TypeOK, builder, history
<1>3. CASE BeginRefused(w)
  BY <1>3, <1>t, LeaveType DEF BeginRefused, TypeInv, TypeOK, fence, builder, history
<1>r. ASSUME TakeOver(w), pc[w] # "idle"
      PROVE  row' \in [Ops -> Row] /\ seenRow' \in [Workers -> Row] /\ faults' \in 0..MaxFaults
  <2>1. /\ row' = [row EXCEPT ![op[w]].rev = @ + 1, ![op[w]].owner = w]
        /\ seenRow' = [seenRow EXCEPT ![w].rev = @ + 1, ![w].owner = w]
        /\ faults' = faults \/ (faults < MaxFaults /\ faults' = faults + 1)
    BY <1>r DEF TakeOver, FaultUnless, Fault
  <2>2. op[w] \in Ops /\ row \in [Ops -> Row] /\ seenRow \in [Workers -> Row] /\ faults \in 0..MaxFaults
    BY <1>r, <1>t DEF TypeOK, HasOp
  <2>3. ASSUME NEW r \in Row PROVE [r EXCEPT !.rev = @ + 1, !.owner = w] \in Row
    <3>1. r.rev + 1 \in Nat /\ w \in Workers \cup {Nobody}
      BY DEF Row
    <3>2. [r EXCEPT !.rev = r.rev + 1] \in Row
      BY <3>1 DEF Row, Phases
    <3>3. [[r EXCEPT !.rev = r.rev + 1] EXCEPT !.owner = w] \in Row
      BY <3>1, <3>2 DEF Row, Phases
    <3> QED BY <3>3
  <2>4. row' = [row EXCEPT ![op[w]] = [row[op[w]] EXCEPT !.rev = @ + 1, !.owner = w]]
    BY <2>1, <2>2
  <2>5. seenRow' = [seenRow EXCEPT ![w] = [seenRow[w] EXCEPT !.rev = @ + 1, !.owner = w]]
    BY <2>1, <2>2
  <2>6. row[op[w]] \in Row /\ seenRow[w] \in Row
    BY <2>2
  <2>7. row' \in [Ops -> Row]
    BY <2>2, <2>3, <2>4, <2>6
  <2>8. seenRow' \in [Workers -> Row]
    BY <2>2, <2>3, <2>5, <2>6
  <2>9. faults' \in 0..MaxFaults
    BY <2>1, <2>2
  <2> QED BY <2>7, <2>8, <2>9
<1>4. CASE Claim(w)
  <2>1. row' \in [Ops -> Row] /\ seenRow' \in [Workers -> Row] /\ faults' \in 0..MaxFaults
    BY <1>4, <1>t, <1>r DEF Claim, TypeOK
  <2>2. pc' \in [Workers -> WorkerPC] /\ HasOp'
    BY <1>4, <1>t DEF Claim, Goto, TypeOK, HasOp, WorkerPC
  <2> QED
    BY <1>4, <1>t, <2>1, <2>2 DEF Claim, TypeInv, TypeOK, fence, builder, history
<1>5. CASE Abandon(w)
  BY <1>5, <1>t, LeaveType DEF Abandon, LeaseUnattended, Fault, TypeInv, TypeOK, builder, history
<1>6. CASE MarkFacts(w)
  BY <1>6, <1>t DEF MarkFacts, Goto, TypeInv, TypeOK, HasOp, WorkerPC, fence, builder, history
<1>7. CASE WorkFails(w)
  BY <1>7, <1>t DEF WorkFails, FaultUnless, Fault, Goto, TypeInv, TypeOK, HasOp, WorkerPC, fence,
     builder, history
<1>8. CASE CommitInDoubt(w)
  BY <1>8, <1>t DEF CommitInDoubt, Fault, Goto, TypeInv, TypeOK, HasOp, WorkerPC, fence, builder, history
<1>9. CASE FinishFence(w)
  BY <1>9, <1>t DEF FinishFence, Reopen, ReopenFails, FaultUnless, Fault, Goto, TypeInv, TypeOK, HasOp,
     WorkerPC, builder, history
<1>10. CASE Undo(w)
  <2>1. CASE Reopen(w) /\ Goto(w, "undoClear") /\ UNCHANGED <<op, seenRow, token, faults>>
    BY <1>10, <1>t, <2>1 DEF Undo, Reopen, Goto, TypeInv, TypeOK, HasOp, WorkerPC, builder, history
  <2>2. CASE ReopenFails(w) /\ LeaseUnattended(w) /\ Leave(w)
    BY <1>10, <1>t, <2>2, LeaveType DEF Undo, ReopenFails, FaultUnless, Fault, LeaseUnattended,
       TypeInv, TypeOK, builder, history
  <2> QED BY <1>10, <2>1, <2>2 DEF Undo
<1>d. ASSUME DeleteRow(w), pc[w] # "idle" PROVE row' \in [Ops -> Row]
  BY <1>d, <1>t DEF DeleteRow, TypeOK, HasOp
<1>11. CASE UndoClear(w) \/ Clear(w)
  <2>1. row' \in [Ops -> Row] /\ Leave(w)
    BY <1>11, <1>d DEF UndoClear, Clear
  <2> QED
    BY <1>11, <1>t, <2>1, LeaveType DEF UndoClear, Clear, TypeInv, TypeOK, fence, builder, history
<1>12. CASE Advance(w)
  <2>1. CASE RowMatches(w)
    <3>1. /\ row' = [row EXCEPT ![op[w]].phase = "fence_finalized", ![op[w]].rev = @ + 1]
          /\ seenRow' = [seenRow EXCEPT ![w] = row'[op[w]]]
          /\ pc' = [pc EXCEPT ![w] = "tail"] /\ UNCHANGED <<op, token>>
      BY <1>12, <2>1 DEF Advance, Goto
    <3>2. op[w] \in Ops
      BY <1>12, <1>t DEF Advance, HasOp
    <3>3. row' \in [Ops -> Row]
      BY <1>t, <3>1, <3>2 DEF TypeOK, Row, Phases
    <3>4. seenRow' \in [Workers -> Row]
      BY <1>t, <3>1, <3>2, <3>3 DEF TypeOK
    <3> QED
      BY <1>12, <1>t, <3>1, <3>2, <3>3, <3>4
      DEF Advance, TypeInv, TypeOK, HasOp, WorkerPC, fence, builder, history
  <2>2. CASE ~RowMatches(w)
    BY <1>12, <1>t, <2>2, LeaveType DEF Advance, TypeInv, TypeOK, fence, builder, history
  <2> QED BY <2>1, <2>2
<1>13. CASE TailClaim(w)
  <2>1. CASE RevisionMatches(w)
    <3>1. row' \in [Ops -> Row] /\ seenRow' \in [Workers -> Row] /\ faults' \in 0..MaxFaults
      BY <1>13, <2>1, <1>r DEF TailClaim
    <3> QED
      BY <1>13, <1>t, <2>1, <3>1
      DEF TailClaim, Goto, TypeInv, TypeOK, HasOp, WorkerPC, fence, builder, history
  <2>2. CASE ~RevisionMatches(w)
    BY <1>13, <1>t, <2>2, LeaveType DEF TailClaim, TypeInv, TypeOK, fence, builder, history
  <2> QED BY <2>1, <2>2
<1>14. CASE Tail(w)
  BY <1>14, <1>t DEF Tail, Goto, TypeInv, TypeOK, HasOp, WorkerPC, fence, builder
<1>15. CASE Crash(w)
  BY <1>15, <1>t, LeaveType DEF Crash, Fault, LeaseUnattended, TypeInv, TypeOK, builder, history
<1> QED
  BY <1>1, <1>2, <1>3, <1>4, <1>5, <1>6, <1>7, <1>8, <1>9, <1>10, <1>11, <1>12, <1>13, <1>14, <1>15
  DEF WorkerStep

LEMMA TypeNext == TypeInv /\ [Next]_vars => TypeInv'
<1> SUFFICES ASSUME TypeInv, [Next]_vars PROVE TypeInv'
  OBVIOUS
<1> USE FenceConstants
<1>t. TypeOK /\ HasOp
  BY DEF TypeInv
<1>1. ASSUME NEW w \in Workers, WorkerStep(w) \/ Crash(w) \/ \E o \in Ops : Load(w, o)
      PROVE  TypeInv'
  BY <1>1, WorkerStepType
<1>2. ASSUME NEW o \in Ops, Request(o) PROVE TypeInv'
  <2>1. [phase |-> "intent", rev |-> 1, owner |-> Nobody] \in Row
    BY DEF Row, Phases
  <2> QED
    BY <1>2, <1>t, <2>1 DEF Request, TypeInv, TypeOK, HasOp, fence, worker, builder, history
<1>3. ASSUME NEW o \in Ops, CommitFacts(o) PROVE TypeInv'
  <2>1. row' \in [Ops -> Row]
    BY <1>3, <1>t DEF CommitFacts, TypeOK, Row, Phases
  <2>2. applied' \in [Ops -> Nat] /\ tx' \in [Ops -> Workers \cup {Nobody}]
    BY <1>3, <1>t DEF CommitFacts, TypeOK
  <2>3. tx[o] \in Workers
    BY <1>3, <1>t DEF CommitFacts, TypeOK
  <2>4. /\ pc' \in [Workers -> WorkerPC] /\ seenRow' \in [Workers -> Row]
        /\ HasOp'
    <3>1. CASE pc[tx[o]] = "commit" /\ op[tx[o]] = o
      <4>1. /\ pc' = [pc EXCEPT ![tx[o]] = "finish"] /\ op' = op
            /\ seenRow' = [seenRow EXCEPT ![tx[o]] = row'[o]]
        BY <1>3, <3>1 DEF CommitFacts, Goto
      <4> QED BY <1>t, <2>1, <2>3, <3>1, <4>1 DEF TypeOK, HasOp, WorkerPC
    <3>2. CASE ~(pc[tx[o]] = "commit" /\ op[tx[o]] = o)
      BY <1>3, <1>t, <3>2 DEF CommitFacts, TypeOK, HasOp
    <3> QED BY <3>1, <3>2
  <2> QED
    BY <1>3, <1>t, <2>1, <2>2, <2>4 DEF CommitFacts, TypeInv, TypeOK, fence, builder
<1>4. ASSUME NEW o \in Ops, RollbackFacts(o) PROVE TypeInv'
  <2>1. tx[o] \in Workers /\ tx' \in [Ops -> Workers \cup {Nobody}]
    BY <1>4, <1>t DEF RollbackFacts, TypeOK
  <2>2. pc' \in [Workers -> WorkerPC] /\ HasOp' /\ faults' \in 0..MaxFaults
    BY <1>4, <1>t, <2>1 DEF RollbackFacts, Fault, Goto, TypeOK, HasOp, WorkerPC
  <2> QED
    BY <1>4, <1>t, <2>1, <2>2 DEF RollbackFacts, TypeInv, TypeOK, fence, builder, history
<1>5. CASE LeaseExpires
  BY <1>5, <1>t DEF LeaseExpires, Fault, TypeInv, TypeOK, HasOp, worker, builder, history
<1>6. CASE RecoverOrphan
  BY <1>6, <1>t DEF RecoverOrphan, TypeInv, TypeOK, HasOp, worker, builder, history
<1>7. ASSUME NEW b \in Builders, BuilderStep(b) PROVE TypeInv'
  <2>1. CASE ReadGeneration(b)
    BY <1>t, <2>1, Parity DEF ReadGeneration, MayBuild, Closed, BuilderGoto, TypeInv, TypeOK, HasOp,
       fence, worker, history
  <2>2. CASE ReadIdentity(b)
    BY <1>t, <2>2 DEF ReadIdentity, Facts, BuilderGoto, TypeInv, TypeOK, HasOp, fence, worker, history
  <2>3. CASE CheckIdentity(b)
    BY <1>t, <2>3, Parity DEF CheckIdentity, BuilderGoto, BuilderLeave, TypeInv, TypeOK, HasOp,
       fence, worker, history
  <2>4. CASE Publish(b)
    BY <1>t, <2>4, Parity DEF Publish, BuilderGoto, BuilderLeave, Snapshot, TypeInv, TypeOK, HasOp,
       fence, worker, history
  <2> QED BY <1>7, <2>1, <2>2, <2>3, <2>4 DEF BuilderStep
<1>8. CASE UNCHANGED vars
  BY <1>8, <1>t DEF TypeInv, TypeOK, HasOp, vars, fence, worker, builder, history
<1> QED BY <1>1, <1>2, <1>3, <1>4, <1>5, <1>6, <1>7, <1>8 DEF Next

(* Every value has its type: in particular the token a worker got from     *)
(* profileBeginInvalidationScript is always an odd generation, and the one *)
(* a builder read with readProfileCacheGeneration always an even one.      *)
THEOREM TypeCorrect == Spec => []TypeOK
<1>1. TypeInv => TypeOK
  BY DEF TypeInv
<1> QED BY <1>1, TypeInit, TypeNext, PTL DEF Spec

-----------------------------------------------------------------------------
(* An operation replaces the facts at most once.                           *)

\* The phase of a row says whether its facts are replaced, and an undecided
\* transaction keeps the row in "intent".
RowTellsFacts ==
  \A o \in Ops :
    /\ applied[o] <= 1
    /\ row[o].phase \in {"new", "intent"} => applied[o] = 0
    /\ tx[o] # Nobody => row[o].phase = "intent"

\* A worker's copy of its row is never ahead of the row, and a copy of the
\* same revision has the same phase.
CopyIsPast ==
  \A w \in Workers :
    /\ pc[w] # "idle" => row[op[w]].phase # "new"
    /\ pc[w] # "idle" /\ Present(op[w]) =>
         /\ seenRow[w].rev <= row[op[w]].rev
         /\ seenRow[w].rev = row[op[w]].rev => seenRow[w].phase = row[op[w]].phase
    /\ pc[w] = "work" => seenRow[w].phase = "intent"

OnceInv == TypeInv /\ RowTellsFacts /\ CopyIsPast

LEMMA OnceInit == Init => OnceInv
BY FenceConstants, TypeInit DEF OnceInv, Init, RowTellsFacts, CopyIsPast, NewRow

\* A step that leaves the row and the facts alone, and moves a worker without
\* giving it another row, keeps the invariant.
LEMMA OnceFrame ==
  ASSUME OnceInv, UNCHANGED <<row, applied>>,
         \A o \in Ops : tx'[o] # Nobody => tx[o] # Nobody,
         \A w \in Workers : pc'[w] # "idle" =>
           pc[w] # "idle" /\ op'[w] = op[w] /\ seenRow'[w] = seenRow[w]
             /\ (pc'[w] = "work" => pc[w] = "work")
  PROVE  RowTellsFacts' /\ CopyIsPast'
BY DEF OnceInv, RowTellsFacts, CopyIsPast, Present

\* The claim: the row and the worker's copy of it move on together.
LEMMA OnceTakeOver ==
  ASSUME OnceInv, NEW w \in Workers, pc[w] # "idle", RevisionMatches(w), TakeOver(w),
         NEW where \in WorkerPC, where = "work" => seenRow[w].phase = "intent",
         Goto(w, where), UNCHANGED <<op, tx, applied>>
  PROVE  RowTellsFacts' /\ CopyIsPast'
<1>t. TypeOK /\ HasOp /\ RowTellsFacts /\ CopyIsPast /\ op[w] \in Ops
  BY DEF OnceInv, TypeInv, HasOp
<1>1. \A o \in Ops : /\ row'[o].phase = row[o].phase /\ row[o].rev \in Nat
                     /\ row'[o].rev = IF o = op[w] THEN row[o].rev + 1 ELSE row[o].rev
  BY <1>t DEF TakeOver, TypeOK, Row
<1>2. \A v \in Workers : /\ seenRow'[v].phase = seenRow[v].phase /\ seenRow[v].rev \in Nat
                         /\ seenRow'[v].rev = IF v = w THEN seenRow[v].rev + 1 ELSE seenRow[v].rev
  BY <1>t DEF TakeOver, TypeOK, Row
<1>3. \A v \in Workers : pc'[v] = IF v = w THEN where ELSE pc[v]
  BY <1>t DEF Goto, TypeOK
<1>4. RowTellsFacts'
  BY <1>t, <1>1 DEF RowTellsFacts
<1>5. ASSUME NEW v \in Workers, pc'[v] # "idle"
      PROVE  /\ op[v] \in Ops /\ row'[op[v]].phase # "new"
             /\ Present(op[v])' =>
                  /\ seenRow'[v].rev <= row'[op[v]].rev
                  /\ seenRow'[v].rev = row'[op[v]].rev => seenRow'[v].phase = row'[op[v]].phase
  <2>1. pc[v] # "idle" /\ op[v] \in Ops
    BY <1>t, <1>3, <1>5 DEF HasOp
  <2>2. CASE v = w
    BY <1>t, <1>1, <1>2, <2>1, <2>2 DEF CopyIsPast, Present, RevisionMatches
  <2>3. CASE v # w
    BY <1>t, <1>1, <1>2, <2>1, <2>3 DEF CopyIsPast, Present
  <2> QED BY <2>2, <2>3
<1>6. \A v \in Workers : pc'[v] = "work" => seenRow'[v].phase = "intent"
  BY <1>t, <1>2, <1>3 DEF CopyIsPast
<1> QED BY <1>4, <1>5, <1>6 DEF CopyIsPast

\* A worker that leaves, after its row was deleted or not.
LEMMA OnceDelete ==
  ASSUME OnceInv, NEW w \in Workers, pc[w] # "idle", RowFree(w), Leave(w),
         row' = row \/ row' = [row EXCEPT ![op[w]] = NoRow], UNCHANGED <<tx, applied>>
  PROVE  RowTellsFacts' /\ CopyIsPast'
<1>t. TypeOK /\ HasOp /\ RowTellsFacts /\ CopyIsPast /\ op[w] \in Ops
  BY DEF OnceInv, TypeInv, HasOp
<1>1. \A o \in Ops : row'[o] = row[o] \/ (o = op[w] /\ row'[o].phase = "none")
  BY <1>t DEF TypeOK, NoRow
<1>2. \A v \in Workers : pc'[v] # "idle" =>
        pc'[v] = pc[v] /\ op'[v] = op[v] /\ seenRow'[v] = seenRow[v] /\ op[v] \in Ops
  BY <1>t DEF Leave, Goto, TypeOK, HasOp
<1>3. RowTellsFacts'
  BY <1>t, <1>1 DEF RowTellsFacts, RowFree
<1> QED BY <1>t, <1>1, <1>2, <1>3 DEF CopyIsPast, Present

LEMMA OnceNext == OnceInv /\ [Next]_vars => OnceInv'
<1> SUFFICES ASSUME OnceInv, [Next]_vars PROVE RowTellsFacts' /\ CopyIsPast'
  BY TypeNext DEF OnceInv
<1> USE FenceConstants
<1>t. TypeOK /\ HasOp /\ RowTellsFacts /\ CopyIsPast
  BY DEF OnceInv, TypeInv
<1>1. ASSUME NEW o \in Ops, Request(o) PROVE RowTellsFacts' /\ CopyIsPast'
  BY <1>1, <1>t DEF Request, RowTellsFacts, CopyIsPast, Present, TypeOK, HasOp, worker, history
<1>2. ASSUME NEW o \in Ops, CommitFacts(o) PROVE RowTellsFacts' /\ CopyIsPast'
  BY <1>2, <1>t DEF CommitFacts, Goto, RowTellsFacts, CopyIsPast, Present, TypeOK, HasOp, Row
<1>3. ASSUME NEW o \in Ops, RollbackFacts(o) PROVE RowTellsFacts' /\ CopyIsPast'
  BY <1>3, <1>t, OnceFrame DEF RollbackFacts, Goto, TypeOK, history
<1>4. ASSUME NEW w \in Workers, NEW o \in Ops, Load(w, o) PROVE RowTellsFacts' /\ CopyIsPast'
  BY <1>4, <1>t DEF Load, Goto, RowTellsFacts, CopyIsPast, Present, TypeOK, HasOp, Row, history
<1>5. ASSUME NEW w \in Workers, Claim(w) PROVE RowTellsFacts' /\ CopyIsPast'
  <2>1. CASE RevisionMatches(w)
    BY <1>5, <2>1, OnceTakeOver DEF Claim, WorkerPC, history
  <2>2. CASE ~RevisionMatches(w)
    BY <1>5, <1>t, <2>2, OnceFrame DEF Claim, Goto, TypeOK, history
  <2> QED BY <2>1, <2>2
<1>6. ASSUME NEW w \in Workers, MarkFacts(w) PROVE RowTellsFacts' /\ CopyIsPast'
  BY <1>6, <1>t DEF MarkFacts, RowMatches, RevisionMatches, Goto, RowTellsFacts, CopyIsPast,
     Present, TypeOK, HasOp, history
<1>7. ASSUME NEW w \in Workers, Advance(w) PROVE RowTellsFacts' /\ CopyIsPast'
  <2>1. CASE RowMatches(w)
    <3>0. pc[w] = "advance" /\ op[w] \in Ops /\ tx[op[w]] = Nobody
      BY <1>7, <1>t DEF Advance, HasOp, RowFree
    <3>1. /\ row' = [row EXCEPT ![op[w]].phase = "fence_finalized", ![op[w]].rev = @ + 1]
          /\ seenRow' = [seenRow EXCEPT ![w] = row'[op[w]]]
          /\ pc' = [pc EXCEPT ![w] = "tail"] /\ UNCHANGED <<op, tx, applied>>
      BY <1>7, <2>1 DEF Advance, Goto, history
    <3>2. \A o \in Ops :
            /\ o # op[w] => row'[o] = row[o]
            /\ o = op[w] => row'[o].phase = "fence_finalized" /\ row'[o].rev = row[o].rev + 1
            /\ row[o].rev \in Nat
      BY <1>t, <3>0, <3>1 DEF TypeOK, Row
    <3>3. Present(op[w])
      BY <2>1 DEF RowMatches, RevisionMatches
    <3>4. RowTellsFacts'
      BY <1>t, <3>0, <3>1, <3>2, <3>3 DEF RowTellsFacts
    <3>5. ASSUME NEW v \in Workers, pc'[v] # "idle"
          PROVE  /\ row'[op[v]].phase # "new"
                 /\ Present(op[v])' =>
                      /\ seenRow'[v].rev <= row'[op[v]].rev
                      /\ seenRow'[v].rev = row'[op[v]].rev => seenRow'[v].phase = row'[op[v]].phase
      <4>1. pc[v] # "idle" /\ op[v] \in Ops /\ row[op[v]].rev \in Nat /\ seenRow[v].rev \in Nat
        BY <1>t, <3>0, <3>1, <3>2, <3>5 DEF HasOp, TypeOK, Row
      <4>2. CASE v = w
        BY <1>t, <3>1, <3>2, <4>1, <4>2 DEF TypeOK
      <4>3. CASE v # w
        <5>1. seenRow'[v] = seenRow[v]
          BY <1>t, <3>1, <4>3 DEF TypeOK
        <5>2. CASE op[v] = op[w]
          <6>1. seenRow[v].rev <= row[op[v]].rev /\ row[op[v]].phase # "new"
            BY <1>t, <3>3, <4>1, <5>2 DEF CopyIsPast
          <6>2. row'[op[v]].phase = "fence_finalized" /\ row'[op[v]].rev = row[op[v]].rev + 1
            BY <3>2, <4>1, <5>2
          <6> QED BY <4>1, <5>1, <6>1, <6>2
        <5>3. CASE op[v] # op[w]
          <6>1. row'[op[v]] = row[op[v]]
            BY <3>2, <4>1, <5>3
          <6> QED BY <1>t, <3>1, <4>1, <5>1, <6>1 DEF CopyIsPast, Present
        <5> QED BY <5>2, <5>3
      <4> QED BY <4>2, <4>3
    <3>6. \A v \in Workers : pc'[v] = "work" => pc[v] = "work" /\ seenRow'[v] = seenRow[v]
      BY <1>t, <3>1 DEF TypeOK
    <3>7. \A v \in Workers : pc'[v] = "work" => seenRow'[v].phase = "intent"
      BY <1>t, <3>6 DEF CopyIsPast
    <3>8. op' = op
      BY <3>1
    <3> QED BY <3>4, <3>5, <3>7, <3>8 DEF CopyIsPast
  <2>2. CASE ~RowMatches(w)
    BY <1>7, <2>2, OnceDelete DEF Advance, history
  <2> QED BY <2>1, <2>2
<1>8. ASSUME NEW w \in Workers, TailClaim(w) PROVE RowTellsFacts' /\ CopyIsPast'
  <2>1. CASE RevisionMatches(w)
    BY <1>8, <2>1, OnceTakeOver DEF TailClaim, WorkerPC, history
  <2>2. CASE ~RevisionMatches(w)
    BY <1>8, <2>2, OnceDelete DEF TailClaim, history
  <2> QED BY <2>1, <2>2
<1>9. ASSUME NEW w \in Workers, UndoClear(w) \/ Clear(w) PROVE RowTellsFacts' /\ CopyIsPast'
  BY <1>9, OnceDelete DEF UndoClear, Clear, DeleteRow, history
<1>10. ASSUME NEW w \in Workers,
              Begin(w) \/ BeginRefused(w) \/ Abandon(w) \/ WorkFails(w) \/ CommitInDoubt(w)
                \/ FinishFence(w) \/ Undo(w) \/ Tail(w) \/ Crash(w)
       PROVE  RowTellsFacts' /\ CopyIsPast'
  <2>1. UNCHANGED <<row, applied, tx>>
    BY <1>10 DEF Begin, BeginRefused, Abandon, WorkFails, CommitInDoubt, FinishFence, Undo, Tail,
       Crash, history
  <2>2. \/ UNCHANGED <<op, seenRow>> /\ pc[w] # "idle" /\ \E where : where # "work" /\ Goto(w, where)
        \/ Leave(w)
    BY <1>10 DEF Begin, BeginRefused, Abandon, WorkFails, CommitInDoubt, FinishFence, Undo, Tail,
       Crash, worker
  <2>3. \A v \in Workers : pc'[v] # "idle" =>
          pc[v] # "idle" /\ op'[v] = op[v] /\ seenRow'[v] = seenRow[v]
            /\ (pc'[v] = "work" => pc[v] = "work")
    BY <1>t, <2>2 DEF Leave, Goto, TypeOK
  <2> QED BY <2>1, <2>3, OnceFrame
<1>11. CASE LeaseExpires \/ RecoverOrphan \/ (\E b \in Builders : BuilderStep(b)) \/ UNCHANGED vars
  <2>1. UNCHANGED <<row, applied, tx, pc, op, seenRow>>
    BY <1>11 DEF LeaseExpires, RecoverOrphan, BuilderStep, ReadGeneration, ReadIdentity,
       CheckIdentity, Publish, vars, worker, history
  <2> QED BY <2>1, OnceFrame
<1> QED
  BY <1>1, <1>2, <1>3, <1>4, <1>5, <1>6, <1>7, <1>8, <1>9, <1>10, <1>11 DEF Next, WorkerStep

(* However many workers carry an operation's row, and whatever becomes of  *)
(* a COMMIT's reply, its delete-and-create transaction takes effect at     *)
(* most once: markSpiderMaintenanceFacts advances the row under the        *)
(* revision and owner that the worker claimed.                             *)
THEOREM FactsAtMostOnce == Spec => []FactsOnce
<1>1. OnceInv => FactsOnce
  BY DEF OnceInv, RowTellsFacts, FactsOnce
<1> QED BY <1>1, OnceInit, OnceNext, PTL DEF Spec

-----------------------------------------------------------------------------
(* Replaced facts reach the tail.                                          *)

\* Only a worker whose copy says "intent" undoes, and only one that has run
\* the tail clears.
MayDelete ==
  \A w \in Workers :
    /\ pc[w] \in {"work", "commit", "undo", "undoClear"} => seenRow[w].phase = "intent"
    /\ pc[w] = "clear" => op[w] \in tailed

TailInv == OnceInv /\ MayDelete /\ AppliedReachesTail

LEMMA TailInit == Init => TailInv
BY OnceInit DEF TailInv, MayDelete, AppliedReachesTail, Facts, Init, NewRow

LEMMA MayDeleteNext == TailInv /\ [Next]_vars => MayDelete'
<1> SUFFICES ASSUME TailInv, [Next]_vars PROVE MayDelete'
  OBVIOUS
<1>t. TypeOK /\ HasOp /\ RowTellsFacts /\ CopyIsPast /\ MayDelete
  BY DEF TailInv, OnceInv, TypeInv
<1>1. ASSUME NEW o \in Ops, Request(o) \/ CommitFacts(o) \/ RollbackFacts(o) PROVE MayDelete'
  BY <1>1, <1>t DEF Request, CommitFacts, RollbackFacts, Goto, MayDelete, TypeOK, worker, history
<1>2. ASSUME NEW w \in Workers, NEW o \in Ops, Load(w, o) PROVE MayDelete'
  BY <1>2, <1>t DEF Load, Goto, MayDelete, TypeOK, history
<1>3. ASSUME NEW w \in Workers, Claim(w) \/ TailClaim(w) PROVE MayDelete'
  <2>1. tailed' = tailed /\ \A v \in Workers : v # w =>
          pc'[v] = pc[v] /\ op'[v] = op[v] /\ seenRow'[v] = seenRow[v]
    BY <1>3, <1>t DEF Claim, TailClaim, TakeOver, Leave, Goto, TypeOK, history
  <2>2. pc'[w] \in {"finish", "abandon", "tail", "idle"}
          \/ (pc'[w] = "work" /\ seenRow'[w].phase = seenRow[w].phase /\ seenRow[w].phase = "intent")
    BY <1>3, <1>t DEF Claim, TailClaim, TakeOver, Leave, Goto, TypeOK, Row
  <2> QED BY <1>t, <2>1, <2>2 DEF MayDelete
<1>4. ASSUME NEW w \in Workers,
             WorkerStep(w) \/ Crash(w), ~Claim(w), ~TailClaim(w) PROVE MayDelete'
  <2>1. \A v \in Workers : v # w =>
          pc'[v] = pc[v] /\ op'[v] = op[v] /\ seenRow'[v] = seenRow[v]
    BY <1>4, <1>t DEF WorkerStep, Begin, BeginRefused, Abandon, MarkFacts, WorkFails, CommitInDoubt,
       FinishFence, Undo, UndoClear, Advance, Tail, Clear, Crash, Leave, Goto, TypeOK, worker
  <2>2. tailed \subseteq tailed'
    BY <1>4 DEF WorkerStep, Begin, BeginRefused, Abandon, MarkFacts, WorkFails, CommitInDoubt,
       FinishFence, Undo, UndoClear, Advance, Tail, Clear, Crash, history
  <2>3. \/ pc'[w] \in {"idle", "claim", "abandon", "finish", "advance", "tail"}
        \/ pc[w] \in {"work", "commit", "undo"} /\ UNCHANGED <<op, seenRow>>
             /\ pc'[w] \in {"commit", "undo", "undoClear"}
        \/ pc'[w] = "clear" /\ op[w] \in tailed' /\ op' = op
    BY <1>4, <1>t DEF WorkerStep, Begin, BeginRefused, Abandon, MarkFacts, WorkFails, CommitInDoubt,
       FinishFence, Undo, UndoClear, Advance, Tail, Clear, Crash, Leave, Goto, TypeOK
  <2> QED BY <1>t, <2>1, <2>2, <2>3 DEF MayDelete
<1>5. CASE LeaseExpires \/ RecoverOrphan \/ (\E b \in Builders : BuilderStep(b)) \/ UNCHANGED vars
  BY <1>5, <1>t DEF LeaseExpires, RecoverOrphan, BuilderStep, ReadGeneration, ReadIdentity,
     CheckIdentity, Publish, MayDelete, vars, worker, history
<1> QED BY <1>1, <1>2, <1>3, <1>4, <1>5 DEF Next

LEMMA TailNext == TailInv /\ [Next]_vars => TailInv'
<1> SUFFICES ASSUME TailInv, [Next]_vars PROVE AppliedReachesTail'
  BY OnceNext, MayDeleteNext DEF TailInv
<1>t. TypeOK /\ HasOp /\ RowTellsFacts /\ CopyIsPast /\ MayDelete /\ AppliedReachesTail
  BY DEF TailInv, OnceInv, TypeInv
\* Nothing but a deletion turns a row's phase into "none".
<1>1. ASSUME UNCHANGED applied, tailed \subseteq tailed',
             \A o \in Ops : row'[o].phase = "none" => row[o].phase = "none"
      PROVE  AppliedReachesTail'
  BY <1>1, <1>t DEF AppliedReachesTail, Facts
<1>2. ASSUME NEW o \in Ops, Request(o) PROVE AppliedReachesTail'
  BY <1>1, <1>2, <1>t DEF Request, TypeOK, history
<1>3. ASSUME NEW o \in Ops, CommitFacts(o) PROVE AppliedReachesTail'
  BY <1>3, <1>t DEF CommitFacts, AppliedReachesTail, Facts, TypeOK, Row
<1>4. ASSUME NEW o \in Ops, RollbackFacts(o) PROVE AppliedReachesTail'
  BY <1>1, <1>4 DEF RollbackFacts, history
<1>5. ASSUME NEW w \in Workers, NEW o \in Ops, Load(w, o) PROVE AppliedReachesTail'
  BY <1>1, <1>5 DEF Load, history
<1>6. ASSUME NEW w \in Workers, UndoClear(w) \/ Clear(w) PROVE AppliedReachesTail'
  <2>1. CASE ~RowMatches(w)
    BY <1>1, <1>6, <2>1 DEF UndoClear, Clear, DeleteRow, history
  <2>2. CASE RowMatches(w)
    <3>1. /\ op[w] \in Ops /\ pc[w] \in {"undoClear", "clear"}
          /\ UNCHANGED <<applied, tailed>> /\ row' = [row EXCEPT ![op[w]] = NoRow]
      BY <1>6, <1>t, <2>2 DEF UndoClear, Clear, DeleteRow, HasOp, history
    <3>2. op[w] \in Facts => op[w] \in tailed
      BY <1>t, <2>2, <3>1 DEF MayDelete, CopyIsPast, RowTellsFacts, RowMatches, RevisionMatches, Facts
    <3> QED BY <1>t, <3>1, <3>2 DEF AppliedReachesTail, Facts, TypeOK
  <2> QED BY <2>1, <2>2
<1>7. ASSUME NEW w \in Workers, Claim(w) \/ TailClaim(w) PROVE AppliedReachesTail'
  <2>1. \A o \in Ops : row'[o].phase = row[o].phase
    <3>1. row' = row \/ row' = [row EXCEPT ![op[w]].rev = @ + 1, ![op[w]].owner = w]
      BY <1>7 DEF Claim, TailClaim, TakeOver
    <3>2. op[w] \in Ops /\ row \in [Ops -> Row]
      BY <1>7, <1>t DEF Claim, TailClaim, HasOp, TypeOK
    <3> QED BY <3>1, <3>2 DEF Row
  <2> QED BY <1>1, <1>7, <2>1 DEF Claim, TailClaim, history
<1>8. ASSUME NEW w \in Workers, Advance(w) PROVE AppliedReachesTail'
  <2>1. \A o \in Ops : row'[o].phase = "none" => row[o].phase = "none"
    BY <1>8, <1>t DEF Advance, TypeOK, Row
  <2> QED BY <1>1, <1>8, <2>1 DEF Advance, history
<1>9. ASSUME NEW w \in Workers,
             Begin(w) \/ BeginRefused(w) \/ Abandon(w) \/ MarkFacts(w) \/ WorkFails(w)
               \/ CommitInDoubt(w) \/ FinishFence(w) \/ Undo(w) \/ Tail(w) \/ Crash(w)
      PROVE  AppliedReachesTail'
  BY <1>1, <1>9 DEF Begin, BeginRefused, Abandon, MarkFacts, WorkFails, CommitInDoubt, FinishFence,
     Undo, Tail, Crash, history
<1>10. CASE LeaseExpires \/ RecoverOrphan \/ (\E b \in Builders : BuilderStep(b)) \/ UNCHANGED vars
  BY <1>1, <1>10 DEF LeaseExpires, RecoverOrphan, BuilderStep, ReadGeneration, ReadIdentity,
     CheckIdentity, Publish, vars, history
<1> QED
  BY <1>2, <1>3, <1>4, <1>5, <1>6, <1>7, <1>8, <1>9, <1>10 DEF Next, WorkerStep

(* A row is deleted only by an operation whose facts never changed         *)
(* (settleFailedSpiderMaintenance) or after its tail, which asks for the   *)
(* recrawl (finishSetSpiderMaintenanceTail): clearSpiderMaintenance is     *)
(* conditional on the revision and owner the worker last saw.              *)
THEOREM FactsReachTail == Spec => []AppliedReachesTail
<1>1. TailInv => AppliedReachesTail
  BY DEF TailInv
<1> QED BY <1>1, TailInit, TailNext, PTL DEF Spec

-----------------------------------------------------------------------------
(* The fence.                                                              *)

LEMMA FenceNext == TypeInv /\ FenceNotCorrupt /\ [Next]_vars => FenceNotCorrupt'
<1> SUFFICES ASSUME TypeInv, FenceNotCorrupt, [Next]_vars PROVE FenceNotCorrupt'
  OBVIOUS
<1> USE FenceConstants
<1>t. gen \in Nat /\ (~Closed => lease = Nobody /\ fenceIntent = Nobody)
  BY DEF TypeInv, TypeOK, FenceNotCorrupt
<1>1. CASE UNCHANGED gen /\ (lease' = lease \/ Closed) /\ (fenceIntent' = fenceIntent \/ Closed)
  BY <1>1, <1>t DEF FenceNotCorrupt, Closed
<1>2. ASSUME NEW w \in Workers, Begin(w) PROVE FenceNotCorrupt'
  <2>1. Closed' \/ (UNCHANGED <<gen, fenceIntent>> /\ Closed)
    BY <1>2, <1>t DEF Begin, Closed
  <2> QED BY <2>1 DEF FenceNotCorrupt, Closed
<1>3. ASSUME NEW w \in Workers, Reopen(w) PROVE FenceNotCorrupt'
  BY <1>3 DEF Reopen, FenceNotCorrupt
<1>4. CASE RecoverOrphan
  BY <1>4 DEF RecoverOrphan, FenceNotCorrupt
<1>5. ASSUME NEW w \in Workers, WorkerStep(w) \/ Crash(w), ~Begin(w), ~Reopen(w)
      PROVE  UNCHANGED <<gen, fenceIntent>> /\ (lease' = lease \/ lease' = Nobody \/ lease = w)
  BY <1>5 DEF WorkerStep, BeginRefused, Claim, Abandon, MarkFacts, WorkFails, CommitInDoubt,
     FinishFence, ReopenFails, Undo, UndoClear, Advance, TailClaim, Tail, Clear, Crash,
     LeaseUnattended, fence
<1>6. ASSUME NEW w \in Workers, WorkerStep(w) \/ Crash(w) PROVE FenceNotCorrupt'
  <2>1. CASE ~Begin(w) /\ ~Reopen(w)
    BY <1>5, <1>6, <1>t, <2>1 DEF FenceNotCorrupt, Closed
  <2> QED BY <1>2, <1>3, <1>6, <2>1
<1>7. CASE LeaseExpires
  BY <1>7, <1>t DEF LeaseExpires, FenceNotCorrupt, Closed
<1>8. ASSUME NEW o \in Ops,
             Request(o) \/ CommitFacts(o) \/ RollbackFacts(o) \/ \E w \in Workers : Load(w, o)
      PROVE  FenceNotCorrupt'
  BY <1>1, <1>8 DEF Request, CommitFacts, RollbackFacts, Load, fence
<1>9. CASE (\E b \in Builders : BuilderStep(b)) \/ UNCHANGED vars
  BY <1>1, <1>9 DEF BuilderStep, ReadGeneration, ReadIdentity, CheckIdentity, Publish, vars, fence
<1> QED BY <1>2, <1>4, <1>6, <1>7, <1>8, <1>9 DEF Next

(* profileBeginInvalidationScript never meets an open fence with a lease   *)
(* or an intent left over, which it would refuse as corrupt for ever.      *)
THEOREM FenceNeverCorrupt == Spec => []FenceNotCorrupt
<1>1. Init => FenceNotCorrupt
  BY DEF Init, FenceNotCorrupt
<1> QED BY <1>1, TypeInit, TypeNext, FenceNext, PTL DEF Spec

-----------------------------------------------------------------------------
(* A snapshot that lacks an effect is owed an invalidation.                *)

\* What is in the facts and not in S still has the fence to finish.
Owed(S) == \A o \in Facts \ S : row[o].phase = "facts"

\* A builder whose identity may still be published under this generation.
MayPublish(b) == bpc[b] \in {"check", "publish"} /\ bgen[b] = gen

\* No reader is ahead of the fence: a new generation is nobody's.
GensArePast == cache.gen <= gen /\ \A b \in Builders : bgen[b] <= gen

OwedToReaders ==
  /\ cache.gen = gen => Owed(cache.facts)
  /\ \A b \in Builders : MayPublish(b) => Owed(bfacts[b])

\* What a worker's place says of its copy of the row and of the facts.
PlacesTellFacts ==
  /\ \A o \in Ops : row[o].phase \in {"facts", "fence_finalized"} => o \in Facts
  /\ \A w \in Workers :
       /\ pc[w] \in {"begin", "claim"} => seenRow[w].phase \in {"intent", "facts"}
       /\ pc[w] \in {"tailClaim", "tail", "clear"} => seenRow[w].phase = "fence_finalized"
       /\ pc[w] \in {"finish", "advance", "tailClaim", "tail"} => op[w] \in Facts

\* Every reader of this generation has seen o.
SeenByReaders(o) ==
  /\ cache.gen = gen => o \in cache.facts
  /\ \A b \in Builders : MayPublish(b) => o \in bfacts[b]

\* Once a worker has reopened the fence, readers have seen its effect.
FinishedIsSeen == \A w \in Workers : pc[w] = "advance" => SeenByReaders(op[w])

SnapshotInv ==
  /\ TailInv /\ FenceNotCorrupt
  /\ GensArePast /\ OwedToReaders /\ PlacesTellFacts /\ FinishedIsSeen

LEMMA SnapshotInit == Init => SnapshotInv
<1> SUFFICES ASSUME Init PROVE SnapshotInv
  OBVIOUS
<1>1. TailInv
  BY TailInit
<1>2. Facts = {}
  BY DEF Init, Facts
<1> QED
  BY <1>1, <1>2 DEF Init, SnapshotInv, FenceNotCorrupt, GensArePast, OwedToReaders, Owed, MayPublish,
     PlacesTellFacts, FinishedIsSeen, NoSnapshot, NewRow

LEMMA PlacesNext == SnapshotInv /\ [Next]_vars => PlacesTellFacts'
<1> SUFFICES ASSUME SnapshotInv, [Next]_vars PROVE PlacesTellFacts'
  OBVIOUS
<1>t. TypeOK /\ HasOp /\ RowTellsFacts /\ CopyIsPast /\ PlacesTellFacts
  BY DEF SnapshotInv, TailInv, OnceInv, TypeInv
<1>1. ASSUME NEW o \in Ops, Request(o) PROVE PlacesTellFacts'
  BY <1>1, <1>t DEF Request, PlacesTellFacts, Facts, TypeOK, worker, history
<1>2. ASSUME NEW o \in Ops, CommitFacts(o) PROVE PlacesTellFacts'
  <2>1. Facts' = Facts \cup {o} /\ op' = op
    BY <1>2, <1>t DEF CommitFacts, Facts, TypeOK
  <2>2. \A p \in Ops : row'[p].phase \in {"facts", "fence_finalized"} => p \in Facts'
    BY <1>2, <1>t, <2>1 DEF CommitFacts, PlacesTellFacts, TypeOK
  <2>3. \A w \in Workers : \/ pc'[w] = pc[w] /\ seenRow'[w] = seenRow[w]
                           \/ pc'[w] = "finish" /\ op[w] = o
    BY <1>2, <1>t DEF CommitFacts, Goto, TypeOK
  <2> QED BY <1>t, <2>1, <2>2, <2>3 DEF PlacesTellFacts
<1>3. ASSUME NEW o \in Ops, RollbackFacts(o) PROVE PlacesTellFacts'
  BY <1>3, <1>t DEF RollbackFacts, Goto, PlacesTellFacts, Facts, TypeOK, history
<1>4. ASSUME NEW w \in Workers, NEW o \in Ops, Load(w, o) PROVE PlacesTellFacts'
  BY <1>4, <1>t DEF Load, NeedsFence, Present, Goto, PlacesTellFacts, Facts, TypeOK, history
<1>5. ASSUME NEW w \in Workers, WorkerStep(w) \/ Crash(w) PROVE PlacesTellFacts'
  <2>1. Facts' = Facts
    BY <1>5 DEF WorkerStep, Begin, BeginRefused, Claim, Abandon, MarkFacts, WorkFails, CommitInDoubt,
       FinishFence, Undo, UndoClear, Advance, TailClaim, Tail, Clear, Crash, Facts, history
  <2>2. \A v \in Workers : v # w =>
          pc'[v] = pc[v] /\ op'[v] = op[v] /\ seenRow'[v] = seenRow[v]
    BY <1>5, <1>t DEF WorkerStep, Begin, BeginRefused, Claim, Abandon, MarkFacts, WorkFails,
       CommitInDoubt, FinishFence, Undo, UndoClear, Advance, TailClaim, Tail, Clear, Crash, TakeOver,
       Leave, Goto, TypeOK, worker
  <2>3. \A o \in Ops : row'[o].phase \in {"facts", "fence_finalized"} => o \in Facts
    <3>1. CASE Claim(w) \/ TailClaim(w)
      <4>1. row' = row \/ row' = [row EXCEPT ![op[w]].rev = @ + 1, ![op[w]].owner = w]
        BY <3>1 DEF Claim, TailClaim, TakeOver
      <4>2. op[w] \in Ops /\ row \in [Ops -> Row]
        BY <3>1, <1>t DEF Claim, TailClaim, HasOp, TypeOK
      <4>3. \A o \in Ops : row'[o].phase = row[o].phase
        BY <4>1, <4>2 DEF Row
      <4> QED BY <4>3, <1>t DEF PlacesTellFacts
    <3>2. CASE UndoClear(w) \/ Clear(w)
      <4>1. \A o \in Ops : row'[o] = row[o] \/ row'[o].phase = "none"
        BY <3>2, <1>t DEF UndoClear, Clear, DeleteRow, NoRow, TypeOK
      <4> QED BY <4>1, <1>t DEF PlacesTellFacts
    <3>3. CASE Advance(w)
      <4>1. \A o \in Ops : row'[o] = row[o] \/ o = op[w]
        BY <3>3, <1>t DEF Advance, TypeOK
      <4> QED BY <3>3, <4>1, <1>t DEF Advance, PlacesTellFacts
    <3>4. CASE ~(Claim(w) \/ TailClaim(w) \/ UndoClear(w) \/ Clear(w) \/ Advance(w))
      <4>1. row' = row
        BY <1>5, <3>4 DEF WorkerStep, Begin, BeginRefused, Abandon, MarkFacts, WorkFails,
           CommitInDoubt, FinishFence, Undo, Tail, Crash
      <4> QED BY <4>1, <1>t DEF PlacesTellFacts
    <3> QED BY <3>1, <3>2, <3>3, <3>4
  <2>4. /\ pc'[w] \in {"begin", "claim"} => seenRow'[w].phase \in {"intent", "facts"}
        /\ pc'[w] \in {"tailClaim", "tail", "clear"} => seenRow'[w].phase = "fence_finalized"
        /\ pc'[w] \in {"finish", "advance", "tailClaim", "tail"} => op'[w] \in Facts
    <3>1. CASE Claim(w)
      <4>1. CASE RevisionMatches(w) /\ seenRow[w].phase # "intent"
        <5>1. pc'[w] = "finish" /\ op' = op
          BY <3>1, <4>1, <1>t DEF Claim, Goto, TypeOK
        <5>2. pc[w] = "claim" /\ op[w] \in Ops
          BY <3>1, <1>t DEF Claim, HasOp
        <5>3. seenRow[w].phase = "facts" /\ row[op[w]].phase = "facts"
          BY <4>1, <5>2, <1>t DEF PlacesTellFacts, CopyIsPast, RevisionMatches
        <5> QED BY <5>1, <5>2, <5>3, <1>t DEF PlacesTellFacts
      <4>2. CASE ~(RevisionMatches(w) /\ seenRow[w].phase # "intent")
        BY <3>1, <4>2, <1>t DEF Claim, Goto, TypeOK
      <4> QED BY <4>1, <4>2
    <3>2. CASE TailClaim(w)
      <4>1. pc'[w] = "idle" \/ (pc'[w] = "tail" /\ seenRow'[w].phase = seenRow[w].phase /\ op' = op)
        BY <3>2, <1>t DEF TailClaim, TakeOver, Leave, Goto, TypeOK, Row
      <4> QED BY <3>2, <4>1, <1>t DEF TailClaim, PlacesTellFacts
    <3>3. CASE Advance(w)
      <4>1. pc'[w] = "idle" \/ (pc'[w] = "tail" /\ seenRow'[w].phase = "fence_finalized" /\ op' = op)
        BY <3>3, <1>t DEF Advance, HasOp, Leave, Goto, TypeOK, Row
      <4> QED BY <3>3, <4>1, <1>t DEF Advance, PlacesTellFacts
    <3>4. CASE ~(Claim(w) \/ TailClaim(w) \/ Advance(w))
      <4>1. \/ pc'[w] \in {"idle", "abandon", "commit", "undo", "undoClear"}
            \/ UNCHANGED <<op, seenRow>> /\ \/ pc[w] = "begin" /\ pc'[w] = "claim"
                                            \/ pc[w] = "finish" /\ pc'[w] = "advance"
                                            \/ pc[w] = "tail" /\ pc'[w] = "clear"
        BY <1>5, <3>4, <1>t DEF WorkerStep, Begin, BeginRefused, Abandon, MarkFacts, WorkFails,
           CommitInDoubt, FinishFence, Undo, UndoClear, Tail, Clear, Crash, Leave, Goto, TypeOK
      <4> QED BY <4>1, <1>t DEF PlacesTellFacts
    <3> QED BY <3>1, <3>2, <3>3, <3>4
  <2> QED BY <1>t, <2>1, <2>2, <2>3, <2>4 DEF PlacesTellFacts
<1>6. CASE LeaseExpires \/ RecoverOrphan \/ (\E b \in Builders : BuilderStep(b)) \/ UNCHANGED vars
  <2>1. UNCHANGED <<row, applied, pc, op, seenRow>>
    BY <1>6 DEF LeaseExpires, RecoverOrphan, BuilderStep, ReadGeneration, ReadIdentity,
       CheckIdentity, Publish, vars, worker, history
  <2> QED BY <1>t, <2>1 DEF PlacesTellFacts, Facts
<1> QED BY <1>1, <1>2, <1>3, <1>4, <1>5, <1>6 DEF Next

\* What the three parts about readers say together.
Readers == GensArePast /\ OwedToReaders /\ FinishedIsSeen

\* A new generation leaves no snapshot and no builder under it.
LEMMA NewGeneration ==
  ASSUME SnapshotInv, gen' = gen + 1, cache' \in {cache, NoSnapshot}, UNCHANGED builder
  PROVE  Readers'
<1>1. gen \in Nat /\ cache.gen \in Nat /\ \A b \in Builders : bgen[b] \in Nat
  BY DEF SnapshotInv, TailInv, OnceInv, TypeInv, TypeOK, Snapshot, Even
<1>2. /\ gen' \in Nat /\ cache'.gen \in Nat /\ cache'.gen < gen'
      /\ \A b \in Builders : bgen'[b] \in Nat /\ bgen'[b] < gen'
  BY <1>1 DEF SnapshotInv, GensArePast, NoSnapshot, builder
<1>3. cache'.gen # gen' /\ cache'.gen <= gen'
  BY <1>2
<1>4. \A b \in Builders : bgen'[b] # gen' /\ bgen'[b] <= gen'
  BY <1>2
<1> QED
  BY <1>3, <1>4 DEF Readers, GensArePast, OwedToReaders, FinishedIsSeen, SeenByReaders, MayPublish

\* The readers keep what they have; a row leaves "facts" only once its effect
\* was seen; a fact is new only with its row in "facts".
LEMMA SameReaders ==
  ASSUME SnapshotInv, UNCHANGED <<gen, cache, builder>>,
         \A o \in Facts' : \/ row'[o].phase = "facts"
                           \/ o \in Facts /\ row[o].phase # "facts"
                           \/ SeenByReaders(o),
         \A w \in Workers : pc'[w] = "advance" => pc[w] = "advance" /\ op'[w] = op[w]
  PROVE  Readers'
<1>1. GensArePast /\ OwedToReaders /\ FinishedIsSeen
  BY DEF SnapshotInv
<1>2. GensArePast'
  BY <1>1 DEF GensArePast, builder
<1>3. \A b \in Builders : MayPublish(b)' <=> MayPublish(b)
  BY DEF MayPublish, builder
<1>4. OwedToReaders'
  BY <1>1, <1>3 DEF OwedToReaders, Owed, SeenByReaders, builder
<1>5. FinishedIsSeen'
  BY <1>1, <1>3 DEF FinishedIsSeen, SeenByReaders, builder
<1> QED BY <1>2, <1>4, <1>5 DEF Readers

LEMMA ReadersNext == SnapshotInv /\ [Next]_vars => Readers'
<1> SUFFICES ASSUME SnapshotInv, [Next]_vars PROVE Readers'
  OBVIOUS
<1> USE FenceConstants
<1>t. /\ TypeOK /\ HasOp /\ RowTellsFacts /\ CopyIsPast /\ MayDelete /\ FenceNotCorrupt
      /\ GensArePast /\ OwedToReaders /\ PlacesTellFacts /\ FinishedIsSeen
  BY DEF SnapshotInv, TailInv, OnceInv, TypeInv
<1>1. ASSUME NEW o \in Ops, Request(o) PROVE Readers'
  <2>1. Facts' = Facts /\ Facts \subseteq Ops /\ o \notin Facts
    BY <1>1, <1>t DEF Request, RowTellsFacts, Facts, history
  <2>2. \A p \in Ops : p = o \/ row'[p] = row[p]
    BY <1>1, <1>t DEF Request, TypeOK
  <2> QED BY <1>1, <2>1, <2>2, SameReaders DEF Request, fence, worker
<1>2. ASSUME NEW o \in Ops, CommitFacts(o) PROVE Readers'
  <2>1. \A p \in Facts' : row'[p].phase = "facts" \/ (p \in Facts /\ row'[p] = row[p])
    BY <1>2, <1>t DEF CommitFacts, Facts, TypeOK, Row
  <2>2. \A w \in Workers : pc'[w] = "advance" => pc[w] = "advance" /\ op'[w] = op[w]
    BY <1>2, <1>t DEF CommitFacts, Goto, TypeOK
  <2> QED BY <1>2, <2>1, <2>2, SameReaders DEF CommitFacts, fence
<1>3. ASSUME NEW o \in Ops, RollbackFacts(o) PROVE Readers'
  <2>1. \A w \in Workers : pc'[w] = "advance" => pc[w] = "advance" /\ op'[w] = op[w]
    BY <1>3, <1>t DEF RollbackFacts, Goto, TypeOK
  <2> QED BY <1>3, <2>1, SameReaders DEF RollbackFacts, Facts, fence, history
<1>4. ASSUME NEW w \in Workers, NEW o \in Ops, Load(w, o) PROVE Readers'
  <2>1. \A v \in Workers : pc'[v] = "advance" => pc[v] = "advance" /\ op'[v] = op[v]
    BY <1>4, <1>t DEF Load, Goto, TypeOK
  <2> QED BY <1>4, <2>1, SameReaders DEF Load, Facts, fence, history
<1>5. ASSUME NEW w \in Workers, Begin(w) PROVE Readers'
  <2>1. CASE gen' = gen + 1
    BY <1>5, <2>1, NewGeneration DEF Begin
  <2>2. CASE gen' = gen
    <3>1. \A v \in Workers : pc'[v] = "advance" => pc[v] = "advance" /\ op'[v] = op[v]
      BY <1>5, <1>t DEF Begin, Goto, TypeOK
    <3> QED BY <1>5, <2>2, <3>1, SameReaders DEF Begin, Facts, history
  <2> QED BY <1>5, <2>1, <2>2 DEF Begin
<1>6. ASSUME NEW w \in Workers, FinishFence(w) \/ Undo(w) PROVE Readers'
  <2>1. CASE Reopen(w)
    BY <1>6, <2>1, NewGeneration DEF Reopen, FinishFence, Undo
  <2>2. CASE ~Reopen(w)
    <3>1. /\ UNCHANGED <<gen, builder, row, applied>> /\ ReopenFails(w)
          /\ \A v \in Workers : pc'[v] = "advance" => pc[v] = "advance" /\ op'[v] = op[v]
      BY <1>6, <2>2, <1>t DEF FinishFence, Undo, ReopenFails, Leave, Goto, TypeOK, history
    <3>2. CASE cache' = cache
      BY <3>1, <3>2, SameReaders DEF Facts
    <3>3. CASE OwnsFence(w) /\ cache' = NoSnapshot
      <4>1. gen \in Nat /\ gen # 0 /\ cache'.gen = 0
        BY <3>3, <1>t DEF OwnsFence, FenceNotCorrupt, Closed, NoSnapshot, TypeOK
      <4> QED
        BY <1>t, <3>1, <4>1 DEF Readers, GensArePast, OwedToReaders, Owed, Facts, FinishedIsSeen,
           SeenByReaders, MayPublish, builder
    <3> QED BY <3>1, <3>2, <3>3 DEF ReopenFails
  <2> QED BY <2>1, <2>2
<1>7. ASSUME NEW w \in Workers, Claim(w) \/ TailClaim(w) PROVE Readers'
  <2>1. \A o \in Ops : row'[o].phase = row[o].phase
    <3>1. row' = row \/ row' = [row EXCEPT ![op[w]].rev = @ + 1, ![op[w]].owner = w]
      BY <1>7 DEF Claim, TailClaim, TakeOver
    <3>2. op[w] \in Ops /\ row \in [Ops -> Row]
      BY <1>7, <1>t DEF Claim, TailClaim, HasOp, TypeOK
    <3> QED BY <3>1, <3>2 DEF Row
  <2>2. \A v \in Workers : pc'[v] = "advance" => pc[v] = "advance" /\ op'[v] = op[v]
    BY <1>7, <1>t DEF Claim, TailClaim, Leave, Goto, TypeOK
  <2>3. Facts' = Facts /\ Facts \subseteq Ops
    BY <1>7 DEF Claim, TailClaim, Facts, history
  <2> QED BY <1>7, <2>1, <2>2, <2>3, SameReaders DEF Claim, TailClaim, fence
<1>8. ASSUME NEW w \in Workers, UndoClear(w) \/ Clear(w) PROVE Readers'
  <2>1. \A v \in Workers : pc'[v] = "advance" => pc[v] = "advance" /\ op'[v] = op[v]
    BY <1>8, <1>t DEF UndoClear, Clear, Leave, Goto, TypeOK
  <2>2. Facts' = Facts /\ Facts \subseteq Ops /\ op[w] \in Ops
    BY <1>8, <1>t DEF UndoClear, Clear, Facts, HasOp, history
  <2>3. \A o \in Ops : row'[o] = row[o] \/ (o = op[w] /\ RowMatches(w))
    BY <1>8, <1>t, <2>2 DEF UndoClear, Clear, DeleteRow, TypeOK
  <2>4. RowMatches(w) => row[op[w]].phase # "facts"
    BY <1>8, <1>t, <2>2 DEF UndoClear, Clear, RowMatches, RevisionMatches, CopyIsPast, MayDelete,
       PlacesTellFacts
  <2> QED BY <1>8, <2>1, <2>2, <2>3, <2>4, SameReaders DEF UndoClear, Clear, fence
<1>9. ASSUME NEW w \in Workers, Advance(w) PROVE Readers'
  <2>1. \A v \in Workers : pc'[v] = "advance" => pc[v] = "advance" /\ op'[v] = op[v]
    BY <1>9, <1>t DEF Advance, Leave, Goto, TypeOK
  <2>2. Facts' = Facts /\ Facts \subseteq Ops /\ SeenByReaders(op[w])
    BY <1>9, <1>t DEF Advance, Facts, FinishedIsSeen, history
  <2>3. \A o \in Ops : row'[o] = row[o] \/ o = op[w]
    BY <1>9, <1>t DEF Advance, TypeOK
  <2> QED BY <1>9, <2>1, <2>2, <2>3, SameReaders DEF Advance, fence
<1>10. ASSUME NEW w \in Workers,
              BeginRefused(w) \/ Abandon(w) \/ MarkFacts(w) \/ WorkFails(w) \/ CommitInDoubt(w)
                \/ Tail(w) \/ Crash(w)
       PROVE  Readers'
  <2>1. UNCHANGED <<gen, cache, builder, row, applied>>
    BY <1>10 DEF BeginRefused, Abandon, MarkFacts, WorkFails, CommitInDoubt, Tail, Crash, fence,
       history
  <2>2. \A v \in Workers : pc'[v] = "advance" => pc[v] = "advance" /\ op'[v] = op[v]
    BY <1>10, <1>t DEF BeginRefused, Abandon, MarkFacts, WorkFails, CommitInDoubt, Tail, Crash,
       Leave, Goto, TypeOK
  <2> QED BY <2>1, <2>2, SameReaders DEF Facts
<1>11. CASE LeaseExpires \/ UNCHANGED vars
  BY <1>11, SameReaders DEF LeaseExpires, vars, fence, worker, history, Facts
<1>12. CASE RecoverOrphan
  BY <1>12, NewGeneration DEF RecoverOrphan
<1>13. ASSUME NEW b \in Builders, BuilderStep(b) PROVE Readers'
  <2>1. UNCHANGED <<gen, row, pc, op, applied>> /\ Facts' = Facts
    BY <1>13 DEF BuilderStep, ReadGeneration, ReadIdentity, CheckIdentity, Publish, fence, worker,
       history, Facts
  <2>2. \A c \in Builders : c # b =>
          bpc'[c] = bpc[c] /\ bgen'[c] = bgen[c] /\ bfacts'[c] = bfacts[c]
    BY <1>13, <1>t DEF BuilderStep, ReadGeneration, ReadIdentity, CheckIdentity, Publish,
       BuilderGoto, BuilderLeave, TypeOK
  <2>3. bgen'[b] \in {bgen[b], 0, gen} /\ gen \in Nat /\ bgen[b] \in Nat
    BY <1>13, <1>t DEF BuilderStep, ReadGeneration, ReadIdentity, CheckIdentity, Publish,
       BuilderGoto, BuilderLeave, TypeOK, Even
  \* A builder that may publish now either could before or has read all facts.
  <2>4. MayPublish(b)' => bfacts'[b] = Facts \/ (MayPublish(b) /\ bfacts'[b] = bfacts[b])
    BY <1>13, <1>t DEF BuilderStep, ReadGeneration, ReadIdentity, CheckIdentity, Publish,
       BuilderGoto, BuilderLeave, MayPublish, TypeOK
  <2>5. cache' = cache \/ (MayPublish(b) /\ cache' = [gen |-> gen, facts |-> bfacts[b]])
    BY <1>13 DEF BuilderStep, ReadGeneration, ReadIdentity, CheckIdentity, Publish, MayPublish
  <2>6. \A c \in Builders : MayPublish(c)' =>
          bfacts'[c] = Facts \/ (MayPublish(c) /\ bfacts'[c] = bfacts[c])
    BY <2>1, <2>2, <2>4 DEF MayPublish
  <2>7. GensArePast'
    BY <1>t, <2>1, <2>2, <2>3, <2>5 DEF GensArePast
  <2>8. OwedToReaders'
    BY <1>t, <2>1, <2>5, <2>6 DEF OwedToReaders, Owed
  <2>9. FinishedIsSeen'
    BY <1>t, <2>1, <2>5, <2>6 DEF FinishedIsSeen, SeenByReaders, PlacesTellFacts
  <2> QED BY <2>7, <2>8, <2>9 DEF Readers
<1> QED
  BY <1>1, <1>2, <1>3, <1>4, <1>5, <1>6, <1>7, <1>8, <1>9, <1>10, <1>11, <1>12, <1>13
  DEF Next, WorkerStep

LEMMA SnapshotNext == SnapshotInv /\ [Next]_vars => SnapshotInv'
BY TailNext, FenceNext, PlacesNext, ReadersNext
DEF SnapshotInv, Readers, TailInv, OnceInv

(* A snapshot published under the fence's own generation that misses an    *)
(* operation's new facts is about to be dropped: the row still stands in   *)
(* phase "facts" and its runner or a recovery still has to finish the      *)
(* fence, whichever builders publish and whoever reopens the fence.        *)
THEOREM StaleCacheOwed == Spec => []StaleCacheIsOwed
<1>1. SnapshotInv => StaleCacheIsOwed
  BY DEF SnapshotInv, OwedToReaders, Owed, StaleCacheIsOwed
<1> QED BY <1>1, SnapshotInit, SnapshotNext, PTL DEF Spec

-----------------------------------------------------------------------------
(* Durable maintenance.                                                    *)

\* A step that keeps every stage, the effects and the tails is a stutter.
LEMMA SameStages ==
  ASSUME UNCHANGED <<applied, tailed>>, \A o \in Ops : row'[o].phase = row[o].phase
  PROVE  UNCHANGED M!vars
BY DEF M!vars, Stage

\* The stages after one row has moved.
LEMMA StageMoves ==
  ASSUME NEW o \in Ops, NEW s, Stage'[o] = s, \A p \in Ops \ {o} : row'[p] = row[p]
  PROVE  Stage' = [Stage EXCEPT ![o] = s]
BY DEF Stage

LEMMA MaintenanceInit == Init => M!Init
BY DEF Init, NewRow, M!Init, Stage, StageOf

LEMMA MaintenanceNext == SnapshotInv /\ [Next]_vars => [M!Next]_(M!vars)
<1> SUFFICES ASSUME SnapshotInv, [Next]_vars PROVE [M!Next]_(M!vars)
  OBVIOUS
<1> USE FenceConstants
<1>t. /\ TypeOK /\ HasOp /\ RowTellsFacts /\ CopyIsPast /\ MayDelete /\ AppliedReachesTail
      /\ PlacesTellFacts
  BY DEF SnapshotInv, TailInv, OnceInv, TypeInv
<1>1. ASSUME NEW o \in Ops, Request(o) PROVE M!Next
  <2>1. Stage[o] = "unasked" /\ Stage'[o] = "pending" /\ \A p \in Ops \ {o} : row'[p] = row[p]
    BY <1>1, <1>t DEF Request, Stage, StageOf, TypeOK
  <2>2. M!Ask(o)
    BY <1>1, <2>1, StageMoves DEF Request, M!Ask, M!Moves, history
  <2> QED BY <2>2 DEF M!Next
<1>2. ASSUME NEW o \in Ops, CommitFacts(o) PROVE M!Next
  <2>1. row[o].phase = "intent" /\ row'[o].phase = "facts" /\ \A p \in Ops \ {o} : row'[p] = row[p]
    BY <1>2, <1>t DEF CommitFacts, RowTellsFacts, TypeOK, Row
  <2>2. Stage[o] = "pending" /\ Stage'[o] = "replaced"
    BY <2>1 DEF Stage, StageOf
  <2>3. M!Replace(o)
    BY <1>2, <2>1, <2>2, StageMoves DEF CommitFacts, M!Replace, M!Moves
  <2> QED BY <2>3 DEF M!Next
<1>3. ASSUME NEW w \in Workers, UndoClear(w) \/ Clear(w), RowMatches(w) PROVE M!Next
  <2>1. /\ op[w] \in Ops /\ seenRow[w].phase = row[op[w]].phase /\ UNCHANGED <<applied, tailed>>
        /\ row' = [row EXCEPT ![op[w]] = NoRow]
    BY <1>3, <1>t DEF UndoClear, Clear, DeleteRow, HasOp, CopyIsPast, RowMatches, RevisionMatches,
       history
  <2>2. Stage'[op[w]] = "gone" /\ \A p \in Ops \ {op[w]} : row'[p] = row[p]
    BY <2>1, <1>t DEF Stage, StageOf, NoRow, TypeOK
  <2>3. CASE UndoClear(w)
    <3>1. Stage[op[w]] = "pending"
      BY <1>t, <2>1, <2>3 DEF UndoClear, MayDelete, Stage, StageOf
    <3>2. M!Refuse(op[w])
      BY <2>1, <2>2, <3>1, StageMoves DEF M!Refuse, M!Moves
    <3> QED BY <2>1, <3>2 DEF M!Next
  <2>4. CASE Clear(w)
    <3>1. Stage[op[w]] = "replaced" /\ op[w] \in tailed
      BY <1>t, <2>1, <2>4 DEF Clear, MayDelete, PlacesTellFacts, Stage, StageOf
    <3>2. M!Forget(op[w])
      BY <2>1, <2>2, <3>1, StageMoves DEF M!Forget, M!Moves
    <3> QED BY <2>1, <3>2 DEF M!Next
  <2> QED BY <1>3, <2>3, <2>4
<1>4. ASSUME NEW w \in Workers, UndoClear(w) \/ Clear(w), ~RowMatches(w) PROVE UNCHANGED M!vars
  BY <1>4, SameStages DEF UndoClear, Clear, DeleteRow, history
<1>5. ASSUME NEW w \in Workers, Advance(w) PROVE UNCHANGED M!vars
  <2>1. CASE RowMatches(w)
    <3>1. /\ op[w] \in Ops /\ op[w] \in Facts /\ Present(op[w]) /\ UNCHANGED <<applied, tailed>>
          /\ row' = [row EXCEPT ![op[w]].phase = "fence_finalized", ![op[w]].rev = @ + 1]
      BY <1>5, <2>1, <1>t DEF Advance, PlacesTellFacts, HasOp, RowMatches, RevisionMatches, history
    <3>2. row[op[w]].phase \in {"facts", "fence_finalized"}
      BY <3>1, <1>t DEF RowTellsFacts, Present, Facts
    <3>3. row'[op[w]].phase = "fence_finalized" /\ \A p \in Ops \ {op[w]} : row'[p] = row[p]
      BY <3>1, <1>t DEF TypeOK, Row
    <3>4. \A p \in Ops : StageOf(row'[p].phase) = StageOf(row[p].phase)
      BY <3>2, <3>3 DEF StageOf
    <3>5. Stage' = Stage
      BY <3>4 DEF Stage
    <3> QED BY <3>1, <3>5 DEF M!vars
  <2>2. CASE ~RowMatches(w)
    BY <1>5, <2>2, SameStages DEF Advance, history
  <2> QED BY <2>1, <2>2
<1>6. ASSUME NEW w \in Workers, Tail(w) PROVE M!Next \/ UNCHANGED M!vars
  <2>1. /\ op[w] \in Ops /\ op[w] \in Facts /\ UNCHANGED <<row, applied>>
        /\ tailed' = tailed \cup {op[w]}
    BY <1>6, <1>t DEF Tail, PlacesTellFacts, HasOp
  <2>2. row[op[w]].phase \in {"facts", "fence_finalized", "none"}
    BY <2>1, <1>t DEF RowTellsFacts, Facts, TypeOK, Row, Phases
  <2>3. CASE row[op[w]].phase = "none"
    BY <1>t, <2>1, <2>3 DEF AppliedReachesTail, M!vars, Stage
  <2>4. CASE row[op[w]].phase # "none"
    <3>1. M!RunTail(op[w])
      BY <2>1, <2>2, <2>4 DEF M!RunTail, Stage, StageOf
    <3> QED BY <2>1, <3>1 DEF M!Next
  <2> QED BY <2>3, <2>4
<1>7. ASSUME NEW w \in Workers, Claim(w) \/ TailClaim(w) PROVE UNCHANGED M!vars
  <2>1. row' = row \/ row' = [row EXCEPT ![op[w]].rev = @ + 1, ![op[w]].owner = w]
    BY <1>7 DEF Claim, TailClaim, TakeOver
  <2>2. op[w] \in Ops /\ row \in [Ops -> Row]
    BY <1>7, <1>t DEF Claim, TailClaim, HasOp, TypeOK
  <2>3. \A o \in Ops : row'[o].phase = row[o].phase
    BY <2>1, <2>2 DEF Row
  <2> QED BY <1>7, <2>3, SameStages DEF Claim, TailClaim, history
<1>8. ASSUME NEW w \in Workers,
             Begin(w) \/ BeginRefused(w) \/ Abandon(w) \/ MarkFacts(w) \/ WorkFails(w)
               \/ CommitInDoubt(w) \/ FinishFence(w) \/ Undo(w) \/ Crash(w)
      PROVE  UNCHANGED M!vars
  BY <1>8, SameStages DEF Begin, BeginRefused, Abandon, MarkFacts, WorkFails, CommitInDoubt,
     FinishFence, Undo, Crash, history
<1>9. CASE \/ \E o \in Ops : RollbackFacts(o) \/ \E w \in Workers : Load(w, o)
           \/ LeaseExpires \/ RecoverOrphan \/ (\E b \in Builders : BuilderStep(b))
           \/ UNCHANGED vars
  BY <1>9, SameStages DEF RollbackFacts, Load, LeaseExpires, RecoverOrphan, BuilderStep,
     ReadGeneration, ReadIdentity, CheckIdentity, Publish, vars, history
<1> QED
  BY <1>1, <1>2, <1>3, <1>4, <1>5, <1>6, <1>7, <1>8, <1>9 DEF Next, WorkerStep

(* Whoever runs, recovers or overtakes an operation, it goes the way of    *)
(* Maintenance: one replacement or a refusal that changed nothing, then    *)
(* the tail, then the deletion of the row.                                 *)
THEOREM ImplementsMaintenance == Spec => MaintenanceKept
<1> QED
  BY SnapshotInit, SnapshotNext, MaintenanceInit, MaintenanceNext, PTL DEF Spec, MaintenanceKept, M!Spec
=============================================================================
