------------------------- MODULE AbilityOutboxProofs -------------------------
(***************************************************************************)
(* Proofs about AbilityOutbox, for any sets of users, workers and          *)
(* consumers and any number of edits and faults.                           *)
(*                                                                         *)
(* The argument: a worker's copy of the row is never ahead of the row, and *)
(* while it matches the row the worker knows its phase (Copies).  So the   *)
(* phase only moves along its eight values (PhaseMoves), a target only     *)
(* along its states (TargetMoves), and each debt a replacement of facts    *)
(* makes is carried by the phase, then by the user's target, until the     *)
(* step that pays it (AggregatesDebt, ProfileDebt).  When the relay        *)
(* deletes the row no phase and no target is left to carry a debt, so none *)
(* is left: that is what ProblemEdits promises, the rest of its steps are  *)
(* those of the phase (EditsKept).  The writers that go round the row move *)
(* users into excused, and its deletion by an analysis those it owed; the  *)
(* debts are those of the others, and Kept says that no step makes one of  *)
(* them stale but the row's own replacement of facts.                      *)
(***************************************************************************)
EXTENDS AbilityOutbox, TLAPS

Relaying == {"relay", "publish", "renewed", "sent", "unsent", "complete"}
Committed == Fenced \ {"intent"}

\* A worker has an edit that was asked for and, where it works on a user, a user.
Busy == \A w \in Workers :
  /\ pc[w] # "idle" => mine[w].edit \in Edits /\ mine[w].edit <= edits
  /\ pc[w] \in {"built", "renewed", "sent", "unsent"} => at[w] \in Users
\* A consumer handles a message exactly when it is not idle.
Handling == \A c \in Consumers :
  /\ cpc[c] # "idle" => job[c] \in Message
  /\ cpc[c] = "idle" => job[c] = NoMessage

\* The row of an edit that was asked for, or no row.
RowShape == /\ row.edit <= edits
            /\ row.phase = "none" <=> row.edit = 0

\* A worker's copy is never ahead of the row it was read from, and shows the
\* row's phase as long as the revision is the same.
Copy(w) == pc[w] # "idle" /\ row.edit = mine[w].edit =>
  /\ mine[w].rev <= row.rev
  /\ mine[w].hard = row.hard
  /\ mine[w].rev = row.rev => mine[w].phase = row.phase
Copies == \A w \in Workers : Copy(w)

\* The phase in which a worker does what.
Stage(w) ==
  /\ pc[w] \in {"begin", "claim", "run"} => mine[w].phase \in Fenced
  /\ pc[w] \in {"rebuild", "built"} => mine[w].phase = "targets_ready"
  /\ pc[w] \in {"finish", "advance"} => mine[w].phase = "derived_ready"
  /\ pc[w] = "failed" => mine[w].phase \in Committed
  /\ pc[w] \in {"undo", "undoClear"} => mine[w].phase = "intent"
  /\ pc[w] = "tail" => mine[w].phase \in Tails
  /\ pc[w] \in Relaying => mine[w].phase = "cache_tail_done"
Stages == \A w \in Workers : Stage(w)

\* cache_tail_done is final: only the deletion of the row follows it.
LastPhase == \A w \in Workers :
  pc[w] # "idle" /\ mine[w].phase = "cache_tail_done" /\ mine[w].edit = row.edit =>
    row.phase = "cache_tail_done"

\* Targets are created by PrepareTargets, with revision 1.
NoTargetsYet == row.phase \in {"none", "intent", "facts", "model_ready"} =>
  \A u \in Users : target[u].st = "none"

NoneIsNew == \A u \in Users : target[u].st = "none" => target[u].rev = 0

\* A worker's lists hold targets as they once were.
Listing == {"rebuild", "built", "publish", "renewed", "sent", "unsent"}
Pointing == {"built", "renewed", "sent", "unsent"}
List(w) ==
  /\ \A u \in Users :
       /\ pc[w] \in {"rebuild", "built"} => seen[w][u].st \in {"none", "pending"}
       /\ pc[w] \in {"publish", "renewed", "sent", "unsent"} =>
            seen[w][u].st \in {"none", "outbox_ready", "delivered"}
       /\ pc[w] \in Listing /\ seen[w][u].st # "none" /\ mine[w].edit = row.edit =>
            seen[w][u].rev <= target[u].rev
  /\ pc[w] \in Pointing => seen[w][at[w]].st # "none"
Listed == \A w \in Workers : List(w)

\* A worker that still owns the row has rebuilt the user it is about to take
\* off the pending list.
Rebuilt == \A w \in Workers :
  pc[w] = "built" /\ Matches(w) /\ at[w] \notin excused => derived[at[w]] = wanted[at[w]]

\* Who still owes what an edit made stale.
AggregatesDebt == \A u \in Users \ excused : derived[u] # wanted[u] =>
  \/ row.phase \in {"facts", "model_ready"} /\ u \in Concerned(row)
  \/ row.phase = "targets_ready" /\ target[u].st = "pending"

ProfileDebt == \A u \in Users \ excused : built[u] # wanted[u] =>
  \/ row.phase \in {"facts", "model_ready"} /\ u \in Concerned(row)
  \/ /\ row.phase \in {"targets_ready", "derived_ready"} \cup Tails
     /\ target[u].st \notin {"none", "consumed"}

\* Messages are published in the last phase of their edit.
Published == \A m \in Message : InFlight(m) =>
  m.edit <= edits /\ (m.edit = row.edit => row.phase = "cache_tail_done")

\* A consumer about to confirm a target of the present edit has built it.
Confirming == \A c \in Consumers :
  cpc[c] = "confirm" /\ job[c].edit = row.edit /\ job[c].user \notin excused =>
    built[job[c].user] = wanted[job[c].user]

\* A relay about to record a delivery has sent it.
Sent == \A w \in Workers : pc[w] = "sent" /\ TargetMatches(w) =>
  LET m == [edit |-> mine[w].edit, user |-> at[w]] IN InFlight(m) \/ m \in lost

\* No row keeps nothing of the last one.
Blank == row.phase = "none" => row = NoRow

\* The part of the invariant about types.
TypeInv == TypeOK /\ Busy /\ Handling /\ RowShape /\ Blank

USE DEF marks, durable, fence, facts, messages, worker, consumer

-----------------------------------------------------------------------------
(* Records of the row and of the targets.                                  *)

\* The records that an update of the row, or of a copy of it, writes.
Advanced(r, p) == [r EXCEPT !.phase = p, !.rev = @ + 1]
Claimed(r, w) == [r EXCEPT !.owner = w, !.rev = @ + 1]
Leased(r, x) == [r EXCEPT !.relay = x]
Relayed(r, w) == [r EXCEPT !.relay = w, !.rev = @ + 1]
Stepped(r) == [r EXCEPT !.rev = @ + 1]

LEMMA RowAdvanced ==
  ASSUME NEW r \in Row, NEW p \in Fenced \cup Tails
  PROVE  /\ Advanced(r, p) \in Row
         /\ Advanced(r, p).phase = p /\ Advanced(r, p).rev = r.rev + 1
                 /\ Advanced(r, p).edit = r.edit
         /\ Advanced(r, p).hard = r.hard /\ Advanced(r, p).owner = r.owner
                 /\ Advanced(r, p).relay = r.relay
<1> SUFFICES ASSUME NEW s, s = [r EXCEPT !.phase = p, !.rev = @ + 1]
             PROVE  /\ s \in Row
             /\ s.phase = p /\ s.rev = r.rev + 1 /\ s.edit = r.edit
             /\ s.hard = r.hard /\ s.owner = r.owner /\ s.relay = r.relay
  BY DEF Advanced
<1>1. s = [edit |-> r.edit, phase |-> p, rev |-> r.rev + 1,
      owner |-> r.owner, hard |-> r.hard, relay |-> r.relay]
  BY DEF Row
<1>2. r.rev \in Nat /\ r.rev + 1 \in Nat
  BY DEF Row
<1> QED
  BY <1>1, <1>2 DEF Row

LEMMA RowClaimed ==
  ASSUME NEW r \in Row, NEW w \in Workers
  PROVE  /\ Claimed(r, w) \in Row
         /\ Claimed(r, w).phase = r.phase /\ Claimed(r, w).rev = r.rev + 1
                 /\ Claimed(r, w).edit = r.edit
         /\ Claimed(r, w).hard = r.hard /\ Claimed(r, w).owner = w
                 /\ Claimed(r, w).relay = r.relay
<1> SUFFICES ASSUME NEW s, s = [r EXCEPT !.owner = w, !.rev = @ + 1]
             PROVE  /\ s \in Row
             /\ s.phase = r.phase /\ s.rev = r.rev + 1 /\ s.edit = r.edit
             /\ s.hard = r.hard /\ s.owner = w /\ s.relay = r.relay
  BY DEF Claimed
<1>1. s = [edit |-> r.edit, phase |-> r.phase, rev |-> r.rev + 1,
      owner |-> w, hard |-> r.hard, relay |-> r.relay]
  BY DEF Row
<1>2. r.rev \in Nat /\ r.rev + 1 \in Nat
  BY DEF Row
<1> QED
  BY <1>1, <1>2 DEF Row

LEMMA RowLeased ==
  ASSUME NEW r \in Row, NEW x \in Workers \cup {Nobody, Dead}
  PROVE  /\ Leased(r, x) \in Row
         /\ Leased(r, x).phase = r.phase /\ Leased(r, x).rev = r.rev
                 /\ Leased(r, x).edit = r.edit
         /\ Leased(r, x).hard = r.hard /\ Leased(r, x).owner = r.owner /\ Leased(r, x).relay = x
<1> SUFFICES ASSUME NEW s, s = [r EXCEPT !.relay = x]
             PROVE  /\ s \in Row
             /\ s.phase = r.phase /\ s.rev = r.rev /\ s.edit = r.edit
             /\ s.hard = r.hard /\ s.owner = r.owner /\ s.relay = x
  BY DEF Leased
<1>1. s = [edit |-> r.edit, phase |-> r.phase, rev |-> r.rev,
      owner |-> r.owner, hard |-> r.hard, relay |-> x]
  BY DEF Row
<1>2. r.rev \in Nat /\ r.rev + 1 \in Nat
  BY DEF Row
<1> QED
  BY <1>1, <1>2 DEF Row

LEMMA RowRelayed ==
  ASSUME NEW r \in Row, NEW w \in Workers
  PROVE  /\ Relayed(r, w) \in Row
         /\ Relayed(r, w).phase = r.phase /\ Relayed(r, w).rev = r.rev + 1
                 /\ Relayed(r, w).edit = r.edit
         /\ Relayed(r, w).hard = r.hard /\ Relayed(r, w).owner = r.owner
                 /\ Relayed(r, w).relay = w
<1> SUFFICES ASSUME NEW s, s = [r EXCEPT !.relay = w, !.rev = @ + 1]
             PROVE  /\ s \in Row
             /\ s.phase = r.phase /\ s.rev = r.rev + 1 /\ s.edit = r.edit
             /\ s.hard = r.hard /\ s.owner = r.owner /\ s.relay = w
  BY DEF Relayed
<1>1. s = [edit |-> r.edit, phase |-> r.phase, rev |-> r.rev + 1,
      owner |-> r.owner, hard |-> r.hard, relay |-> w]
  BY DEF Row
<1>2. r.rev \in Nat /\ r.rev + 1 \in Nat
  BY DEF Row
<1> QED
  BY <1>1, <1>2 DEF Row

LEMMA RowStepped ==
  ASSUME NEW r \in Row
  PROVE  /\ Stepped(r) \in Row
         /\ Stepped(r).phase = r.phase /\ Stepped(r).rev = r.rev + 1 /\ Stepped(r).edit = r.edit
         /\ Stepped(r).hard = r.hard /\ Stepped(r).owner = r.owner /\ Stepped(r).relay = r.relay
<1> SUFFICES ASSUME NEW s, s = [r EXCEPT !.rev = @ + 1]
             PROVE  /\ s \in Row
             /\ s.phase = r.phase /\ s.rev = r.rev + 1 /\ s.edit = r.edit
             /\ s.hard = r.hard /\ s.owner = r.owner /\ s.relay = r.relay
  BY DEF Stepped
<1>1. s = [edit |-> r.edit, phase |-> r.phase, rev |-> r.rev + 1,
      owner |-> r.owner, hard |-> r.hard, relay |-> r.relay]
  BY DEF Row
<1>2. r.rev \in Nat /\ r.rev + 1 \in Nat
  BY DEF Row
<1> QED
  BY <1>1, <1>2 DEF Row

LEMMA RowRequested ==
  ASSUME TypeOK, Request
  PROVE  /\ row' \in Row /\ edits' \in Edits /\ edits' = edits + 1 /\ row.phase = "none"
         /\ row'.edit = edits + 1 /\ row'.phase = "intent"
<1>1. edits \in Nat /\ edits < MaxEdits /\ edits + 1 \in 0..MaxEdits /\ edits' = edits + 1
      /\ edits + 1 \in 1..MaxEdits
  BY OutboxConstants DEF TypeOK, Request
<1>2. (edits' \in HardEdits) \in BOOLEAN
  OBVIOUS
<1>3. row' = [edit |-> edits + 1, phase |-> "intent", rev |-> 1, owner |-> Nobody,
              hard |-> edits' \in HardEdits, relay |-> Nobody]
  BY <1>1 DEF Request, NoRow
<1>4. row' \in Row
  BY <1>1, <1>2, <1>3 DEF Row, Fenced
<1>5. row'.edit = edits + 1 /\ row'.phase = "intent"
  BY <1>3
<1> QED
  BY <1>1, <1>4, <1>5 DEF Edits, Request, Present

LEMMA AdvanceEffect ==
  ASSUME TypeOK, NEW w \in Workers, NEW p \in Fenced \cup Tails, AdvancePhase(w, p)
  PROVE  /\ row' \in Row /\ mine' \in [Workers -> Row]
         /\ row.phase # "none" /\ row.edit = mine[w].edit /\ row.rev = mine[w].rev
         /\ row'.phase = p /\ row'.rev = row.rev + 1 /\ row'.edit = row.edit
         /\ row'.hard = row.hard /\ row'.owner = row.owner /\ row'.relay = row.relay
         /\ mine'[w].phase = p /\ mine'[w].rev = mine[w].rev + 1
         /\ mine'[w].edit = mine[w].edit /\ mine'[w].hard = mine[w].hard
         /\ \A v \in Workers \ {w} : mine'[v] = mine[v]
<1>1. /\ row \in Row /\ mine \in [Workers -> Row] /\ mine[w] \in Row
      /\ Matches(w)
      /\ row' = Advanced(row, p)
      /\ mine' = [mine EXCEPT ![w].phase = p, ![w].rev = @ + 1]
  BY DEF TypeOK, AdvancePhase, Advanced
<1>2. mine'[w] = Advanced(mine[w], p)
  BY <1>1 DEF Advanced
<1>3. /\ row' \in Row /\ row'.phase = p /\ row'.rev = row.rev + 1 /\ row'.edit = row.edit
      /\ row'.hard = row.hard /\ row'.owner = row.owner /\ row'.relay = row.relay
  BY <1>1, RowAdvanced
<1>4. /\ mine'[w] \in Row /\ mine'[w].phase = p /\ mine'[w].rev = mine[w].rev + 1
      /\ mine'[w].edit = mine[w].edit /\ mine'[w].hard = mine[w].hard
  BY <1>1, <1>2, RowAdvanced
<1>5. \A v \in Workers \ {w} : mine'[v] = mine[v]
  BY <1>1
<1>6. mine' \in [Workers -> Row]
  BY <1>1, <1>4, <1>5
<1>7. row.phase # "none" /\ row.edit = mine[w].edit /\ row.rev = mine[w].rev
  BY <1>1 DEF Matches, RevisionMatches, Present
<1> QED
  BY <1>3, <1>4, <1>5, <1>6, <1>7

-----------------------------------------------------------------------------
(* What the actions do to the row and to the worker.                       *)

LEMMA EmptyTyped ==
  /\ NoRow \in Row /\ NoRow.edit = 0 /\ NoRow.phase = "none"
  /\ NoTarget \in Target /\ NoTargets \in [Users -> Target]
  /\ NoTarget.st = "none" /\ \A u \in Users : NoTargets[u] = NoTarget
BY OutboxConstants DEF NoRow, Row, NoTarget, Target, NoTargets

LEMMA ClaimEffect ==
  ASSUME TypeOK, NEW w \in Workers, Claim(w), pc' # [pc EXCEPT ![w] = "abandon"]
  PROVE  /\ row' \in Row /\ mine' \in [Workers -> Row]
         /\ row.phase # "none" /\ row.edit = mine[w].edit /\ row.rev = mine[w].rev
         /\ row'.phase = row.phase /\ row'.rev = row.rev + 1 /\ row'.edit = row.edit
         /\ row'.hard = row.hard
         /\ mine'[w].phase = mine[w].phase /\ mine'[w].rev = mine[w].rev + 1
         /\ mine'[w].edit = mine[w].edit /\ mine'[w].hard = mine[w].hard
         /\ \A v \in Workers \ {w} : mine'[v] = mine[v]
         /\ pc' = [pc EXCEPT ![w] = ResumesAt(row.phase)]
<1>1. /\ row \in Row /\ mine \in [Workers -> Row] /\ mine[w] \in Row
      /\ RevisionMatches(w)
      /\ row' = Claimed(row, w)
      /\ mine' = [mine EXCEPT ![w].owner = w, ![w].rev = @ + 1]
      /\ pc' = [pc EXCEPT ![w] = ResumesAt(row.phase)]
  BY DEF TypeOK, Claim, Goto, Claimed
<1>2. mine'[w] = Claimed(mine[w], w)
  BY <1>1 DEF Claimed
<1>3. /\ row' \in Row /\ row'.phase = row.phase /\ row'.rev = row.rev + 1
              /\ row'.edit = row.edit
      /\ row'.hard = row.hard
  BY <1>1, RowClaimed
<1>4. /\ mine'[w] \in Row /\ mine'[w].phase = mine[w].phase /\ mine'[w].rev = mine[w].rev + 1
      /\ mine'[w].edit = mine[w].edit /\ mine'[w].hard = mine[w].hard
  BY <1>1, <1>2, RowClaimed
<1>5. \A v \in Workers \ {w} : mine'[v] = mine[v]
  BY <1>1
<1>6. mine' \in [Workers -> Row]
  BY <1>1, <1>4, <1>5
<1>7. row.phase # "none" /\ row.edit = mine[w].edit /\ row.rev = mine[w].rev
  BY <1>1 DEF RevisionMatches, Present
<1> QED
  BY <1>1, <1>3, <1>4, <1>5, <1>6, <1>7

LEMMA RelayEffect ==
  ASSUME TypeOK, NEW w \in Workers, RelayClaim(w)
  PROVE  /\ row' \in Row /\ mine' \in [Workers -> Row]
         /\ row.phase # "none" /\ row.edit = mine[w].edit /\ row.rev = mine[w].rev
         /\ row'.phase = row.phase /\ row'.rev = row.rev + 1 /\ row'.edit = row.edit
         /\ row'.hard = row.hard
         /\ mine'[w].phase = mine[w].phase /\ mine'[w].rev = mine[w].rev + 1
         /\ mine'[w].edit = mine[w].edit /\ mine'[w].hard = mine[w].hard
         /\ \A v \in Workers \ {w} : mine'[v] = mine[v]
         /\ pc[w] = "tail" /\ mine[w].phase = "cache_tail_done"
         /\ pc' = [pc EXCEPT ![w] = "relay"]
<1>1. /\ row \in Row /\ mine \in [Workers -> Row] /\ mine[w] \in Row
      /\ RevisionMatches(w)
      /\ row' = Relayed(row, w)
      /\ mine' = [mine EXCEPT ![w].rev = @ + 1]
      /\ pc[w] = "tail" /\ mine[w].phase = "cache_tail_done"
      /\ pc' = [pc EXCEPT ![w] = "relay"]
  BY DEF TypeOK, RelayClaim, Relayed, InTail, Goto
<1>2. mine'[w] = Stepped(mine[w])
  BY <1>1 DEF Stepped
<1>3. /\ row' \in Row /\ row'.phase = row.phase /\ row'.rev = row.rev + 1
              /\ row'.edit = row.edit
      /\ row'.hard = row.hard
  BY <1>1, RowRelayed
<1>4. /\ mine'[w] \in Row /\ mine'[w].phase = mine[w].phase /\ mine'[w].rev = mine[w].rev + 1
      /\ mine'[w].edit = mine[w].edit /\ mine'[w].hard = mine[w].hard
  BY <1>1, <1>2, RowStepped
<1>5. \A v \in Workers \ {w} : mine'[v] = mine[v]
  BY <1>1
<1>6. mine' \in [Workers -> Row]
  BY <1>1, <1>4, <1>5
<1>7. row.phase # "none" /\ row.edit = mine[w].edit /\ row.rev = mine[w].rev
  BY <1>1 DEF RevisionMatches, Present
<1> QED
  BY <1>1, <1>3, <1>4, <1>5, <1>6, <1>7

LEMMA LoadEffect ==
  ASSUME TypeOK, NEW w \in Workers, Load(w)
  PROVE  /\ row.phase # "none" /\ row.edit \in 0..MaxEdits /\ pc[w] = "idle"
         /\ pc' = [pc EXCEPT ![w] = IF row.phase \in Tails THEN "tail" ELSE "begin"]
         /\ mine' \in [Workers -> Row]
         /\ mine'[w].phase = row.phase /\ mine'[w].rev = row.rev /\ mine'[w].edit = row.edit
         /\ mine'[w].hard = row.hard
         /\ \A v \in Workers \ {w} : mine'[v] = mine[v]
<1>1. /\ row \in Row /\ mine \in [Workers -> Row] /\ pc[w] = "idle"
      /\ mine' = [mine EXCEPT ![w] = Leased(row, Nobody)]
      /\ pc' = [pc EXCEPT ![w] = IF row.phase \in Tails THEN "tail" ELSE "begin"]
      /\ row.phase # "none"
  BY DEF TypeOK, Load, Leased, Goto, Present
<1>2. mine'[w] = Leased(row, Nobody) /\ \A v \in Workers \ {w} : mine'[v] = mine[v]
  BY <1>1
<1>3. /\ mine'[w] \in Row /\ mine'[w].phase = row.phase /\ mine'[w].rev = row.rev
      /\ mine'[w].edit = row.edit /\ mine'[w].hard = row.hard
  BY <1>1, <1>2, RowLeased
<1>4. mine' \in [Workers -> Row]
  BY <1>1, <1>2, <1>3
<1>5. row.edit \in 0..MaxEdits
  BY <1>1 DEF Row
<1> QED
  BY <1>1, <1>2, <1>3, <1>4, <1>5

\* Giving up, losing and expiring the relay lease.
LEMMA LeaseEffect ==
  ASSUME TypeOK, \/ \E w \in Workers : Release(w) \/ Crash(w)
                 \/ RelayExpires
  PROVE  /\ row' \in Row /\ row'.phase = row.phase /\ row'.rev = row.rev
         /\ row'.edit = row.edit /\ row'.hard = row.hard /\ row'.owner = row.owner
<1>1. row \in Row
  BY DEF TypeOK
<1>2. row' = row \/ \E x \in Workers \cup {Nobody, Dead} : row' = Leased(row, x)
  <2>1. ASSUME NEW w \in Workers, Release(w)
        PROVE  (\E x \in Workers \cup {Nobody, Dead} : row' = Leased(row, x)) \/ row' = row
    BY <2>1 DEF Release, Leased
  <2>2. ASSUME NEW w \in Workers, Crash(w)
        PROVE  (\E x \in Workers \cup {Nobody, Dead} : row' = Leased(row, x)) \/ row' = row
    BY <2>2 DEF Crash, Leased
  <2>3. ASSUME RelayExpires PROVE (\E x \in Workers \cup {Nobody, Dead} : row' = Leased(row, x))
    BY <2>3 DEF RelayExpires, Leased
  <2> QED
    BY <2>1, <2>2, <2>3
<1> QED
  BY <1>1, <1>2, RowLeased

\* What a worker that is done leaves behind.
LEMMA LeaveEffect ==
  ASSUME TypeOK, NEW w \in Workers, Leave(w)
  PROVE  /\ pc' \in [Workers -> WorkerPC] /\ mine' \in [Workers -> Row]
         /\ seen' \in [Workers -> [Users -> Target]] /\ at' \in [Workers -> Users \cup {Nobody}]
         /\ pc'[w] = "idle" /\ mine'[w] = NoRow /\ seen'[w] = NoTargets
         /\ \A v \in Workers \ {w} :
              pc'[v] = pc[v] /\ mine'[v] = mine[v] /\ seen'[v] = seen[v] /\ at'[v] = at[v]
<1>1. /\ pc' = [pc EXCEPT ![w] = "idle"] /\ mine' = [mine EXCEPT ![w] = NoRow]
      /\ seen' = [seen EXCEPT ![w] = NoTargets] /\ at' = [at EXCEPT ![w] = Nobody]
  BY DEF Leave, Goto
<1>2. "idle" \in WorkerPC
  BY DEF WorkerPC
<1>3. /\ pc \in [Workers -> WorkerPC] /\ mine \in [Workers -> Row]
      /\ seen \in [Workers -> [Users -> Target]] /\ at \in [Workers -> Users \cup {Nobody}]
  BY DEF TypeOK
<1> QED
  BY <1>1, <1>2, <1>3, EmptyTyped

-----------------------------------------------------------------------------
(* What they do to the targets.                                            *)

\* The records that an update of a target writes.
States == {"none", "pending", "rebuilt", "outbox_ready", "delivered", "consumed"}
Moved(t, x) == [t EXCEPT !.st = x, !.rev = @ + 1]
Bumped(t) == [t EXCEPT !.rev = @ + 1]
DueNow(t) == [t EXCEPT !.due = TRUE, !.rev = @ + 1]
Expired(t) == [t EXCEPT !.due = TRUE]
Fresh(t, x) == [st |-> x, rev |-> t.rev + 1, due |-> FALSE]

LEMMA TargetMoved ==
  ASSUME NEW t \in Target, NEW x \in States
  PROVE  /\ Moved(t, x) \in Target
         /\ Moved(t, x).st = x /\ Moved(t, x).rev = t.rev + 1 /\ Moved(t, x).due = t.due
<1> SUFFICES ASSUME NEW s, s = [t EXCEPT !.st = x, !.rev = @ + 1]
             PROVE  s \in Target /\ s.st = x /\ s.rev = t.rev + 1 /\ s.due = t.due
  BY DEF Moved
<1>1. s = [st |-> x, rev |-> t.rev + 1, due |-> t.due]
  BY DEF Target
<1>2. t.rev \in Nat /\ t.rev + 1 \in Nat
  BY DEF Target
<1> QED
  BY <1>1, <1>2 DEF Target, States

LEMMA TargetBumped ==
  ASSUME NEW t \in Target
  PROVE  /\ Bumped(t) \in Target
         /\ Bumped(t).st = t.st /\ Bumped(t).rev = t.rev + 1 /\ Bumped(t).due = t.due
<1> SUFFICES ASSUME NEW s, s = [t EXCEPT !.rev = @ + 1]
             PROVE  s \in Target /\ s.st = t.st /\ s.rev = t.rev + 1 /\ s.due = t.due
  BY DEF Bumped
<1>1. s = [st |-> t.st, rev |-> t.rev + 1, due |-> t.due]
  BY DEF Target
<1>2. t.rev \in Nat /\ t.rev + 1 \in Nat
  BY DEF Target
<1> QED
  BY <1>1, <1>2 DEF Target

LEMMA TargetDue ==
  ASSUME NEW t \in Target
  PROVE  /\ DueNow(t) \in Target
         /\ DueNow(t).st = t.st /\ DueNow(t).rev = t.rev + 1 /\ DueNow(t).due = TRUE
<1> SUFFICES ASSUME NEW s, s = [t EXCEPT !.due = TRUE, !.rev = @ + 1]
             PROVE  s \in Target /\ s.st = t.st /\ s.rev = t.rev + 1 /\ s.due = TRUE
  BY DEF DueNow
<1>1. s = [st |-> t.st, rev |-> t.rev + 1, due |-> TRUE]
  BY DEF Target
<1>2. t.rev \in Nat /\ t.rev + 1 \in Nat
  BY DEF Target
<1> QED
  BY <1>1, <1>2 DEF Target

LEMMA TargetExpired ==
  ASSUME NEW t \in Target
  PROVE  /\ Expired(t) \in Target
         /\ Expired(t).st = t.st /\ Expired(t).rev = t.rev /\ Expired(t).due = TRUE
<1> SUFFICES ASSUME NEW s, s = [t EXCEPT !.due = TRUE]
             PROVE  s \in Target /\ s.st = t.st /\ s.rev = t.rev /\ s.due = TRUE
  BY DEF Expired
<1>1. s = [st |-> t.st, rev |-> t.rev, due |-> TRUE]
  BY DEF Target
<1> QED
  BY <1>1 DEF Target

LEMMA TargetFresh ==
  ASSUME NEW t \in Target, NEW x \in States
  PROVE  /\ Fresh(t, x) \in Target
         /\ Fresh(t, x).st = x /\ Fresh(t, x).rev = t.rev + 1 /\ Fresh(t, x).due = FALSE
<1> SUFFICES ASSUME NEW s, s = [st |-> x, rev |-> t.rev + 1, due |-> FALSE]
             PROVE  s \in Target /\ s.st = x /\ s.rev = t.rev + 1 /\ s.due = FALSE
  BY DEF Fresh
<1>2. t.rev \in Nat /\ t.rev + 1 \in Nat
  BY DEF Target
<1> QED
  BY <1>2 DEF Target, States

LEMMA PrepareEffect ==
  ASSUME TypeOK, NEW w \in Workers, PrepareTargets(w)
  PROVE  /\ target' \in [Users -> Target]
         /\ \A u \in Users :
              \/ /\ target[u].st = "none" /\ u \in Concerned(mine[w])
                 /\ target'[u].st = "pending" /\ target'[u].rev = 1
              \/ /\ target'[u] = target[u]
                 /\ target[u].st # "none" \/ u \notin Concerned(mine[w])
<1>1. target' = [u \in Users |->
        IF u \in Concerned(mine[w]) /\ target[u].st = "none"
        THEN [st |-> "pending", rev |-> 1, due |-> FALSE] ELSE target[u]]
  BY DEF PrepareTargets
<1>2. [st |-> "pending", rev |-> 1, due |-> FALSE] \in Target
      /\ [st |-> "pending", rev |-> 1, due |-> FALSE].st = "pending"
      /\ [st |-> "pending", rev |-> 1, due |-> FALSE].rev = 1
  BY DEF Target
<1> QED
  BY <1>1, <1>2 DEF TypeOK

LEMMA StageEffect ==
  ASSUME TypeOK, NEW w \in Workers, StageTargets(w)
  PROVE  /\ target' \in [Users -> Target]
         /\ \A u \in Users :
              \/ target[u].st = "none" /\ target'[u] = target[u]
              \/ /\ target[u].st = "rebuilt" /\ target'[u].st = "outbox_ready"
                 /\ target'[u].rev = target[u].rev + 1
<1>1. target \in [Users -> Target]
  BY DEF TypeOK
<1>2. /\ \A u \in Users : target[u].st \in {"none", "rebuilt"}
      /\ target' = [u \in Users |->
           IF target[u].st = "rebuilt" THEN Moved(target[u], "outbox_ready") ELSE target[u]]
  BY DEF StageTargets, Moved
<1>3. \A u \in Users : /\ Moved(target[u], "outbox_ready") \in Target
                       /\ Moved(target[u], "outbox_ready").st = "outbox_ready"
                       /\ Moved(target[u], "outbox_ready").rev = target[u].rev + 1
  BY <1>1, TargetMoved DEF States
<1> QED
  BY <1>1, <1>2, <1>3

LEMMA AdvanceTargetEffect ==
  ASSUME TypeOK, NEW w \in Workers, AdvanceTarget(w), at[w] \in Users
  PROVE  /\ target' \in [Users -> Target] /\ target'[at[w]].st = "rebuilt"
         /\ target'[at[w]].rev = target[at[w]].rev + 1
         /\ \A u \in Users : u # at[w] => target'[u] = target[u]
<1>1. target \in [Users -> Target]
  BY DEF TypeOK
<1>2. target' = [target EXCEPT ![at[w]] = Moved(target[at[w]], "rebuilt")]
  BY <1>1 DEF AdvanceTarget, Moved
<1>3. /\ Moved(target[at[w]], "rebuilt") \in Target
      /\ Moved(target[at[w]], "rebuilt").st = "rebuilt"
      /\ Moved(target[at[w]], "rebuilt").rev = target[at[w]].rev + 1
  BY <1>1, TargetMoved DEF States
<1> QED
  BY <1>1, <1>2, <1>3

LEMMA SentEffect ==
  ASSUME TypeOK, NEW w \in Workers, RecordSent(w), at[w] \in Users
  PROVE  /\ target' \in [Users -> Target]
         /\ \/ target' = target
            \/ /\ TargetMatches(w) /\ target'[at[w]].st = "delivered"
               /\ target'[at[w]].rev = target[at[w]].rev + 1
               /\ target'[at[w]].due = FALSE
               /\ \A u \in Users : u # at[w] => target'[u] = target[u]
<1>1. target \in [Users -> Target]
  BY DEF TypeOK
<1>2. CASE target' = target
  BY <1>1, <1>2
<1>3. CASE TargetMatches(w)
                /\ target' = [target EXCEPT ![at[w]] = Fresh(target[at[w]], "delivered")]
  <2>1. /\ Fresh(target[at[w]], "delivered") \in Target
        /\ Fresh(target[at[w]], "delivered").st = "delivered"
        /\ Fresh(target[at[w]], "delivered").rev = target[at[w]].rev + 1
        /\ Fresh(target[at[w]], "delivered").due = FALSE
    BY <1>1, TargetFresh DEF States
  <2> QED
    BY <1>1, <1>3, <2>1
<1> QED
  BY <1>1, <1>2, <1>3 DEF RecordSent, Fresh

LEMMA UnsentEffect ==
  ASSUME TypeOK, NEW w \in Workers, RecordUnsent(w), at[w] \in Users
  PROVE  /\ target' \in [Users -> Target]
         /\ \/ target' = target
            \/ /\ TargetMatches(w) /\ target'[at[w]].st = target[at[w]].st
               /\ target'[at[w]].rev = target[at[w]].rev + 1
               /\ target'[at[w]].due = target[at[w]].due
               /\ \A u \in Users : u # at[w] => target'[u] = target[u]
<1>1. target \in [Users -> Target]
  BY DEF TypeOK
<1>2. CASE target' = target
  BY <1>1, <1>2
<1>3. CASE TargetMatches(w) /\ target' = [target EXCEPT ![at[w]] = Bumped(target[at[w]])]
  BY <1>1, <1>3, TargetBumped
<1> QED
  BY <1>1, <1>2, <1>3 DEF RecordUnsent, Bumped

LEMMA ConfirmEffect ==
  ASSUME TypeOK, NEW c \in Consumers, Confirm(c), job[c] \in Message
  PROVE  /\ target' \in [Users -> Target]
         /\ \/ target' = target /\ ~IsFor(job[c])
            \/ /\ IsFor(job[c]) /\ target'[job[c].user].st = "consumed"
               /\ target'[job[c].user].rev = target[job[c].user].rev + 1
               /\ \A u \in Users : u # job[c].user => target'[u] = target[u]
<1>1. target \in [Users -> Target] /\ job[c].user \in Users
  BY DEF TypeOK, Message
<1>2. CASE target' = target /\ ~IsFor(job[c])
  BY <1>1, <1>2
<1>3. CASE /\ IsFor(job[c])
           /\ target' = [target EXCEPT ![job[c].user] = Fresh(target[job[c].user], "consumed")]
  <2>1. /\ Fresh(target[job[c].user], "consumed") \in Target
        /\ Fresh(target[job[c].user], "consumed").st = "consumed"
        /\ Fresh(target[job[c].user], "consumed").rev = target[job[c].user].rev + 1
    BY <1>1, TargetFresh DEF States
  <2> QED
    BY <1>1, <1>3, <2>1
<1> QED
  BY <1>1, <1>2, <1>3 DEF Confirm, Fresh

LEMMA DueEffect ==
  ASSUME TypeOK, NEW c \in Consumers, MarkDue(c), job[c] \in Message
  PROVE  /\ target' \in [Users -> Target]
         /\ \/ target' = target /\ ~IsFor(job[c])
            \/ /\ IsFor(job[c]) /\ target'[job[c].user].st = target[job[c].user].st
               /\ target'[job[c].user].rev = target[job[c].user].rev + 1
               /\ target'[job[c].user].due = TRUE
               /\ \A u \in Users : u # job[c].user => target'[u] = target[u]
<1>1. target \in [Users -> Target] /\ job[c].user \in Users
  BY DEF TypeOK, Message
<1>2. CASE target' = target /\ ~IsFor(job[c])
  BY <1>1, <1>2
<1>3. CASE /\ IsFor(job[c])
           /\ target' = [target EXCEPT ![job[c].user] = DueNow(target[job[c].user])]
  <2>1. /\ DueNow(target[job[c].user]) \in Target
        /\ DueNow(target[job[c].user]).st = target[job[c].user].st
        /\ DueNow(target[job[c].user]).rev = target[job[c].user].rev + 1
        /\ DueNow(target[job[c].user]).due = TRUE
    BY <1>1, TargetDue
  <2> QED
    BY <1>1, <1>3, <2>1
<1>4. CASE IsFor(job[c])
  <2>1. target' = [target EXCEPT ![job[c].user] = DueNow(@)]
    BY <1>4 DEF MarkDue, DueNow
  <2> QED
    BY <1>3, <1>4, <2>1
<1>5. CASE ~IsFor(job[c])
  BY <1>2, <1>5 DEF MarkDue
<1> QED
  BY <1>4, <1>5

LEMMA ExpireEffect ==
  ASSUME TypeOK, NEW u \in Users, DeliveryExpires(u)
  PROVE  /\ target' \in [Users -> Target]
         /\ target'[u].st = target[u].st /\ target'[u].rev = target[u].rev
                 /\ target'[u].due = TRUE
         /\ \A v \in Users : v # u => target'[v] = target[v]
<1>1. target \in [Users -> Target]
  BY DEF TypeOK
<1>2. target' = [target EXCEPT ![u] = Expired(target[u])]
  BY <1>1 DEF DeliveryExpires, Expired
<1>3. /\ Expired(target[u]) \in Target /\ Expired(target[u]).st = target[u].st
      /\ Expired(target[u]).rev = target[u].rev /\ Expired(target[u]).due = TRUE
  BY <1>1, TargetExpired
<1> QED
  BY <1>1, <1>2, <1>3

\* The lists a worker reads.
LEMMA ListEffect ==
  ASSUME TypeOK, NEW w \in Workers, ListPending(w) \/ ListReady(w)
  PROVE  /\ seen' \in [Workers -> [Users -> Target]]
         /\ \A v \in Workers \ {w} : seen'[v] = seen[v]
         /\ \A u \in Users :
              \/ seen'[w][u] = NoTarget
              \/ /\ seen'[w][u] = target[u] /\ row.edit = mine[w].edit
                 /\ ListPending(w) => target[u].st = "pending"
                 /\ ListReady(w) => target[u].st \in {"outbox_ready", "delivered"}
<1>1. CASE ListPending(w)
  <2>1. seen' = [seen EXCEPT ![w] = [u \in Users |-> IF TargetOf(w, u).st = "pending"
                                                     THEN TargetOf(w, u) ELSE NoTarget]]
    BY <1>1 DEF ListPending, ListTargets, IsPending
  <2>2. pc[w] = "run"
    BY <1>1 DEF ListPending, Running
  <2> QED
    BY <2>1, <2>2, <1>1, EmptyTyped DEF TypeOK, TargetOf, ListReady
<1>2. CASE ListReady(w)
  <2>1. seen' = [seen EXCEPT ![w] = [u \in Users |-> IF Ready(TargetOf(w, u))
                                                     THEN TargetOf(w, u) ELSE NoTarget]]
    BY <1>2 DEF ListReady, ListTargets
  <2>2. pc[w] = "relay"
    BY <1>2 DEF ListReady
  <2> QED
    BY <2>1, <2>2, <1>2, EmptyTyped DEF TypeOK, TargetOf, Ready, ListPending, Running
<1> QED
  BY <1>1, <1>2

LEMMA DoneEffect ==
  ASSUME TypeOK, NEW w \in Workers, Done(w, at[w]), at[w] \in Users
  PROVE  /\ seen' \in [Workers -> [Users -> Target]] /\ at' \in [Workers -> Users \cup {Nobody}]
         /\ \A v \in Workers \ {w} : seen'[v] = seen[v] /\ at'[v] = at[v]
         /\ \A u \in Users : seen'[w][u] = seen[w][u] \/ seen'[w][u] = NoTarget
BY EmptyTyped DEF TypeOK, Done

-----------------------------------------------------------------------------
(* Which actions change which variables.                                   *)

\* What the writers that go round the row leave alone.
LEMMA OutsideFrame ==
  ASSUME Outside
  PROVE  /\ UNCHANGED <<fence, queue, worker, consumer, faults>>
         /\ UNCHANGED <<edits, wanted>> \/ Review \/ Analyze
         /\ UNCHANGED <<row, target, lost>> \/ DropRow
         /\ UNCHANGED <<dirty, stranded>> \/ Analyze \/ DropRow \/ ClearMark
         /\ UNCHANGED built \/ \E u \in Users : OtherBuild(u)
         /\ UNCHANGED derived \/ \E u \in Users : OtherRefresh(u) \/ OtherBuild(u)
         /\ \/ UNCHANGED excused
            \/ Review \/ Analyze \/ DropRow
            \/ \E u \in Users : OtherBuild(u)
BY DEF Outside, Review, Analyze, ApplyAIAnalysisResult, DropRow, DropFails, ClearMark,
   OtherRefresh, OtherBuild

LEMMA DirtyFrame ==
  ASSUME [Next]_vars
  PROVE  \/ UNCHANGED <<dirty, stranded>>
         \/ \E w \in Workers : MarkDirty(w) \/ ClearDirty(w)
         \/ Analyze \/ DropRow \/ ClearMark
<1> DEFINE Goal == \/ UNCHANGED <<dirty, stranded>>
                   \/ \E w \in Workers : MarkDirty(w) \/ ClearDirty(w)
                   \/ Analyze \/ DropRow \/ ClearMark
<1>1. ASSUME NEW w \in Workers, FencedStep(w) PROVE Goal
  BY <1>1 DEF FencedStep, Begin, BeginRefused, Claim, ReplaceFacts, FactsFail, RefreshModel,
       PrepareTargets, ListPending, Rebuild, AdvanceTarget, StageTargets, WorkFails,
       Abandon, FinishFence, FinishFails, Advance, Undo, UndoClear
<1>2. ASSUME NEW w \in Workers, TailStep(w) PROVE Goal
  BY <1>2 DEF TailStep, BumpLists, RelayClaim, TailFails, ListReady, Renew, Publish,
       RecordSent, RecordUnsent, CheckConsumed, Complete, RelayFails, Release
<1>3. ASSUME NEW w \in Workers, Load(w) \/ Crash(w) PROVE Goal
  BY <1>3 DEF Load, Crash
<1>4. ASSUME NEW c \in Consumers, ConsumerStep(c) \/ Requeue(c) PROVE Goal
  BY <1>4 DEF ConsumerStep, Build, BuildFails, Confirm, MarkDue, Requeue, Take
<1>5. ASSUME Request \/ FenceExpires \/ RelayExpires \/ RecoverOrphan \/ (\E m \in Message :
     Lose(m)) \/ (\E u \in Users : DeliveryExpires(u)) \/ UNCHANGED vars
      PROVE  Goal
  BY <1>5 DEF vars, Request, FenceExpires, RelayExpires, RecoverOrphan, Lose,
       DeliveryExpires
<1>6. ASSUME Outside PROVE Goal
  BY <1>6, OutsideFrame
<1> QED
  BY <1>1, <1>2, <1>3, <1>4, <1>5, <1>6 DEF Next, WorkerStep

LEMMA EditsFrame ==
  ASSUME [Next]_vars, ~Request, ~Review, ~Analyze
  PROVE  UNCHANGED edits
<1>1. ASSUME NEW w \in Workers, FencedStep(w) PROVE UNCHANGED edits
  BY <1>1 DEF FencedStep, Begin, BeginRefused, Claim, ReplaceFacts, FactsFail, RefreshModel,
       PrepareTargets, ListPending, Rebuild, AdvanceTarget, StageTargets, WorkFails,
       MarkDirty, Abandon, FinishFence, FinishFails, Advance, Undo, UndoClear
<1>2. ASSUME NEW w \in Workers, TailStep(w) PROVE UNCHANGED edits
  BY <1>2 DEF TailStep, ClearDirty, BumpLists, RelayClaim, TailFails, ListReady, Renew,
       Publish, RecordSent, RecordUnsent, CheckConsumed, Complete, RelayFails, Release
<1>3. ASSUME NEW w \in Workers, Load(w) \/ Crash(w) PROVE UNCHANGED edits
  BY <1>3 DEF Load, Crash
<1>4. ASSUME NEW c \in Consumers, ConsumerStep(c) \/ Requeue(c) PROVE UNCHANGED edits
  BY <1>4 DEF ConsumerStep, Build, BuildFails, Confirm, MarkDue, Requeue, Take
<1>5. ASSUME FenceExpires \/ RelayExpires \/ RecoverOrphan \/ (\E m \in Message : Lose(m))
             \/ (\E u \in Users : DeliveryExpires(u)) \/ UNCHANGED vars
      PROVE  UNCHANGED edits
  BY <1>5 DEF vars, FenceExpires, RelayExpires, RecoverOrphan, Lose, DeliveryExpires
<1>6. ASSUME Outside PROVE UNCHANGED edits
  BY <1>6, OutsideFrame
<1> QED
  BY <1>1, <1>2, <1>3, <1>4, <1>5, <1>6 DEF Next, WorkerStep

LEMMA WantedFrame ==
  ASSUME [Next]_vars
  PROVE  \/ UNCHANGED wanted
         \/ \E w \in Workers : ReplaceFacts(w)
         \/ Review \/ Analyze
<1> DEFINE Goal == \/ UNCHANGED wanted
                   \/ \E w \in Workers : ReplaceFacts(w)
                   \/ Review \/ Analyze
<1>1. ASSUME NEW w \in Workers, FencedStep(w) PROVE Goal
  BY <1>1 DEF FencedStep, Begin, BeginRefused, Claim, FactsFail, RefreshModel,
       PrepareTargets, ListPending, Rebuild, AdvanceTarget, StageTargets, WorkFails,
       MarkDirty, Abandon, FinishFence, FinishFails, Advance, Undo, UndoClear
<1>2. ASSUME NEW w \in Workers, TailStep(w) PROVE Goal
  BY <1>2 DEF TailStep, ClearDirty, BumpLists, RelayClaim, TailFails, ListReady, Renew,
       Publish, RecordSent, RecordUnsent, CheckConsumed, Complete, RelayFails, Release
<1>3. ASSUME NEW w \in Workers, Load(w) \/ Crash(w) PROVE Goal
  BY <1>3 DEF Load, Crash
<1>4. ASSUME NEW c \in Consumers, ConsumerStep(c) \/ Requeue(c) PROVE Goal
  BY <1>4 DEF ConsumerStep, Build, BuildFails, Confirm, MarkDue, Requeue, Take
<1>5. ASSUME Request \/ FenceExpires \/ RelayExpires \/ RecoverOrphan \/ (\E m \in Message :
     Lose(m)) \/ (\E u \in Users : DeliveryExpires(u)) \/ UNCHANGED vars
      PROVE  Goal
  BY <1>5 DEF vars, Request, FenceExpires, RelayExpires, RecoverOrphan, Lose,
       DeliveryExpires
<1>6. ASSUME Outside PROVE Goal
  BY <1>6, OutsideFrame
<1> QED
  BY <1>1, <1>2, <1>3, <1>4, <1>5, <1>6 DEF Next, WorkerStep

LEMMA DerivedFrame ==
  ASSUME [Next]_vars
  PROVE  \/ UNCHANGED derived
         \/ \E w \in Workers : Rebuild(w)
         \/ \E c \in Consumers : Build(c)
         \/ \E u \in Users : OtherRefresh(u) \/ OtherBuild(u)
<1> DEFINE Goal == \/ UNCHANGED derived
                   \/ \E w \in Workers : Rebuild(w)
                   \/ \E c \in Consumers : Build(c)
                   \/ \E u \in Users : OtherRefresh(u) \/ OtherBuild(u)
<1>1. ASSUME NEW w \in Workers, FencedStep(w) PROVE Goal
  BY <1>1 DEF FencedStep, Begin, BeginRefused, Claim, ReplaceFacts, FactsFail, RefreshModel,
       PrepareTargets, ListPending, AdvanceTarget, StageTargets, WorkFails, MarkDirty,
       Abandon, FinishFence, FinishFails, Advance, Undo, UndoClear
<1>2. ASSUME NEW w \in Workers, TailStep(w) PROVE Goal
  BY <1>2 DEF TailStep, ClearDirty, BumpLists, RelayClaim, TailFails, ListReady, Renew,
       Publish, RecordSent, RecordUnsent, CheckConsumed, Complete, RelayFails, Release
<1>3. ASSUME NEW w \in Workers, Load(w) \/ Crash(w) PROVE Goal
  BY <1>3 DEF Load, Crash
<1>4. ASSUME NEW c \in Consumers, ConsumerStep(c) \/ Requeue(c) PROVE Goal
  BY <1>4 DEF ConsumerStep, BuildFails, Confirm, MarkDue, Requeue, Take
<1>5. ASSUME Request \/ FenceExpires \/ RelayExpires \/ RecoverOrphan \/ (\E m \in Message :
     Lose(m)) \/ (\E u \in Users : DeliveryExpires(u)) \/ UNCHANGED vars
      PROVE  Goal
  BY <1>5 DEF vars, Request, FenceExpires, RelayExpires, RecoverOrphan, Lose,
       DeliveryExpires
<1>6. ASSUME Outside PROVE Goal
  BY <1>6, OutsideFrame
<1> QED
  BY <1>1, <1>2, <1>3, <1>4, <1>5, <1>6 DEF Next, WorkerStep

LEMMA ExcusedFrame ==
  ASSUME [Next]_vars
  PROVE  \/ UNCHANGED excused
         \/ \E w \in Workers : ReplaceFacts(w)
         \/ \E c \in Consumers : Build(c)
         \/ Review \/ Analyze \/ DropRow
         \/ \E u \in Users : OtherBuild(u)
<1> DEFINE Goal == \/ UNCHANGED excused
                   \/ \E w \in Workers : ReplaceFacts(w)
                   \/ \E c \in Consumers : Build(c)
                   \/ Review \/ Analyze \/ DropRow
                   \/ \E u \in Users : OtherBuild(u)
<1>1. ASSUME NEW w \in Workers, FencedStep(w) PROVE Goal
  BY <1>1 DEF FencedStep, Begin, BeginRefused, Claim, FactsFail, RefreshModel,
       PrepareTargets, ListPending, Rebuild, AdvanceTarget, StageTargets, WorkFails,
       MarkDirty, Abandon, FinishFence, FinishFails, Advance, Undo, UndoClear
<1>2. ASSUME NEW w \in Workers, TailStep(w) PROVE Goal
  BY <1>2 DEF TailStep, ClearDirty, BumpLists, RelayClaim, TailFails, ListReady, Renew,
       Publish, RecordSent, RecordUnsent, CheckConsumed, Complete, RelayFails, Release
<1>3. ASSUME NEW w \in Workers, Load(w) \/ Crash(w) PROVE Goal
  BY <1>3 DEF Load, Crash
<1>4. ASSUME NEW c \in Consumers, ConsumerStep(c) \/ Requeue(c) PROVE Goal
  BY <1>4 DEF ConsumerStep, BuildFails, Confirm, MarkDue, Requeue, Take
<1>5. ASSUME Request \/ FenceExpires \/ RelayExpires \/ RecoverOrphan \/ (\E m \in Message :
     Lose(m)) \/ (\E u \in Users : DeliveryExpires(u)) \/ UNCHANGED vars
      PROVE  Goal
  BY <1>5 DEF vars, Request, FenceExpires, RelayExpires, RecoverOrphan, Lose,
       DeliveryExpires
<1>6. ASSUME Outside PROVE Goal
  BY <1>6, OutsideFrame
<1> QED
  BY <1>1, <1>2, <1>3, <1>4, <1>5, <1>6 DEF Next, WorkerStep

LEMMA AnalysingFrame ==
  ASSUME [Next]_vars
  PROVE  UNCHANGED analysing \/ Outside
<1> DEFINE Goal == UNCHANGED analysing
<1>1. ASSUME NEW w \in Workers, FencedStep(w) PROVE Goal
  BY <1>1 DEF FencedStep, Begin, BeginRefused, Claim, ReplaceFacts, FactsFail, RefreshModel,
       PrepareTargets, ListPending, Rebuild, AdvanceTarget, StageTargets, WorkFails,
       MarkDirty, Abandon, FinishFence, FinishFails, Advance, Undo, UndoClear
<1>2. ASSUME NEW w \in Workers, TailStep(w) PROVE Goal
  BY <1>2 DEF TailStep, ClearDirty, BumpLists, RelayClaim, TailFails, ListReady, Renew,
       Publish, RecordSent, RecordUnsent, CheckConsumed, Complete, RelayFails, Release
<1>3. ASSUME NEW w \in Workers, Load(w) \/ Crash(w) PROVE Goal
  BY <1>3 DEF Load, Crash
<1>4. ASSUME NEW c \in Consumers, ConsumerStep(c) \/ Requeue(c) PROVE Goal
  BY <1>4 DEF ConsumerStep, Build, BuildFails, Confirm, MarkDue, Requeue, Take
<1>5. ASSUME Request \/ FenceExpires \/ RelayExpires \/ RecoverOrphan \/ (\E m \in Message :
     Lose(m)) \/ (\E u \in Users : DeliveryExpires(u)) \/ UNCHANGED vars
      PROVE  Goal
  BY <1>5 DEF vars, Request, FenceExpires, RelayExpires, RecoverOrphan, Lose,
       DeliveryExpires
<1> QED
  BY <1>1, <1>2, <1>3, <1>4, <1>5 DEF Next, WorkerStep

LEMMA BuiltFrame ==
  ASSUME [Next]_vars
  PROVE  \/ UNCHANGED built
         \/ \E c \in Consumers : Build(c)
         \/ \E u \in Users : OtherBuild(u)
<1> DEFINE Goal == \/ UNCHANGED built
                   \/ \E c \in Consumers : Build(c)
                   \/ \E u \in Users : OtherBuild(u)
<1>1. ASSUME NEW w \in Workers, FencedStep(w) PROVE Goal
  BY <1>1 DEF FencedStep, Begin, BeginRefused, Claim, ReplaceFacts, FactsFail, RefreshModel,
       PrepareTargets, ListPending, Rebuild, AdvanceTarget, StageTargets, WorkFails,
       MarkDirty, Abandon, FinishFence, FinishFails, Advance, Undo, UndoClear
<1>2. ASSUME NEW w \in Workers, TailStep(w) PROVE Goal
  BY <1>2 DEF TailStep, ClearDirty, BumpLists, RelayClaim, TailFails, ListReady, Renew,
       Publish, RecordSent, RecordUnsent, CheckConsumed, Complete, RelayFails, Release
<1>3. ASSUME NEW w \in Workers, Load(w) \/ Crash(w) PROVE Goal
  BY <1>3 DEF Load, Crash
<1>4. ASSUME NEW c \in Consumers, ConsumerStep(c) \/ Requeue(c) PROVE Goal
  BY <1>4 DEF ConsumerStep, BuildFails, Confirm, MarkDue, Requeue, Take
<1>5. ASSUME Request \/ FenceExpires \/ RelayExpires \/ RecoverOrphan \/ (\E m \in Message :
     Lose(m)) \/ (\E u \in Users : DeliveryExpires(u)) \/ UNCHANGED vars
      PROVE  Goal
  BY <1>5 DEF vars, Request, FenceExpires, RelayExpires, RecoverOrphan, Lose,
       DeliveryExpires
<1>6. ASSUME Outside PROVE Goal
  BY <1>6, OutsideFrame
<1> QED
  BY <1>1, <1>2, <1>3, <1>4, <1>5, <1>6 DEF Next, WorkerStep

LEMMA TargetFrame ==
  ASSUME [Next]_vars
  PROVE  \/ UNCHANGED target
         \/ \E w \in Workers : PrepareTargets(w) \/ AdvanceTarget(w) \/ StageTargets(w)
                 \/ RecordSent(w) \/ RecordUnsent(w) \/ Complete(w)
         \/ \E c \in Consumers : Confirm(c) \/ MarkDue(c)
         \/ \E u \in Users : DeliveryExpires(u)
         \/ DropRow
<1> DEFINE Goal == \/ UNCHANGED target
                   \/ \E w \in Workers : PrepareTargets(w) \/ AdvanceTarget(w)
                           \/ StageTargets(w) \/ RecordSent(w) \/ RecordUnsent(w) \/ Complete(w)
                   \/ \E c \in Consumers : Confirm(c) \/ MarkDue(c)
                   \/ \E u \in Users : DeliveryExpires(u)
                   \/ DropRow
<1>1. ASSUME NEW w \in Workers, FencedStep(w) PROVE Goal
  BY <1>1 DEF FencedStep, Begin, BeginRefused, Claim, ReplaceFacts, FactsFail, RefreshModel,
       ListPending, Rebuild, WorkFails, MarkDirty, Abandon, FinishFence, FinishFails,
       Advance, Undo, UndoClear
<1>2. ASSUME NEW w \in Workers, TailStep(w) PROVE Goal
  BY <1>2 DEF TailStep, ClearDirty, BumpLists, RelayClaim, TailFails, ListReady, Renew,
       Publish, CheckConsumed, RelayFails, Release
<1>3. ASSUME NEW w \in Workers, Load(w) \/ Crash(w) PROVE Goal
  BY <1>3 DEF Load, Crash
<1>4. ASSUME NEW c \in Consumers, ConsumerStep(c) \/ Requeue(c) PROVE Goal
  BY <1>4 DEF ConsumerStep, Build, BuildFails, Requeue, Take
<1>5. ASSUME Request \/ FenceExpires \/ RelayExpires \/ RecoverOrphan \/ (\E m \in Message :
     Lose(m)) \/ (\E u \in Users : DeliveryExpires(u)) \/ UNCHANGED vars
      PROVE  Goal
  BY <1>5 DEF vars, Request, FenceExpires, RelayExpires, RecoverOrphan, Lose
<1>6. ASSUME Outside PROVE Goal
  BY <1>6, OutsideFrame
<1> QED
  BY <1>1, <1>2, <1>3, <1>4, <1>5, <1>6 DEF Next, WorkerStep

LEMMA MessagesFrame ==
  ASSUME [Next]_vars
  PROVE  \/ UNCHANGED messages
         \/ \E w \in Workers : Publish(w) \/ Complete(w)
         \/ \E c \in Consumers : Requeue(c)
         \/ \E c \in Consumers, m \in Message : Take(c, m)
         \/ \E m \in Message : Lose(m)
         \/ UNCHANGED queue /\ DropRow
<1> DEFINE Goal == \/ UNCHANGED messages
                   \/ \E w \in Workers : Publish(w) \/ Complete(w)
                   \/ \E c \in Consumers : Requeue(c)
                   \/ \E c \in Consumers, m \in Message : Take(c, m)
                   \/ \E m \in Message : Lose(m)
                   \/ UNCHANGED queue /\ DropRow
<1>1. ASSUME NEW w \in Workers, FencedStep(w) PROVE Goal
  BY <1>1 DEF FencedStep, Begin, BeginRefused, Claim, ReplaceFacts, FactsFail, RefreshModel,
       PrepareTargets, ListPending, Rebuild, AdvanceTarget, StageTargets, WorkFails,
       MarkDirty, Abandon, FinishFence, FinishFails, Advance, Undo, UndoClear
<1>2. ASSUME NEW w \in Workers, TailStep(w) PROVE Goal
  BY <1>2 DEF TailStep, ClearDirty, BumpLists, RelayClaim, TailFails, ListReady, Renew,
       RecordSent, RecordUnsent, CheckConsumed, RelayFails, Release
<1>3. ASSUME NEW w \in Workers, Load(w) \/ Crash(w) PROVE Goal
  BY <1>3 DEF Load, Crash
<1>4. ASSUME NEW c \in Consumers, ConsumerStep(c) \/ Requeue(c) PROVE Goal
  BY <1>4 DEF ConsumerStep, Build, BuildFails, Confirm, MarkDue
<1>5. ASSUME Request \/ FenceExpires \/ RelayExpires \/ RecoverOrphan \/ (\E m \in Message :
     Lose(m)) \/ (\E u \in Users : DeliveryExpires(u)) \/ UNCHANGED vars
      PROVE  Goal
  BY <1>5 DEF vars, Request, FenceExpires, RelayExpires, RecoverOrphan, DeliveryExpires
<1>6. ASSUME Outside PROVE Goal
  BY <1>6, OutsideFrame
<1> QED
  BY <1>1, <1>2, <1>3, <1>4, <1>5, <1>6 DEF Next, WorkerStep

LEMMA ConsumerFrame ==
  ASSUME [Next]_vars
  PROVE  \/ UNCHANGED consumer
         \/ \E c \in Consumers : Build(c) \/ BuildFails(c) \/ Confirm(c) \/ MarkDue(c)
                 \/ Requeue(c)
         \/ \E c \in Consumers, m \in Message : Take(c, m)
<1> DEFINE Goal == \/ UNCHANGED consumer
                   \/ \E c \in Consumers : Build(c) \/ BuildFails(c) \/ Confirm(c)
                           \/ MarkDue(c) \/ Requeue(c)
                   \/ \E c \in Consumers, m \in Message : Take(c, m)
<1>1. ASSUME NEW w \in Workers, FencedStep(w) PROVE Goal
  BY <1>1 DEF FencedStep, Begin, BeginRefused, Claim, ReplaceFacts, FactsFail, RefreshModel,
       PrepareTargets, ListPending, Rebuild, AdvanceTarget, StageTargets, WorkFails,
       MarkDirty, Abandon, FinishFence, FinishFails, Advance, Undo, UndoClear
<1>2. ASSUME NEW w \in Workers, TailStep(w) PROVE Goal
  BY <1>2 DEF TailStep, ClearDirty, BumpLists, RelayClaim, TailFails, ListReady, Renew,
       Publish, RecordSent, RecordUnsent, CheckConsumed, Complete, RelayFails, Release
<1>3. ASSUME NEW w \in Workers, Load(w) \/ Crash(w) PROVE Goal
  BY <1>3 DEF Load, Crash
<1>4. ASSUME NEW c \in Consumers, ConsumerStep(c) \/ Requeue(c) PROVE Goal
  BY <1>4 DEF ConsumerStep
<1>5. ASSUME Request \/ FenceExpires \/ RelayExpires \/ RecoverOrphan \/ (\E m \in Message :
     Lose(m)) \/ (\E u \in Users : DeliveryExpires(u)) \/ UNCHANGED vars
      PROVE  Goal
  BY <1>5 DEF vars, Request, FenceExpires, RelayExpires, RecoverOrphan, Lose,
       DeliveryExpires
<1>6. ASSUME Outside PROVE Goal
  BY <1>6, OutsideFrame
<1> QED
  BY <1>1, <1>2, <1>3, <1>4, <1>5, <1>6 DEF Next, WorkerStep

Acts(w) == Load(w) \/ WorkerStep(w) \/ Crash(w)

LEMMA WorkerFrame ==
  ASSUME [Next]_vars
  PROVE  (\E w \in Workers : Acts(w)) \/ UNCHANGED worker
<1>1. ASSUME NEW c \in Consumers, ConsumerStep(c) \/ Requeue(c) PROVE UNCHANGED worker
  BY <1>1 DEF ConsumerStep, Build, BuildFails, Confirm, MarkDue, Requeue, Take
<1>2. ASSUME Request \/ FenceExpires \/ RelayExpires \/ RecoverOrphan \/ UNCHANGED vars
             \/ (\E m \in Message : Lose(m)) \/ (\E u \in Users : DeliveryExpires(u))
      PROVE  UNCHANGED worker
  BY <1>2 DEF vars, Request, FenceExpires, RelayExpires, RecoverOrphan, Lose,
       DeliveryExpires
<1>3. ASSUME Outside PROVE UNCHANGED worker
  BY <1>3, OutsideFrame
<1> QED
  BY <1>1, <1>2, <1>3 DEF Next, Acts

LEMMA OthersWait ==
  ASSUME TypeOK, NEW w \in Workers, Acts(w), NEW v \in Workers, v # w
  PROVE  /\ pc'[v] = pc[v] /\ mine'[v] = mine[v]
         /\ seen'[v] = seen[v] /\ at'[v] = at[v]
<1> DEFINE Waits == /\ pc'[v] = pc[v] /\ mine'[v] = mine[v]
                    /\ seen'[v] = seen[v] /\ at'[v] = at[v]
<1>1. /\ pc \in [Workers -> WorkerPC] /\ mine \in [Workers -> Row]
      /\ seen \in [Workers -> [Users -> Target]] /\ at \in [Workers -> Users \cup {Nobody}]
  BY DEF TypeOK
<1>2. ASSUME Load(w) \/ Begin(w) \/ Claim(w) \/ ReplaceFacts(w) \/ FactsFail(w) PROVE Waits
  BY <1>1, <1>2 DEF Load, Begin, Claim, ReplaceFacts, FactsFail, Goto, AdvancePhase
<1>3. ASSUME RefreshModel(w) \/ PrepareTargets(w) \/ ListPending(w) \/ Rebuild(w) \/
             AdvanceTarget(w) PROVE Waits
  BY <1>1, <1>3 DEF RefreshModel, PrepareTargets, ListPending, Rebuild, AdvanceTarget,
       ListTargets, Goto, Done, AdvancePhase
<1>4. ASSUME StageTargets(w) \/ WorkFails(w) \/ MarkDirty(w) \/ FinishFence(w) \/
             FinishFails(w) PROVE Waits
  BY <1>1, <1>4 DEF StageTargets, WorkFails, MarkDirty, FinishFence, FinishFails, Goto,
       AdvancePhase
<1>5. ASSUME ClearDirty(w) \/ BumpLists(w) \/ RelayClaim(w) \/ ListReady(w) \/ Renew(w)
             PROVE Waits
  BY <1>1, <1>5 DEF ClearDirty, BumpLists, RelayClaim, ListReady, Renew, Goto, ListTargets,
       AdvancePhase
<1>6. ASSUME Publish(w) \/ RecordSent(w) \/ RecordUnsent(w) \/ CheckConsumed(w) \/
             RelayFails(w) PROVE Waits
  BY <1>1, <1>6 DEF Publish, RecordSent, RecordUnsent, CheckConsumed, RelayFails, Goto, Done
<1>7. ASSUME BeginRefused(w) \/ Abandon(w) \/ Advance(w) \/ Undo(w) PROVE Waits
  BY <1>1, <1>7 DEF BeginRefused, Abandon, Advance, Undo, Leave, Goto, AdvancePhase
<1>8. ASSUME UndoClear(w) \/ TailFails(w) \/ Complete(w) \/ Release(w) PROVE Waits
  BY <1>1, <1>8 DEF UndoClear, TailFails, Complete, Release, Leave, Goto
<1>9. ASSUME Crash(w) PROVE Waits
  BY <1>1, <1>9 DEF Crash, Leave, Goto
<1> QED
  BY <1>2, <1>3, <1>4, <1>5, <1>6, <1>7, <1>8, <1>9 DEF Acts, WorkerStep, FencedStep,
       TailStep

LEMMA RowFrame ==
  ASSUME [Next]_vars
  PROVE  \/ UNCHANGED row
         \/ Request \/ RelayExpires \/ DropRow
         \/ \E w \in Workers : Claim(w) \/ ReplaceFacts(w) \/ RefreshModel(w)
                 \/ PrepareTargets(w) \/ StageTargets(w) \/ Advance(w) \/ ClearDirty(w)
                         \/ BumpLists(w) \/ UndoClear(w) \/ RelayClaim(w) \/ Complete(w)
                                 \/ Release(w) \/ Crash(w)
<1> DEFINE Goal == \/ UNCHANGED row
                   \/ Request \/ RelayExpires \/ DropRow
                   \/ \E w \in Workers : Claim(w) \/ ReplaceFacts(w) \/ RefreshModel(w)
                           \/ PrepareTargets(w) \/ StageTargets(w) \/ Advance(w)
                                   \/ ClearDirty(w) \/ BumpLists(w) \/ UndoClear(w)
                                           \/ RelayClaim(w) \/ Complete(w) \/ Release(w)
                                                   \/ Crash(w)
<1>1. ASSUME NEW w \in Workers, FencedStep(w) PROVE Goal
  BY <1>1 DEF FencedStep, Begin, BeginRefused, FactsFail, ListPending, Rebuild,
       AdvanceTarget, WorkFails, MarkDirty, Abandon, FinishFence, FinishFails, Undo
<1>2. ASSUME NEW w \in Workers, TailStep(w) PROVE Goal
  BY <1>2 DEF TailStep, TailFails, ListReady, Renew, Publish, RecordSent, RecordUnsent,
       CheckConsumed, RelayFails
<1>3. ASSUME NEW w \in Workers, Load(w) \/ Crash(w) PROVE Goal
  BY <1>3 DEF Load
<1>4. ASSUME NEW c \in Consumers, ConsumerStep(c) \/ Requeue(c) PROVE Goal
  BY <1>4 DEF ConsumerStep, Build, BuildFails, Confirm, MarkDue, Requeue, Take
<1>5. ASSUME Request \/ FenceExpires \/ RelayExpires \/ RecoverOrphan \/ (\E m \in Message :
     Lose(m)) \/ (\E u \in Users : DeliveryExpires(u)) \/ UNCHANGED vars
      PROVE  Goal
  BY <1>5 DEF vars, FenceExpires, RecoverOrphan, Lose, DeliveryExpires
<1>6. ASSUME Outside PROVE Goal
  BY <1>6, OutsideFrame
<1> QED
  BY <1>1, <1>2, <1>3, <1>4, <1>5, <1>6 DEF Next, WorkerStep

-----------------------------------------------------------------------------
(* Types.                                                                  *)

LEMMA TypeInit == Init => TypeInv
<1> SUFFICES ASSUME Init PROVE TypeInv
  OBVIOUS
<1>1. edits \in 0..MaxEdits /\ row \in Row /\ mine \in [Workers -> Row]
  BY EmptyTyped, OutboxConstants DEF Init, Edits, WorkerPC, Busy, Handling, RowShape, NoMessage
<1>2. target \in [Users -> Target] /\ seen \in [Workers -> [Users -> Target]]
  BY EmptyTyped, OutboxConstants DEF Init, WorkerPC, Busy, Handling, RowShape, NoMessage, Edits
<1>3. pc \in [Workers -> WorkerPC] /\ at \in [Workers -> Users \cup {Nobody}]
  BY EmptyTyped, OutboxConstants DEF Init, WorkerPC, Busy, Handling, RowShape, NoMessage, Edits
<1>4. /\ dirty \in BOOLEAN /\ stranded \in BOOLEAN /\ analysing \in BOOLEAN
      /\ excused \subseteq Users /\ closedFor \in 0..MaxEdits /\ lease \in Workers \cup {Nobody, Dead}
      /\ wanted \in [Users -> 0..MaxEdits] /\ derived \in [Users -> 0..MaxEdits]
      /\ built \in [Users -> 0..MaxEdits] /\ faults \in 0..(MaxFaults + 1)
  <2>1. 0 \in 0..MaxEdits /\ 0 \in 0..(MaxFaults + 1)
    BY OutboxConstants
  <2> QED
    BY <2>1 DEF Init
<1>5. /\ queue \in [Message -> Nat] /\ lost \subseteq Message
      /\ cpc \in [Consumers -> {"idle", "build", "confirm", "due"}]
      /\ job \in [Consumers -> Message \cup {NoMessage}]
  BY EmptyTyped, OutboxConstants DEF Init, Busy, Handling, WorkerPC, RowShape, NoMessage, Edits
<1>6. Busy
  BY EmptyTyped, OutboxConstants DEF Init, Busy, Edits, RowShape, WorkerPC, Handling, NoMessage
<1>7. Handling /\ RowShape
  BY EmptyTyped, OutboxConstants DEF Init, Handling, RowShape, Busy, Edits, WorkerPC, NoMessage
<1>8. Blank
  BY DEF Init, Blank
<1> QED
  BY <1>1, <1>2, <1>3, <1>4, <1>5, <1>6, <1>7, <1>8 DEF TypeInv, TypeOK

LEMMA MarksNext ==
  ASSUME TypeInv, [Next]_vars
  PROVE  /\ dirty' \in BOOLEAN /\ stranded' \in BOOLEAN /\ analysing' \in BOOLEAN
         /\ excused' \subseteq Users
<1>1. TypeOK
  BY DEF TypeInv
<1>2. dirty' \in BOOLEAN /\ stranded' \in BOOLEAN
  <2>1. ASSUME NEW w \in Workers, MarkDirty(w)
        PROVE  dirty' \in BOOLEAN /\ stranded' \in BOOLEAN
    BY <2>1 DEF MarkDirty
  <2>2. ASSUME NEW w \in Workers, ClearDirty(w)
        PROVE  dirty' \in BOOLEAN /\ stranded' \in BOOLEAN
    BY <2>2 DEF ClearDirty
  <2>3. CASE Analyze \/ ClearMark
    BY <2>3 DEF Analyze, ClearMark
  <2>4. CASE DropRow
    BY <1>1, <2>4 DEF TypeOK, DropRow
  <2>5. CASE UNCHANGED <<dirty, stranded>>
    BY <1>1, <2>5 DEF TypeOK
  <2> QED
    BY <2>1, <2>2, <2>3, <2>4, <2>5, DirtyFrame
<1>3. analysing' \in BOOLEAN
  <2>1. CASE Outside
    BY <1>1, <2>1 DEF TypeOK, Outside, Review, Analyze, ApplyAIAnalysisResult, DropRow,
         DropFails, ClearMark, OtherRefresh, OtherBuild
  <2>2. CASE UNCHANGED analysing
    BY <1>1, <2>2 DEF TypeOK
  <2> QED
    BY <2>1, <2>2, AnalysingFrame
<1>4. excused' \subseteq Users
  <2>1. excused \subseteq Users /\ Solvers \subseteq Users
    BY <1>1, OutboxConstants DEF TypeOK
  <2>2. ASSUME NEW w \in Workers, ReplaceFacts(w) PROVE excused' \subseteq Users
    BY <2>1, <2>2 DEF ReplaceFacts
  <2>3. ASSUME NEW c \in Consumers, Build(c) PROVE excused' \subseteq Users
    BY <2>1, <2>3 DEF Build
  <2>4. ASSUME NEW u \in Users, OtherBuild(u) PROVE excused' \subseteq Users
    BY <2>1, <2>4 DEF OtherBuild
  <2>5. CASE Review \/ Analyze \/ DropRow
    BY <2>1, <2>5 DEF Review, Analyze, ApplyAIAnalysisResult, DropRow
  <2> QED
    BY <2>1, <2>2, <2>3, <2>4, <2>5, ExcusedFrame
<1> QED
  BY <1>2, <1>3, <1>4

LEMMA BlankNext ==
  ASSUME TypeInv, [Next]_vars
  PROVE  Blank'
<1>1. TypeOK /\ Blank
  BY DEF TypeInv
<1>2. SUFFICES ASSUME row'.phase = "none" PROVE row' = NoRow
  BY DEF Blank
<1>3. CASE UNCHANGED row
  BY <1>1, <1>2, <1>3 DEF Blank
<1>4. CASE Request
  BY <1>1, <1>2, <1>4, RowRequested
<1>5. CASE RelayExpires
  <2>1. row.phase = "none"
    BY <1>1, <1>2, <1>5, LeaseEffect
  <2>2. row.relay = Nobody
    BY <1>1, <2>1 DEF Blank, NoRow
  <2> QED
    BY <1>5, <2>2 DEF RelayExpires
<1>6. ASSUME NEW w \in Workers, Release(w) \/ Crash(w) PROVE row' = NoRow
  <2>1. row.phase = "none"
    BY <1>1, <1>2, <1>6, LeaseEffect
  <2>2. row = NoRow /\ row.relay = Nobody
    BY <1>1, <2>1 DEF Blank, NoRow
  <2>3. row' = row
    BY <1>6, <2>2, OutboxConstants DEF Release, Crash, HoldsRelay
  <2> QED
    BY <2>2, <2>3
<1>7. ASSUME NEW w \in Workers, Claim(w) PROVE row' = NoRow
  <2>1. CASE pc' = [pc EXCEPT ![w] = "abandon"]
    <3>1. row' = row
      BY <1>1, <1>7, <2>1 DEF Claim, Goto, ResumesAt, TypeOK
    <3> QED
      BY <1>1, <1>2, <3>1 DEF Blank
  <2>2. CASE pc' # [pc EXCEPT ![w] = "abandon"]
    BY <1>1, <1>2, <1>7, <2>2, ClaimEffect
  <2> QED
    BY <2>1, <2>2
<1>8. ASSUME NEW w \in Workers, RelayClaim(w) PROVE row' = NoRow
  BY <1>1, <1>2, <1>8, RelayEffect
<1>9. ASSUME NEW w \in Workers, NEW p \in Fenced \cup Tails, AdvancePhase(w, p)
      PROVE  row' = NoRow
  BY <1>1, <1>2, <1>9, AdvanceEffect DEF Fenced, Tails
<1>10. ASSUME NEW w \in Workers, UndoClear(w) \/ Complete(w) PROVE row' = NoRow
  BY <1>1, <1>2, <1>10 DEF UndoClear, Complete, Blank
<1>11. ASSUME NEW w \in Workers,
              ReplaceFacts(w) \/ RefreshModel(w) \/ PrepareTargets(w) \/ StageTargets(w)
              \/ ClearDirty(w) \/ BumpLists(w)
       PROVE  row' = NoRow
  BY <1>9, <1>11 DEF Fenced, Tails, ReplaceFacts, RefreshModel, PrepareTargets, StageTargets,
     ClearDirty, BumpLists
<1>12. ASSUME NEW w \in Workers, Advance(w) PROVE row' = NoRow
  <2>1. CASE row' = row
    BY <1>1, <1>2, <2>1 DEF Blank
  <2>2. CASE AdvancePhase(w, "fence_finalized")
    BY <1>9, <2>2 DEF Tails
  <2> QED
    BY <1>12, <2>1, <2>2 DEF Advance
<1>13. CASE DropRow
  BY <1>13 DEF DropRow
<1> QED
  BY <1>3, <1>4, <1>5, <1>6, <1>7, <1>8, <1>10, <1>11, <1>12, <1>13, RowFrame

LEMMA TypeNext == TypeInv /\ [Next]_vars => TypeInv'
<1> SUFFICES ASSUME TypeInv, [Next]_vars PROVE TypeInv'
  OBVIOUS
  <1>0. /\ dirty' \in BOOLEAN /\ stranded' \in BOOLEAN /\ analysing' \in BOOLEAN
        /\ excused' \subseteq Users /\ Blank'
    BY MarksNext, BlankNext
  <1>1. ASSUME Request
        PROVE  TypeInv'
    BY <1>1, TypeInv, <1>0, OutboxConstants, RowRequested DEF Request, TypeInv, TypeOK, Busy,
         Handling, RowShape, WorkerPC, Edits
  <1>2. ASSUME NEW w \in Workers, Load(w)
        PROVE  TypeInv'
    <2>1. edits' \in 0..MaxEdits /\ row' \in Row /\ mine' \in [Workers -> Row]
      BY <1>2, TypeInv, <1>0, OutboxConstants, LoadEffect DEF Load, Goto, TypeInv, TypeOK, Edits
    <2>2. target' \in [Users -> Target] /\ seen' \in [Workers -> [Users -> Target]]
      BY <1>2, TypeInv, <1>0, OutboxConstants, LoadEffect DEF Load, Goto, TypeInv, TypeOK
    <2>3. pc' \in [Workers -> WorkerPC] /\ at' \in [Workers -> Users \cup {Nobody}]
      BY <1>2, TypeInv, <1>0, OutboxConstants, LoadEffect DEF Load, Goto, TypeInv, TypeOK,
           WorkerPC, Busy
    <2>4. /\ closedFor' \in 0..MaxEdits /\ lease' \in Workers \cup {Nobody, Dead}
          /\ wanted' \in [Users -> 0..MaxEdits] /\ derived' \in [Users -> 0..MaxEdits]
          /\ built' \in [Users -> 0..MaxEdits] /\ faults' \in 0..(MaxFaults + 1)
      BY <1>2, TypeInv, <1>0, OutboxConstants, LoadEffect DEF Load, Goto, TypeInv, TypeOK, Busy,
           Edits, Row
    <2>5. /\ queue' \in [Message -> Nat] /\ lost' \subseteq Message
          /\ cpc' \in [Consumers -> {"idle", "build", "confirm", "due"}]
          /\ job' \in [Consumers -> Message \cup {NoMessage}]
      BY <1>2, TypeInv, <1>0, OutboxConstants, LoadEffect DEF Load, Goto, TypeInv, TypeOK, Busy,
           Handling
    <2>6. Busy'
      <3>0. UNCHANGED <<edits, at>>
        BY <1>2 DEF Load
      <3>1. \A v \in Workers \ {w} : pc'[v] = pc[v] /\ mine'[v] = mine[v] /\ at'[v] = at[v]
        BY <1>2, <3>0, TypeInv, LoadEffect DEF TypeInv, TypeOK
      <3>2. /\ mine'[w].edit \in Edits /\ mine'[w].edit <= edits' /\ edits' = edits
            /\ pc'[w] \notin {"built", "renewed", "sent", "unsent"}
        BY <1>2, <3>0, TypeInv, <1>0, OutboxConstants, LoadEffect DEF TypeInv, TypeOK, Busy,
           RowShape, Edits
      <3> QED
        BY <3>1, <3>2, TypeInv DEF TypeInv, Busy
    <2>7. Handling' /\ RowShape'
      BY <1>2, TypeInv, <1>0, OutboxConstants, LoadEffect DEF Load, Goto, TypeInv, TypeOK,
           Handling, RowShape, Busy, Edits
    <2> QED
      BY <2>1, <2>2, <2>3, <2>4, <2>5, <2>6, <2>7, <1>0 DEF TypeInv, TypeOK
  <1>3. ASSUME NEW w \in Workers, Begin(w)
        PROVE  TypeInv'
    BY <1>3, TypeInv, <1>0, OutboxConstants DEF Begin, Goto, TypeInv, TypeOK, Busy, Handling,
         RowShape, WorkerPC, Edits
  <1>4. ASSUME NEW w \in Workers, BeginRefused(w)
        PROVE  TypeInv'
    BY <1>4, TypeInv, <1>0, OutboxConstants, EmptyTyped, LeaveEffect DEF BeginRefused, Goto,
         TypeInv, TypeOK, Busy, Handling, RowShape, WorkerPC, Edits
  <1>5. ASSUME NEW w \in Workers, Claim(w)
        PROVE  TypeInv'
    <2>1. edits' \in 0..MaxEdits /\ row' \in Row /\ mine' \in [Workers -> Row]
      BY <1>5, TypeInv, <1>0, OutboxConstants, ClaimEffect DEF Claim, Goto, ResumesAt,
           FaultUnless, Fault, TypeInv, TypeOK, Edits
    <2>2. target' \in [Users -> Target] /\ seen' \in [Workers -> [Users -> Target]]
      BY <1>5, TypeInv, <1>0, OutboxConstants, ClaimEffect DEF Claim, Goto, ResumesAt,
           FaultUnless, Fault, TypeInv, TypeOK
    <2>3. pc' \in [Workers -> WorkerPC] /\ at' \in [Workers -> Users \cup {Nobody}]
      BY <1>5, TypeInv, <1>0, OutboxConstants, ClaimEffect DEF Claim, Goto, ResumesAt,
           FaultUnless, Fault, TypeInv, TypeOK, WorkerPC, Busy
    <2>4. /\ closedFor' \in 0..MaxEdits /\ lease' \in Workers \cup {Nobody, Dead}
          /\ wanted' \in [Users -> 0..MaxEdits] /\ derived' \in [Users -> 0..MaxEdits]
          /\ built' \in [Users -> 0..MaxEdits] /\ faults' \in 0..(MaxFaults + 1)
      <3>1. faults' = faults \/ (faults < MaxFaults /\ faults' = faults + 1)
        BY <1>5 DEF Claim, FaultUnless, Fault
      <3> QED
        BY <1>5, <3>1, TypeInv, <1>0, OutboxConstants DEF Claim, TypeInv, TypeOK
    <2>5. /\ queue' \in [Message -> Nat] /\ lost' \subseteq Message
          /\ cpc' \in [Consumers -> {"idle", "build", "confirm", "due"}]
          /\ job' \in [Consumers -> Message \cup {NoMessage}]
      BY <1>5, TypeInv, <1>0, OutboxConstants, ClaimEffect DEF Claim, Goto, ResumesAt,
           FaultUnless, Fault, TypeInv, TypeOK, Busy, Handling
    <2>6. Busy'
      <3>1. CASE pc' = [pc EXCEPT ![w] = "abandon"]
        <4>1. pc[w] = "claim" /\ UNCHANGED <<edits, at>>
          BY <1>5 DEF Claim
        <4>2. mine' = mine
          BY <1>5, <3>1, <4>1, TypeInv DEF Claim, Goto, ResumesAt, TypeInv, TypeOK
        <4> QED
          BY <3>1, <4>1, <4>2, TypeInv DEF TypeInv, TypeOK, Busy
      <3>2. CASE pc' # [pc EXCEPT ![w] = "abandon"]
        <4>1. \A v \in Workers \ {w} : pc'[v] = pc[v] /\ mine'[v] = mine[v] /\ at'[v] = at[v]
          BY <1>5, <3>2, TypeInv, ClaimEffect DEF TypeInv, TypeOK, Claim
        <4>2. /\ mine'[w].edit \in Edits /\ mine'[w].edit <= edits' /\ edits' = edits
              /\ pc'[w] \notin {"built", "renewed", "sent", "unsent"}
          BY <1>5, <3>2, TypeInv, ClaimEffect DEF TypeInv, TypeOK, Busy, Claim, ResumesAt
        <4> QED
          BY <4>1, <4>2, TypeInv DEF TypeInv, Busy
      <3> QED
        BY <3>1, <3>2
    <2>7. Handling' /\ RowShape'
      BY <1>5, TypeInv, <1>0, OutboxConstants, ClaimEffect DEF Claim, Goto, ResumesAt,
           FaultUnless, Fault, TypeInv, TypeOK, Handling, RowShape, Busy, Edits
    <2> QED
      BY <2>1, <2>2, <2>3, <2>4, <2>5, <2>6, <2>7, <1>0 DEF TypeInv, TypeOK
  <1>6. ASSUME NEW w \in Workers, ReplaceFacts(w)
        PROVE  TypeInv'
    <2>1. edits' \in 0..MaxEdits /\ row' \in Row /\ mine' \in [Workers -> Row]
      BY <1>6, TypeInv, <1>0, OutboxConstants, AdvanceEffect DEF ReplaceFacts, Goto, Fault,
           Running, Concerned, Fenced, Tails, TypeInv, TypeOK, Edits
    <2>2. target' \in [Users -> Target] /\ seen' \in [Workers -> [Users -> Target]]
      BY <1>6, TypeInv, <1>0, OutboxConstants, AdvanceEffect DEF ReplaceFacts, Goto, Fault,
           Running, Concerned, Fenced, Tails, TypeInv, TypeOK
    <2>3. pc' \in [Workers -> WorkerPC] /\ at' \in [Workers -> Users \cup {Nobody}]
      BY <1>6, TypeInv, <1>0, OutboxConstants, AdvanceEffect DEF ReplaceFacts, Goto, Fault,
           Running, Concerned, Fenced, Tails, TypeInv, TypeOK, WorkerPC, Busy
    <2>4. /\ closedFor' \in 0..MaxEdits /\ lease' \in Workers \cup {Nobody, Dead}
          /\ wanted' \in [Users -> 0..MaxEdits] /\ derived' \in [Users -> 0..MaxEdits]
          /\ built' \in [Users -> 0..MaxEdits] /\ faults' \in 0..(MaxFaults + 1)
      BY <1>6, TypeInv, <1>0, OutboxConstants, AdvanceEffect DEF ReplaceFacts, Goto, Fault,
           Running, Concerned, Fenced, Tails, TypeInv, TypeOK, Busy, Edits, Row
    <2>5. /\ queue' \in [Message -> Nat] /\ lost' \subseteq Message
          /\ cpc' \in [Consumers -> {"idle", "build", "confirm", "due"}]
          /\ job' \in [Consumers -> Message \cup {NoMessage}]
      BY <1>6, TypeInv, <1>0, OutboxConstants, AdvanceEffect DEF ReplaceFacts, Goto, Fault,
           Running, Concerned, Fenced, Tails, TypeInv, TypeOK, Busy, Handling
    <2>6. Busy'
      BY <1>6, TypeInv, <1>0, OutboxConstants, AdvanceEffect DEF ReplaceFacts, Goto, Fault,
           Running, Concerned, Fenced, Tails, TypeInv, TypeOK, Busy, Edits, RowShape
    <2>7. Handling' /\ RowShape'
      BY <1>6, TypeInv, <1>0, OutboxConstants, AdvanceEffect DEF ReplaceFacts, Goto, Fault,
           Running, Concerned, Fenced, Tails, TypeInv, TypeOK, Handling, RowShape, Busy,
           Edits
    <2> QED
      BY <2>1, <2>2, <2>3, <2>4, <2>5, <2>6, <2>7, <1>0 DEF TypeInv, TypeOK
  <1>7. ASSUME NEW w \in Workers, FactsFail(w)
        PROVE  TypeInv'
    BY <1>7, TypeInv, <1>0, OutboxConstants DEF FactsFail, Goto, FaultUnless, Fault, Running,
         TypeInv, TypeOK, Busy, Handling, RowShape, WorkerPC, Edits
  <1>8. ASSUME NEW w \in Workers, RefreshModel(w)
        PROVE  TypeInv'
    BY <1>8, TypeInv, <1>0, OutboxConstants, AdvanceEffect DEF RefreshModel, Running, TypeInv,
         TypeOK, Busy, Handling, RowShape, WorkerPC, Edits, Fenced, Tails
  <1>9. ASSUME NEW w \in Workers, PrepareTargets(w)
        PROVE  TypeInv'
    <2>1. edits' \in 0..MaxEdits /\ row' \in Row /\ mine' \in [Workers -> Row]
      BY <1>9, TypeInv, <1>0, OutboxConstants, AdvanceEffect, PrepareEffect DEF PrepareTargets,
           Running, Fenced, Tails, TypeInv, TypeOK, Edits
    <2>2. target' \in [Users -> Target] /\ seen' \in [Workers -> [Users -> Target]]
      BY <1>9, TypeInv, <1>0, OutboxConstants, AdvanceEffect, PrepareEffect DEF PrepareTargets,
           Running, Fenced, Tails, TypeInv, TypeOK
    <2>3. pc' \in [Workers -> WorkerPC] /\ at' \in [Workers -> Users \cup {Nobody}]
      BY <1>9, TypeInv, <1>0, OutboxConstants, AdvanceEffect, PrepareEffect DEF PrepareTargets,
           Running, Fenced, Tails, TypeInv, TypeOK, WorkerPC, Busy
    <2>4. /\ closedFor' \in 0..MaxEdits /\ lease' \in Workers \cup {Nobody, Dead}
          /\ wanted' \in [Users -> 0..MaxEdits] /\ derived' \in [Users -> 0..MaxEdits]
          /\ built' \in [Users -> 0..MaxEdits] /\ faults' \in 0..(MaxFaults + 1)
      BY <1>9, TypeInv, <1>0, OutboxConstants, AdvanceEffect, PrepareEffect DEF PrepareTargets,
           Running, Fenced, Tails, TypeInv, TypeOK, Busy, Edits, Row
    <2>5. /\ queue' \in [Message -> Nat] /\ lost' \subseteq Message
          /\ cpc' \in [Consumers -> {"idle", "build", "confirm", "due"}]
          /\ job' \in [Consumers -> Message \cup {NoMessage}]
      BY <1>9, TypeInv, <1>0, OutboxConstants, AdvanceEffect, PrepareEffect DEF PrepareTargets,
           Running, Fenced, Tails, TypeInv, TypeOK, Busy, Handling
    <2>6. Busy'
      BY <1>9, TypeInv, <1>0, OutboxConstants, AdvanceEffect, PrepareEffect DEF PrepareTargets,
           Running, Fenced, Tails, TypeInv, TypeOK, Busy, Edits, RowShape
    <2>7. Handling' /\ RowShape'
      BY <1>9, TypeInv, <1>0, OutboxConstants, AdvanceEffect, PrepareEffect DEF PrepareTargets,
           Running, Fenced, Tails, TypeInv, TypeOK, Handling, RowShape, Busy, Edits
    <2> QED
      BY <2>1, <2>2, <2>3, <2>4, <2>5, <2>6, <2>7, <1>0 DEF TypeInv, TypeOK
  <1>10. ASSUME NEW w \in Workers, ListPending(w)
         PROVE  TypeInv'
    BY <1>10, TypeInv, <1>0, OutboxConstants, ListEffect DEF ListPending, Goto, Running, TypeInv,
         TypeOK, Busy, Handling, RowShape, WorkerPC, Edits
  <1>11. ASSUME NEW w \in Workers, Rebuild(w)
         PROVE  TypeInv'
    BY <1>11, TypeInv, <1>0, OutboxConstants DEF Rebuild, Goto, Todo, FirstOf, TypeInv, TypeOK,
         Busy, Handling, RowShape, WorkerPC, Edits
  <1>12. ASSUME NEW w \in Workers, AdvanceTarget(w)
         PROVE  TypeInv'
    <2>0. at[w] \in Users
      BY <1>12, TypeInv DEF TypeInv, Busy, AdvanceTarget
    <2>1. edits' \in 0..MaxEdits /\ row' \in Row /\ mine' \in [Workers -> Row]
      BY <1>12, <2>0, TypeInv, <1>0, OutboxConstants, AdvanceTargetEffect, DoneEffect DEF
           AdvanceTarget, Goto, TypeInv, TypeOK, Edits
    <2>2. target' \in [Users -> Target] /\ seen' \in [Workers -> [Users -> Target]]
      BY <1>12, <2>0, TypeInv, <1>0, OutboxConstants, AdvanceTargetEffect, DoneEffect DEF
           AdvanceTarget, Goto, TypeInv, TypeOK
    <2>3. pc' \in [Workers -> WorkerPC] /\ at' \in [Workers -> Users \cup {Nobody}]
      BY <1>12, <2>0, TypeInv, <1>0, OutboxConstants, AdvanceTargetEffect, DoneEffect DEF
           AdvanceTarget, Goto, TypeInv, TypeOK, WorkerPC, Busy
    <2>4. /\ closedFor' \in 0..MaxEdits /\ lease' \in Workers \cup {Nobody, Dead}
          /\ wanted' \in [Users -> 0..MaxEdits] /\ derived' \in [Users -> 0..MaxEdits]
          /\ built' \in [Users -> 0..MaxEdits] /\ faults' \in 0..(MaxFaults + 1)
      BY <1>12, <2>0, TypeInv, <1>0, OutboxConstants, AdvanceTargetEffect, DoneEffect DEF
           AdvanceTarget, Goto, TypeInv, TypeOK, Busy, Edits, Row
    <2>5. /\ queue' \in [Message -> Nat] /\ lost' \subseteq Message
          /\ cpc' \in [Consumers -> {"idle", "build", "confirm", "due"}]
          /\ job' \in [Consumers -> Message \cup {NoMessage}]
      BY <1>12, <2>0, TypeInv, <1>0, OutboxConstants, AdvanceTargetEffect, DoneEffect DEF
           AdvanceTarget, Goto, TypeInv, TypeOK, Busy, Handling
    <2>6. Busy'
      BY <1>12, <2>0, TypeInv, <1>0, OutboxConstants, AdvanceTargetEffect, DoneEffect DEF
           AdvanceTarget, Goto, TypeInv, TypeOK, Busy, Edits, RowShape
    <2>7. Handling' /\ RowShape'
      BY <1>12, <2>0, TypeInv, <1>0, OutboxConstants, AdvanceTargetEffect, DoneEffect DEF
           AdvanceTarget, Goto, TypeInv, TypeOK, Handling, RowShape, Busy, Edits
    <2> QED
      BY <2>1, <2>2, <2>3, <2>4, <2>5, <2>6, <2>7, <1>0 DEF TypeInv, TypeOK
  <1>13. ASSUME NEW w \in Workers, StageTargets(w)
         PROVE  TypeInv'
    <2>1. edits' \in 0..MaxEdits /\ row' \in Row /\ mine' \in [Workers -> Row]
      BY <1>13, TypeInv, <1>0, OutboxConstants, AdvanceEffect, StageEffect DEF StageTargets, Goto,
           Fenced, Tails, TypeInv, TypeOK, Edits
    <2>2. target' \in [Users -> Target] /\ seen' \in [Workers -> [Users -> Target]]
      BY <1>13, TypeInv, <1>0, OutboxConstants, AdvanceEffect, StageEffect DEF StageTargets, Goto,
           Fenced, Tails, TypeInv, TypeOK
    <2>3. pc' \in [Workers -> WorkerPC] /\ at' \in [Workers -> Users \cup {Nobody}]
      BY <1>13, TypeInv, <1>0, OutboxConstants, AdvanceEffect, StageEffect DEF StageTargets, Goto,
           Fenced, Tails, TypeInv, TypeOK, WorkerPC, Busy
    <2>4. /\ closedFor' \in 0..MaxEdits /\ lease' \in Workers \cup {Nobody, Dead}
          /\ wanted' \in [Users -> 0..MaxEdits] /\ derived' \in [Users -> 0..MaxEdits]
          /\ built' \in [Users -> 0..MaxEdits] /\ faults' \in 0..(MaxFaults + 1)
      BY <1>13, TypeInv, <1>0, OutboxConstants, AdvanceEffect, StageEffect DEF StageTargets, Goto,
           Fenced, Tails, TypeInv, TypeOK, Busy, Edits, Row
    <2>5. /\ queue' \in [Message -> Nat] /\ lost' \subseteq Message
          /\ cpc' \in [Consumers -> {"idle", "build", "confirm", "due"}]
          /\ job' \in [Consumers -> Message \cup {NoMessage}]
      BY <1>13, TypeInv, <1>0, OutboxConstants, AdvanceEffect, StageEffect DEF StageTargets, Goto,
           Fenced, Tails, TypeInv, TypeOK, Busy, Handling
    <2>6. Busy'
      <3>0. UNCHANGED <<edits, at>> /\ AdvancePhase(w, "derived_ready")
                 /\ pc' = [pc EXCEPT ![w] = "run"] /\ "derived_ready" \in Fenced
                         /\ pc[w] = "rebuild"
        BY <1>13 DEF StageTargets, Goto, Fenced
      <3>1. \A v \in Workers \ {w} : pc'[v] = pc[v] /\ mine'[v] = mine[v] /\ at'[v] = at[v]
        BY <1>13, <3>0, TypeInv, AdvanceEffect DEF TypeInv, TypeOK
      <3>2. /\ mine'[w].edit \in Edits /\ mine'[w].edit <= edits' /\ edits' = edits
            /\ pc'[w] \notin {"built", "renewed", "sent", "unsent"}
        BY <1>13, <3>0, TypeInv, <1>0, OutboxConstants, AdvanceEffect DEF TypeInv, TypeOK, Busy,
           RowShape, Edits
      <3> QED
        BY <3>1, <3>2, TypeInv DEF TypeInv, Busy
    <2>7. Handling' /\ RowShape'
      <3>1. /\ AdvancePhase(w, "derived_ready") /\ "derived_ready" \in Fenced
            /\ UNCHANGED <<edits, cpc, job>>
        BY <1>13 DEF StageTargets, Fenced
      <3> QED
        BY <3>1, TypeInv, AdvanceEffect DEF TypeInv, Handling, RowShape
    <2> QED
      BY <2>1, <2>2, <2>3, <2>4, <2>5, <2>6, <2>7, <1>0 DEF TypeInv, TypeOK
  <1>14. ASSUME NEW w \in Workers, WorkFails(w)
         PROVE  TypeInv'
    BY <1>14, TypeInv, <1>0, OutboxConstants DEF WorkFails, Goto, Behind, FaultUnless, Fault,
         TypeInv, TypeOK, Busy, Handling, RowShape, WorkerPC, Edits
  <1>15. ASSUME NEW w \in Workers, MarkDirty(w)
         PROVE  TypeInv'
    BY <1>15, TypeInv, <1>0, OutboxConstants DEF MarkDirty, Goto, TypeInv, TypeOK, Busy, Handling,
         RowShape, WorkerPC, Edits
  <1>16. ASSUME NEW w \in Workers, Abandon(w)
         PROVE  TypeInv'
    BY <1>16, TypeInv, <1>0, OutboxConstants, EmptyTyped, LeaveEffect DEF Abandon, Goto, TypeInv,
         TypeOK, Busy, Handling, RowShape, WorkerPC, Edits
  <1>17. ASSUME NEW w \in Workers, FinishFence(w)
         PROVE  TypeInv'
    BY <1>17, TypeInv, <1>0, OutboxConstants DEF FinishFence, Goto, Running, Reopen, OwnsFence,
         TypeInv, TypeOK, Busy, Handling, RowShape, WorkerPC, Edits
  <1>18. ASSUME NEW w \in Workers, FinishFails(w)
         PROVE  TypeInv'
    BY <1>18, TypeInv, <1>0, OutboxConstants DEF FinishFails, Goto, LateFault, TypeInv,
         TypeOK, Busy, Handling, RowShape, WorkerPC, Edits
  <1>19. ASSUME NEW w \in Workers, Advance(w)
         PROVE  TypeInv'
    <2>1. edits' \in 0..MaxEdits /\ row' \in Row /\ mine' \in [Workers -> Row]
      BY <1>19, TypeInv, <1>0, OutboxConstants, EmptyTyped, LeaveEffect, AdvanceEffect DEF
           Advance, Goto, Fenced, Tails, TypeInv, TypeOK, Edits
    <2>2. target' \in [Users -> Target] /\ seen' \in [Workers -> [Users -> Target]]
      BY <1>19, TypeInv, <1>0, OutboxConstants, EmptyTyped, LeaveEffect, AdvanceEffect DEF
           Advance, Goto, Fenced, Tails, TypeInv, TypeOK
    <2>3. pc' \in [Workers -> WorkerPC] /\ at' \in [Workers -> Users \cup {Nobody}]
      BY <1>19, TypeInv, <1>0, OutboxConstants, EmptyTyped, LeaveEffect, AdvanceEffect DEF
           Advance, Goto, Fenced, Tails, TypeInv, TypeOK, WorkerPC, Busy
    <2>4. /\ closedFor' \in 0..MaxEdits /\ lease' \in Workers \cup {Nobody, Dead}
          /\ wanted' \in [Users -> 0..MaxEdits] /\ derived' \in [Users -> 0..MaxEdits]
          /\ built' \in [Users -> 0..MaxEdits] /\ faults' \in 0..(MaxFaults + 1)
      BY <1>19, TypeInv, <1>0, OutboxConstants, EmptyTyped, LeaveEffect, AdvanceEffect DEF
           Advance, Goto, Fenced, Tails, TypeInv, TypeOK, Busy, Edits, Row
    <2>5. /\ queue' \in [Message -> Nat] /\ lost' \subseteq Message
          /\ cpc' \in [Consumers -> {"idle", "build", "confirm", "due"}]
          /\ job' \in [Consumers -> Message \cup {NoMessage}]
      BY <1>19, TypeInv, <1>0, OutboxConstants, EmptyTyped, LeaveEffect, AdvanceEffect DEF
           Advance, Goto, Fenced, Tails, TypeInv, TypeOK, Busy, Handling
    <2>6. Busy'
      BY <1>19, TypeInv, <1>0, OutboxConstants, EmptyTyped, LeaveEffect, AdvanceEffect DEF
           Advance, Goto, Fenced, Tails, TypeInv, TypeOK, Busy, Edits, RowShape
    <2>7. Handling' /\ RowShape'
      BY <1>19, TypeInv, <1>0, OutboxConstants, EmptyTyped, LeaveEffect, AdvanceEffect DEF
           Advance, Goto, Fenced, Tails, TypeInv, TypeOK, Handling, RowShape, Busy, Edits
    <2> QED
      BY <2>1, <2>2, <2>3, <2>4, <2>5, <2>6, <2>7, <1>0 DEF TypeInv, TypeOK
  <1>20. ASSUME NEW w \in Workers, Undo(w)
         PROVE  TypeInv'
    <2>1. edits' \in 0..MaxEdits /\ row' \in Row /\ mine' \in [Workers -> Row]
      BY <1>20, TypeInv, <1>0, OutboxConstants, EmptyTyped, LeaveEffect DEF Undo, Goto, Reopen,
           FaultUnless, Fault, TypeInv, TypeOK, Edits
    <2>2. target' \in [Users -> Target] /\ seen' \in [Workers -> [Users -> Target]]
      BY <1>20, TypeInv, <1>0, OutboxConstants, EmptyTyped, LeaveEffect DEF Undo, Goto, Reopen,
           FaultUnless, Fault, TypeInv, TypeOK
    <2>3. pc' \in [Workers -> WorkerPC] /\ at' \in [Workers -> Users \cup {Nobody}]
      BY <1>20, TypeInv, <1>0, OutboxConstants, EmptyTyped, LeaveEffect DEF Undo, Goto, Reopen,
           FaultUnless, Fault, TypeInv, TypeOK, WorkerPC, Busy
    <2>4. /\ closedFor' \in 0..MaxEdits /\ lease' \in Workers \cup {Nobody, Dead}
          /\ wanted' \in [Users -> 0..MaxEdits] /\ derived' \in [Users -> 0..MaxEdits]
          /\ built' \in [Users -> 0..MaxEdits] /\ faults' \in 0..(MaxFaults + 1)
      BY <1>20, TypeInv, <1>0, OutboxConstants, EmptyTyped, LeaveEffect DEF Undo, Goto, Reopen,
           FaultUnless, Fault, TypeInv, TypeOK, Busy, Edits, Row
    <2>5. /\ queue' \in [Message -> Nat] /\ lost' \subseteq Message
          /\ cpc' \in [Consumers -> {"idle", "build", "confirm", "due"}]
          /\ job' \in [Consumers -> Message \cup {NoMessage}]
      BY <1>20, TypeInv, <1>0, OutboxConstants, EmptyTyped, LeaveEffect DEF Undo, Goto, Reopen,
           FaultUnless, Fault, TypeInv, TypeOK, Busy, Handling
    <2>6. Busy'
      BY <1>20, TypeInv, <1>0, OutboxConstants, EmptyTyped, LeaveEffect DEF Undo, Goto, Reopen,
           FaultUnless, Fault, TypeInv, TypeOK, Busy, Edits, RowShape
    <2>7. Handling' /\ RowShape'
      BY <1>20, TypeInv, <1>0, OutboxConstants, EmptyTyped, LeaveEffect DEF Undo, Goto, Reopen,
           FaultUnless, Fault, TypeInv, TypeOK, Handling, RowShape, Busy, Edits
    <2> QED
      BY <2>1, <2>2, <2>3, <2>4, <2>5, <2>6, <2>7, <1>0 DEF TypeInv, TypeOK
  <1>21. ASSUME NEW w \in Workers, UndoClear(w)
         PROVE  TypeInv'
    BY <1>21, TypeInv, <1>0, OutboxConstants, EmptyTyped, LeaveEffect, EmptyTyped DEF UndoClear,
         Goto, TypeInv, TypeOK, Busy, Handling, RowShape, WorkerPC, Edits
  <1>22. ASSUME NEW w \in Workers, ClearDirty(w)
         PROVE  TypeInv'
    BY <1>22, TypeInv, <1>0, OutboxConstants, AdvanceEffect DEF ClearDirty, InTail, TypeInv,
         TypeOK, Busy, Handling, RowShape, WorkerPC, Edits, Fenced, Tails
  <1>23. ASSUME NEW w \in Workers, BumpLists(w)
         PROVE  TypeInv'
    BY <1>23, TypeInv, <1>0, OutboxConstants, AdvanceEffect DEF BumpLists, InTail, TypeInv,
         TypeOK, Busy, Handling, RowShape, WorkerPC, Edits, Fenced, Tails
  <1>24. ASSUME NEW w \in Workers, RelayClaim(w)
         PROVE  TypeInv'
    <2>1. edits' \in 0..MaxEdits /\ row' \in Row /\ mine' \in [Workers -> Row]
      BY <1>24, TypeInv, <1>0, OutboxConstants, RelayEffect DEF RelayClaim, Goto, TypeInv, TypeOK,
           Edits
    <2>2. target' \in [Users -> Target] /\ seen' \in [Workers -> [Users -> Target]]
      BY <1>24, TypeInv, <1>0, OutboxConstants, RelayEffect DEF RelayClaim, Goto, TypeInv, TypeOK
    <2>3. pc' \in [Workers -> WorkerPC] /\ at' \in [Workers -> Users \cup {Nobody}]
      BY <1>24, TypeInv, <1>0, OutboxConstants, RelayEffect DEF RelayClaim, Goto, TypeInv, TypeOK,
           WorkerPC, Busy
    <2>4. /\ closedFor' \in 0..MaxEdits /\ lease' \in Workers \cup {Nobody, Dead}
          /\ wanted' \in [Users -> 0..MaxEdits] /\ derived' \in [Users -> 0..MaxEdits]
          /\ built' \in [Users -> 0..MaxEdits] /\ faults' \in 0..(MaxFaults + 1)
      BY <1>24, TypeInv, <1>0, OutboxConstants, RelayEffect DEF RelayClaim, Goto, TypeInv, TypeOK,
           Busy, Edits, Row
    <2>5. /\ queue' \in [Message -> Nat] /\ lost' \subseteq Message
          /\ cpc' \in [Consumers -> {"idle", "build", "confirm", "due"}]
          /\ job' \in [Consumers -> Message \cup {NoMessage}]
      BY <1>24, TypeInv, <1>0, OutboxConstants, RelayEffect DEF RelayClaim, Goto, TypeInv, TypeOK,
           Busy, Handling
    <2>6. Busy'
      <3>0. UNCHANGED <<edits, at>>
        BY <1>24 DEF RelayClaim
      <3>1. \A v \in Workers \ {w} : pc'[v] = pc[v] /\ mine'[v] = mine[v] /\ at'[v] = at[v]
        BY <1>24, <3>0, TypeInv, RelayEffect DEF TypeInv, TypeOK
      <3>2. /\ mine'[w].edit \in Edits /\ mine'[w].edit <= edits' /\ edits' = edits
            /\ pc'[w] \notin {"built", "renewed", "sent", "unsent"}
        BY <1>24, <3>0, TypeInv, <1>0, OutboxConstants, RelayEffect DEF TypeInv, TypeOK, Busy,
           RowShape, Edits
      <3> QED
        BY <3>1, <3>2, TypeInv DEF TypeInv, Busy
    <2>7. Handling' /\ RowShape'
      BY <1>24, TypeInv, <1>0, OutboxConstants, RelayEffect DEF RelayClaim, Goto, TypeInv, TypeOK,
           Handling, RowShape, Busy, Edits
    <2> QED
      BY <2>1, <2>2, <2>3, <2>4, <2>5, <2>6, <2>7, <1>0 DEF TypeInv, TypeOK
  <1>25. ASSUME NEW w \in Workers, TailFails(w)
         PROVE  TypeInv'
    <2>1. edits' \in 0..MaxEdits /\ row' \in Row /\ mine' \in [Workers -> Row]
      BY <1>25, TypeInv, <1>0, OutboxConstants, EmptyTyped, LeaveEffect DEF TailFails, Goto,
           FaultUnless, Fault, TypeInv, TypeOK, Edits
    <2>2. target' \in [Users -> Target] /\ seen' \in [Workers -> [Users -> Target]]
      BY <1>25, TypeInv, <1>0, OutboxConstants, EmptyTyped, LeaveEffect DEF TailFails, Goto,
           FaultUnless, Fault, TypeInv, TypeOK
    <2>3. pc' \in [Workers -> WorkerPC] /\ at' \in [Workers -> Users \cup {Nobody}]
      BY <1>25, TypeInv, <1>0, OutboxConstants, EmptyTyped, LeaveEffect DEF TailFails, Goto,
           FaultUnless, Fault, TypeInv, TypeOK, WorkerPC, Busy
    <2>4. /\ closedFor' \in 0..MaxEdits /\ lease' \in Workers \cup {Nobody, Dead}
          /\ wanted' \in [Users -> 0..MaxEdits] /\ derived' \in [Users -> 0..MaxEdits]
          /\ built' \in [Users -> 0..MaxEdits] /\ faults' \in 0..(MaxFaults + 1)
      BY <1>25, TypeInv, <1>0, OutboxConstants, EmptyTyped, LeaveEffect DEF TailFails, Goto,
           FaultUnless, Fault, TypeInv, TypeOK, Busy, Edits, Row
    <2>5. /\ queue' \in [Message -> Nat] /\ lost' \subseteq Message
          /\ cpc' \in [Consumers -> {"idle", "build", "confirm", "due"}]
          /\ job' \in [Consumers -> Message \cup {NoMessage}]
      BY <1>25, TypeInv, <1>0, OutboxConstants, EmptyTyped, LeaveEffect DEF TailFails, Goto,
           FaultUnless, Fault, TypeInv, TypeOK, Busy, Handling
    <2>6. Busy'
      BY <1>25, TypeInv, <1>0, OutboxConstants, EmptyTyped, LeaveEffect DEF TailFails, Goto,
           FaultUnless, Fault, TypeInv, TypeOK, Busy, Edits, RowShape
    <2>7. Handling' /\ RowShape'
      BY <1>25, TypeInv, <1>0, OutboxConstants, EmptyTyped, LeaveEffect DEF TailFails, Goto,
           FaultUnless, Fault, TypeInv, TypeOK, Handling, RowShape, Busy, Edits
    <2> QED
      BY <2>1, <2>2, <2>3, <2>4, <2>5, <2>6, <2>7, <1>0 DEF TypeInv, TypeOK
  <1>26. ASSUME NEW w \in Workers, ListReady(w)
         PROVE  TypeInv'
    BY <1>26, TypeInv, <1>0, OutboxConstants, ListEffect DEF ListReady, Goto, TypeInv, TypeOK,
         Busy, Handling, RowShape, WorkerPC, Edits
  <1>27. ASSUME NEW w \in Workers, Renew(w)
         PROVE  TypeInv'
    BY <1>27, TypeInv, <1>0, OutboxConstants DEF Renew, Goto, Todo, FirstOf, TypeInv, TypeOK,
         Busy, Handling, RowShape, WorkerPC, Edits
  <1>28. ASSUME NEW w \in Workers, Publish(w)
         PROVE  TypeInv'
    <2>1. edits' \in 0..MaxEdits /\ row' \in Row /\ mine' \in [Workers -> Row]
      BY <1>28, TypeInv, <1>0, OutboxConstants DEF Publish, Posted, Goto, Fault, TypeInv, TypeOK,
           Edits
    <2>2. target' \in [Users -> Target] /\ seen' \in [Workers -> [Users -> Target]]
      BY <1>28, TypeInv, <1>0, OutboxConstants DEF Publish, Posted, Goto, Fault, TypeInv, TypeOK
    <2>3. pc' \in [Workers -> WorkerPC] /\ at' \in [Workers -> Users \cup {Nobody}]
      BY <1>28, TypeInv, <1>0, OutboxConstants DEF Publish, Posted, Goto, Fault, TypeInv, TypeOK,
           WorkerPC, Busy
    <2>4. /\ closedFor' \in 0..MaxEdits /\ lease' \in Workers \cup {Nobody, Dead}
          /\ wanted' \in [Users -> 0..MaxEdits] /\ derived' \in [Users -> 0..MaxEdits]
          /\ built' \in [Users -> 0..MaxEdits] /\ faults' \in 0..(MaxFaults + 1)
      BY <1>28, TypeInv, <1>0, OutboxConstants DEF Publish, Posted, Goto, Fault, TypeInv, TypeOK,
           Busy, Edits, Row
    <2>5. /\ queue' \in [Message -> Nat] /\ lost' \subseteq Message
          /\ cpc' \in [Consumers -> {"idle", "build", "confirm", "due"}]
          /\ job' \in [Consumers -> Message \cup {NoMessage}]
      <3>1. [edit |-> mine[w].edit, user |-> at[w]] \in Message
        BY <1>28, TypeInv DEF Publish, TypeInv, Busy, Message
      <3>2. queue \in [Message -> Nat]
        BY TypeInv DEF TypeInv, TypeOK
      <3>3. Posted(w) \in [Message -> Nat]
        BY <3>1, <3>2 DEF Posted
      <3>4. queue' = Posted(w) \/ queue' = queue
        BY <1>28 DEF Publish
      <3>5. lost' = lost /\ cpc' = cpc /\ job' = job
        BY <1>28 DEF Publish
      <3> QED
        BY <3>2, <3>3, <3>4, <3>5, TypeInv DEF TypeInv, TypeOK
    <2>6. Busy'
      BY <1>28, TypeInv, <1>0, OutboxConstants DEF Publish, Posted, Goto, Fault, TypeInv, TypeOK,
           Busy, Edits, RowShape
    <2>7. Handling' /\ RowShape'
      BY <1>28, TypeInv, <1>0, OutboxConstants DEF Publish, Posted, Goto, Fault, TypeInv, TypeOK,
           Handling, RowShape, Busy, Edits
    <2> QED
      BY <2>1, <2>2, <2>3, <2>4, <2>5, <2>6, <2>7, <1>0 DEF TypeInv, TypeOK
  <1>29. ASSUME NEW w \in Workers, RecordSent(w)
         PROVE  TypeInv'
    <2>0. at[w] \in Users
      BY <1>29, TypeInv DEF TypeInv, Busy, RecordSent
    <2>1. edits' \in 0..MaxEdits /\ row' \in Row /\ mine' \in [Workers -> Row]
      BY <1>29, <2>0, TypeInv, <1>0, OutboxConstants, SentEffect, DoneEffect DEF RecordSent, Goto,
           TypeInv, TypeOK, Edits
    <2>2. target' \in [Users -> Target] /\ seen' \in [Workers -> [Users -> Target]]
      BY <1>29, <2>0, TypeInv, <1>0, OutboxConstants, SentEffect, DoneEffect DEF RecordSent, Goto,
           TypeInv, TypeOK
    <2>3. pc' \in [Workers -> WorkerPC] /\ at' \in [Workers -> Users \cup {Nobody}]
      BY <1>29, <2>0, TypeInv, <1>0, OutboxConstants, SentEffect, DoneEffect DEF RecordSent, Goto,
           TypeInv, TypeOK, WorkerPC, Busy
    <2>4. /\ closedFor' \in 0..MaxEdits /\ lease' \in Workers \cup {Nobody, Dead}
          /\ wanted' \in [Users -> 0..MaxEdits] /\ derived' \in [Users -> 0..MaxEdits]
          /\ built' \in [Users -> 0..MaxEdits] /\ faults' \in 0..(MaxFaults + 1)
      BY <1>29, <2>0, TypeInv, <1>0, OutboxConstants, SentEffect, DoneEffect DEF RecordSent, Goto,
           TypeInv, TypeOK, Busy, Edits, Row
    <2>5. /\ queue' \in [Message -> Nat] /\ lost' \subseteq Message
          /\ cpc' \in [Consumers -> {"idle", "build", "confirm", "due"}]
          /\ job' \in [Consumers -> Message \cup {NoMessage}]
      BY <1>29, <2>0, TypeInv, <1>0, OutboxConstants, SentEffect, DoneEffect DEF RecordSent, Goto,
           TypeInv, TypeOK, Busy, Handling
    <2>6. Busy'
      BY <1>29, <2>0, TypeInv, <1>0, OutboxConstants, SentEffect, DoneEffect DEF RecordSent, Goto,
           TypeInv, TypeOK, Busy, Edits, RowShape
    <2>7. Handling' /\ RowShape'
      BY <1>29, <2>0, TypeInv, <1>0, OutboxConstants, SentEffect, DoneEffect DEF RecordSent, Goto,
           TypeInv, TypeOK, Handling, RowShape, Busy, Edits
    <2> QED
      BY <2>1, <2>2, <2>3, <2>4, <2>5, <2>6, <2>7, <1>0 DEF TypeInv, TypeOK
  <1>30. ASSUME NEW w \in Workers, RecordUnsent(w)
         PROVE  TypeInv'
    <2>0. at[w] \in Users
      BY <1>30, TypeInv DEF TypeInv, Busy, RecordUnsent
    <2>1. edits' \in 0..MaxEdits /\ row' \in Row /\ mine' \in [Workers -> Row]
      BY <1>30, <2>0, TypeInv, <1>0, OutboxConstants, UnsentEffect, DoneEffect DEF RecordUnsent,
           Goto, TypeInv, TypeOK, Edits
    <2>2. target' \in [Users -> Target] /\ seen' \in [Workers -> [Users -> Target]]
      BY <1>30, <2>0, TypeInv, <1>0, OutboxConstants, UnsentEffect, DoneEffect DEF RecordUnsent,
           Goto, TypeInv, TypeOK
    <2>3. pc' \in [Workers -> WorkerPC] /\ at' \in [Workers -> Users \cup {Nobody}]
      BY <1>30, <2>0, TypeInv, <1>0, OutboxConstants, UnsentEffect, DoneEffect DEF RecordUnsent,
           Goto, TypeInv, TypeOK, WorkerPC, Busy
    <2>4. /\ closedFor' \in 0..MaxEdits /\ lease' \in Workers \cup {Nobody, Dead}
          /\ wanted' \in [Users -> 0..MaxEdits] /\ derived' \in [Users -> 0..MaxEdits]
          /\ built' \in [Users -> 0..MaxEdits] /\ faults' \in 0..(MaxFaults + 1)
      BY <1>30, <2>0, TypeInv, <1>0, OutboxConstants, UnsentEffect, DoneEffect DEF RecordUnsent,
           Goto, TypeInv, TypeOK, Busy, Edits, Row
    <2>5. /\ queue' \in [Message -> Nat] /\ lost' \subseteq Message
          /\ cpc' \in [Consumers -> {"idle", "build", "confirm", "due"}]
          /\ job' \in [Consumers -> Message \cup {NoMessage}]
      BY <1>30, <2>0, TypeInv, <1>0, OutboxConstants, UnsentEffect, DoneEffect DEF RecordUnsent,
           Goto, TypeInv, TypeOK, Busy, Handling
    <2>6. Busy'
      BY <1>30, <2>0, TypeInv, <1>0, OutboxConstants, UnsentEffect, DoneEffect DEF RecordUnsent,
           Goto, TypeInv, TypeOK, Busy, Edits, RowShape
    <2>7. Handling' /\ RowShape'
      BY <1>30, <2>0, TypeInv, <1>0, OutboxConstants, UnsentEffect, DoneEffect DEF RecordUnsent,
           Goto, TypeInv, TypeOK, Handling, RowShape, Busy, Edits
    <2> QED
      BY <2>1, <2>2, <2>3, <2>4, <2>5, <2>6, <2>7, <1>0 DEF TypeInv, TypeOK
  <1>31. ASSUME NEW w \in Workers, CheckConsumed(w)
         PROVE  TypeInv'
    BY <1>31, TypeInv, <1>0, OutboxConstants DEF CheckConsumed, Goto, TypeInv, TypeOK, Busy,
         Handling, RowShape, WorkerPC, Edits
  <1>32. ASSUME NEW w \in Workers, Complete(w)
         PROVE  TypeInv'
    <2>1. edits' \in 0..MaxEdits /\ row' \in Row /\ mine' \in [Workers -> Row]
      BY <1>32, TypeInv, <1>0, OutboxConstants, EmptyTyped, LeaveEffect, EmptyTyped DEF Complete,
           Goto, TypeInv, TypeOK, Edits
    <2>2. target' \in [Users -> Target] /\ seen' \in [Workers -> [Users -> Target]]
      BY <1>32, TypeInv, <1>0, OutboxConstants, EmptyTyped, LeaveEffect, EmptyTyped DEF Complete,
           Goto, TypeInv, TypeOK
    <2>3. pc' \in [Workers -> WorkerPC] /\ at' \in [Workers -> Users \cup {Nobody}]
      BY <1>32, TypeInv, <1>0, OutboxConstants, EmptyTyped, LeaveEffect, EmptyTyped DEF Complete,
           Goto, TypeInv, TypeOK, WorkerPC, Busy
    <2>4. /\ closedFor' \in 0..MaxEdits /\ lease' \in Workers \cup {Nobody, Dead}
          /\ wanted' \in [Users -> 0..MaxEdits] /\ derived' \in [Users -> 0..MaxEdits]
          /\ built' \in [Users -> 0..MaxEdits] /\ faults' \in 0..(MaxFaults + 1)
      BY <1>32, TypeInv, <1>0, OutboxConstants, EmptyTyped, LeaveEffect, EmptyTyped DEF Complete,
           Goto, TypeInv, TypeOK, Busy, Edits, Row
    <2>5. /\ queue' \in [Message -> Nat] /\ lost' \subseteq Message
          /\ cpc' \in [Consumers -> {"idle", "build", "confirm", "due"}]
          /\ job' \in [Consumers -> Message \cup {NoMessage}]
      BY <1>32, TypeInv, <1>0, OutboxConstants, EmptyTyped, LeaveEffect, EmptyTyped DEF Complete,
           Goto, TypeInv, TypeOK, Busy, Handling
    <2>6. Busy'
      BY <1>32, TypeInv, <1>0, OutboxConstants, EmptyTyped, LeaveEffect, EmptyTyped DEF Complete,
           Goto, TypeInv, TypeOK, Busy, Edits, RowShape
    <2>7. Handling' /\ RowShape'
      BY <1>32, TypeInv, <1>0, OutboxConstants, EmptyTyped, LeaveEffect, EmptyTyped DEF Complete,
           Goto, TypeInv, TypeOK, Handling, RowShape, Busy, Edits
    <2> QED
      BY <2>1, <2>2, <2>3, <2>4, <2>5, <2>6, <2>7, <1>0 DEF TypeInv, TypeOK
  <1>33. ASSUME NEW w \in Workers, RelayFails(w)
         PROVE  TypeInv'
    BY <1>33, TypeInv, <1>0, OutboxConstants DEF RelayFails, Goto, FaultUnless, Fault, TypeInv,
         TypeOK, Busy, Handling, RowShape, WorkerPC, Edits
  <1>34. ASSUME NEW w \in Workers, Release(w)
         PROVE  TypeInv'
    BY <1>34, TypeInv, <1>0, OutboxConstants, EmptyTyped, LeaveEffect, LeaseEffect DEF Release,
         Goto, TypeInv, TypeOK, Busy, Handling, RowShape, WorkerPC, Edits
  <1>35. ASSUME NEW w \in Workers, Crash(w)
         PROVE  TypeInv'
    <2>1. edits' \in 0..MaxEdits /\ row' \in Row /\ mine' \in [Workers -> Row]
      BY <1>35, TypeInv, <1>0, OutboxConstants, EmptyTyped, LeaveEffect, LeaseEffect DEF Crash,
           Goto, Fault, TypeInv, TypeOK, Edits
    <2>2. target' \in [Users -> Target] /\ seen' \in [Workers -> [Users -> Target]]
      BY <1>35, TypeInv, <1>0, OutboxConstants, EmptyTyped, LeaveEffect, LeaseEffect DEF Crash,
           Goto, Fault, TypeInv, TypeOK
    <2>3. pc' \in [Workers -> WorkerPC] /\ at' \in [Workers -> Users \cup {Nobody}]
      BY <1>35, TypeInv, <1>0, OutboxConstants, EmptyTyped, LeaveEffect, LeaseEffect DEF Crash,
           Goto, Fault, TypeInv, TypeOK, WorkerPC, Busy
    <2>4. /\ closedFor' \in 0..MaxEdits /\ lease' \in Workers \cup {Nobody, Dead}
          /\ wanted' \in [Users -> 0..MaxEdits] /\ derived' \in [Users -> 0..MaxEdits]
          /\ built' \in [Users -> 0..MaxEdits] /\ faults' \in 0..(MaxFaults + 1)
      BY <1>35, TypeInv, <1>0, OutboxConstants, EmptyTyped, LeaveEffect, LeaseEffect DEF Crash,
           Goto, Fault, TypeInv, TypeOK, Busy, Edits, Row
    <2>5. /\ queue' \in [Message -> Nat] /\ lost' \subseteq Message
          /\ cpc' \in [Consumers -> {"idle", "build", "confirm", "due"}]
          /\ job' \in [Consumers -> Message \cup {NoMessage}]
      BY <1>35, TypeInv, <1>0, OutboxConstants, EmptyTyped, LeaveEffect, LeaseEffect DEF Crash,
           Goto, Fault, TypeInv, TypeOK, Busy, Handling
    <2>6. Busy'
      BY <1>35, TypeInv, <1>0, OutboxConstants, EmptyTyped, LeaveEffect, LeaseEffect DEF Crash,
           Goto, Fault, TypeInv, TypeOK, Busy, Edits, RowShape
    <2>7. Handling' /\ RowShape'
      BY <1>35, TypeInv, <1>0, OutboxConstants, EmptyTyped, LeaveEffect, LeaseEffect DEF Crash,
           Goto, Fault, TypeInv, TypeOK, Handling, RowShape, Busy, Edits
    <2> QED
      BY <2>1, <2>2, <2>3, <2>4, <2>5, <2>6, <2>7, <1>0 DEF TypeInv, TypeOK
  <1>36. ASSUME FenceExpires
         PROVE  TypeInv'
    BY <1>36, TypeInv, <1>0, OutboxConstants DEF FenceExpires, FaultUnless, Fault, TypeInv,
         TypeOK, Busy, Handling, RowShape, WorkerPC, Edits
  <1>37. ASSUME RelayExpires
         PROVE  TypeInv'
    BY <1>37, TypeInv, <1>0, OutboxConstants, LeaseEffect DEF RelayExpires, FaultUnless, Fault,
         TypeInv, TypeOK, Busy, Handling, RowShape, WorkerPC, Edits
  <1>38. ASSUME RecoverOrphan
         PROVE  TypeInv'
    BY <1>38, TypeInv, <1>0, OutboxConstants DEF RecoverOrphan, TypeInv, TypeOK, Busy, Handling,
         RowShape, WorkerPC, Edits
  <1>39. ASSUME NEW c \in Consumers, Build(c)
         PROVE  TypeInv'
    BY <1>39, TypeInv, <1>0, OutboxConstants DEF Build, ConsumerGoto, TypeInv, TypeOK, Busy,
         Handling, RowShape, WorkerPC, Edits
  <1>40. ASSUME NEW c \in Consumers, BuildFails(c)
         PROVE  TypeInv'
    BY <1>40, TypeInv, <1>0, OutboxConstants DEF BuildFails, ConsumerGoto, Fault, TypeInv, TypeOK,
         Busy, Handling, RowShape, WorkerPC, Edits
  <1>41. ASSUME NEW c \in Consumers, Confirm(c)
         PROVE  TypeInv'
    BY <1>41, TypeInv, <1>0, OutboxConstants, ConfirmEffect, EmptyTyped DEF Confirm, Settle,
         ConsumerGoto, TypeInv, TypeOK, Busy, Handling, RowShape, WorkerPC, Edits
  <1>42. ASSUME NEW c \in Consumers, MarkDue(c)
         PROVE  TypeInv'
    BY <1>42, TypeInv, <1>0, OutboxConstants, DueEffect, EmptyTyped DEF MarkDue, Settle,
         ConsumerGoto, TypeInv, TypeOK, Busy, Handling, RowShape, WorkerPC, Edits
  <1>43. ASSUME NEW c \in Consumers, Requeue(c)
         PROVE  TypeInv'
    BY <1>43, TypeInv, <1>0, OutboxConstants, EmptyTyped DEF Requeue, Settle, ConsumerGoto, Fault,
         TypeInv, TypeOK, Busy, Handling, RowShape, WorkerPC, Edits
  <1>44. ASSUME NEW c \in Consumers, NEW m \in Message, Take(c, m)
         PROVE  TypeInv'
    <2>1. edits' \in 0..MaxEdits /\ row' \in Row /\ mine' \in [Workers -> Row]
      BY <1>44, TypeInv, <1>0, OutboxConstants DEF Take, ConsumerGoto, Message, TypeInv, TypeOK,
           Edits
    <2>2. target' \in [Users -> Target] /\ seen' \in [Workers -> [Users -> Target]]
      BY <1>44, TypeInv, <1>0, OutboxConstants DEF Take, ConsumerGoto, Message, TypeInv, TypeOK
    <2>3. pc' \in [Workers -> WorkerPC] /\ at' \in [Workers -> Users \cup {Nobody}]
      BY <1>44, TypeInv, <1>0, OutboxConstants DEF Take, ConsumerGoto, Message, TypeInv, TypeOK,
           WorkerPC, Busy
    <2>4. /\ closedFor' \in 0..MaxEdits /\ lease' \in Workers \cup {Nobody, Dead}
          /\ wanted' \in [Users -> 0..MaxEdits] /\ derived' \in [Users -> 0..MaxEdits]
          /\ built' \in [Users -> 0..MaxEdits] /\ faults' \in 0..(MaxFaults + 1)
      BY <1>44, TypeInv, <1>0, OutboxConstants DEF Take, ConsumerGoto, Message, TypeInv, TypeOK,
           Busy, Edits, Row
    <2>5. /\ queue' \in [Message -> Nat] /\ lost' \subseteq Message
          /\ cpc' \in [Consumers -> {"idle", "build", "confirm", "due"}]
          /\ job' \in [Consumers -> Message \cup {NoMessage}]
      <3>1. PICK n \in Nat : queue[m] = n /\ n > 0
        BY <1>44, TypeInv DEF Take, TypeInv, TypeOK
      <3>2. queue' = [queue EXCEPT ![m] = n - 1] /\ n - 1 \in Nat
        BY <1>44, <3>1 DEF Take
      <3>3. lost' \subseteq Message
        BY <1>44, TypeInv DEF Take, TypeInv, TypeOK
      <3>4. /\ cpc' \in [Consumers -> {"idle", "build", "confirm", "due"}]
            /\ job' \in [Consumers -> Message \cup {NoMessage}]
        BY <1>44, TypeInv DEF Take, ConsumerGoto, TypeInv, TypeOK
      <3> QED
        BY <3>2, <3>3, <3>4, TypeInv DEF TypeInv, TypeOK
    <2>6. Busy'
      BY <1>44, TypeInv, <1>0, OutboxConstants DEF Take, ConsumerGoto, Message, TypeInv, TypeOK,
           Busy, Edits, RowShape
    <2>7. Handling' /\ RowShape'
      BY <1>44, TypeInv, <1>0, OutboxConstants DEF Take, ConsumerGoto, Message, TypeInv, TypeOK,
           Handling, RowShape, Busy, Edits
    <2> QED
      BY <2>1, <2>2, <2>3, <2>4, <2>5, <2>6, <2>7, <1>0 DEF TypeInv, TypeOK
  <1>45. ASSUME NEW m \in Message, Lose(m)
         PROVE  TypeInv'
    BY <1>45, TypeInv, <1>0, OutboxConstants DEF Lose, Fault, TypeInv, TypeOK, Busy, Handling,
         RowShape, WorkerPC, Edits
  <1>46. ASSUME NEW u \in Users, DeliveryExpires(u)
         PROVE  TypeInv'
    <2>1. edits' \in 0..MaxEdits /\ row' \in Row /\ mine' \in [Workers -> Row]
      BY <1>46, TypeInv, <1>0, OutboxConstants, ExpireEffect DEF DeliveryExpires, FaultUnless,
           Fault, TypeInv, TypeOK, Edits
    <2>2. target' \in [Users -> Target] /\ seen' \in [Workers -> [Users -> Target]]
      BY <1>46, TypeInv, <1>0, OutboxConstants, ExpireEffect DEF DeliveryExpires, FaultUnless,
           Fault, TypeInv, TypeOK
    <2>3. pc' \in [Workers -> WorkerPC] /\ at' \in [Workers -> Users \cup {Nobody}]
      BY <1>46, TypeInv, <1>0, OutboxConstants, ExpireEffect DEF DeliveryExpires, FaultUnless,
           Fault, TypeInv, TypeOK, WorkerPC, Busy
    <2>4. /\ closedFor' \in 0..MaxEdits /\ lease' \in Workers \cup {Nobody, Dead}
          /\ wanted' \in [Users -> 0..MaxEdits] /\ derived' \in [Users -> 0..MaxEdits]
          /\ built' \in [Users -> 0..MaxEdits] /\ faults' \in 0..(MaxFaults + 1)
      BY <1>46, TypeInv, <1>0, OutboxConstants, ExpireEffect DEF DeliveryExpires, FaultUnless,
           Fault, TypeInv, TypeOK, Busy, Edits, Row
    <2>5. /\ queue' \in [Message -> Nat] /\ lost' \subseteq Message
          /\ cpc' \in [Consumers -> {"idle", "build", "confirm", "due"}]
          /\ job' \in [Consumers -> Message \cup {NoMessage}]
      BY <1>46, TypeInv, <1>0, OutboxConstants, ExpireEffect DEF DeliveryExpires, FaultUnless,
           Fault, TypeInv, TypeOK, Busy, Handling
    <2>6. Busy'
      BY <1>46, TypeInv, <1>0, OutboxConstants, ExpireEffect DEF DeliveryExpires, FaultUnless,
           Fault, TypeInv, TypeOK, Busy, Edits, RowShape
    <2>7. Handling' /\ RowShape'
      BY <1>46, TypeInv, <1>0, OutboxConstants, ExpireEffect DEF DeliveryExpires, FaultUnless,
           Fault, TypeInv, TypeOK, Handling, RowShape, Busy, Edits
    <2> QED
      BY <2>1, <2>2, <2>3, <2>4, <2>5, <2>6, <2>7, <1>0 DEF TypeInv, TypeOK
  <1>47. ASSUME Outside
         PROVE  TypeInv'
    <2>1. /\ UNCHANGED <<fence, queue, worker, consumer, faults>>
          /\ UNCHANGED <<edits, wanted>> \/ Review \/ Analyze
          /\ UNCHANGED <<row, target, lost>> \/ DropRow
          /\ UNCHANGED built \/ \E u \in Users : OtherBuild(u)
          /\ UNCHANGED derived \/ \E u \in Users : OtherRefresh(u) \/ OtherBuild(u)
      BY <1>47, OutsideFrame
    <2>2. TypeOK /\ edits \in Nat /\ MaxEdits \in Nat
      BY TypeInv, OutboxConstants DEF TypeInv, TypeOK
    <2>3. /\ edits' \in 0..MaxEdits /\ edits <= edits'
          /\ wanted' \in [Users -> 0..MaxEdits]
      <3>1. CASE Review \/ Analyze
        BY <2>2, <3>1 DEF TypeOK, Review, Analyze, ApplyAIAnalysisResult, Written
      <3>2. CASE UNCHANGED <<edits, wanted>>
        BY <2>2, <3>2 DEF TypeOK
      <3> QED
        BY <2>1, <3>1, <3>2
    <2>4. /\ row' \in Row /\ target' \in [Users -> Target] /\ lost' \subseteq Message
          /\ row' = row \/ row' = NoRow
      <3>1. CASE DropRow
        BY <3>1, EmptyTyped DEF DropRow
      <3>2. CASE UNCHANGED <<row, target, lost>>
        BY <2>2, <3>2 DEF TypeOK
      <3> QED
        BY <2>1, <3>1, <3>2
    <2>5. built' \in [Users -> 0..MaxEdits] /\ derived' \in [Users -> 0..MaxEdits]
      <3>1. ASSUME NEW u \in Users, OtherBuild(u)
            PROVE  built' \in [Users -> 0..MaxEdits] /\ derived' \in [Users -> 0..MaxEdits]
        BY <2>2, <3>1 DEF TypeOK, OtherBuild
      <3>2. ASSUME NEW u \in Users, OtherRefresh(u)
            PROVE  built' \in [Users -> 0..MaxEdits] /\ derived' \in [Users -> 0..MaxEdits]
        BY <2>2, <3>2 DEF TypeOK, OtherRefresh
      <3>3. CASE UNCHANGED <<built, derived>>
        BY <2>2, <3>3 DEF TypeOK
      <3> QED
        BY <2>1, <3>1, <3>2, <3>3
    <2>6. TypeOK'
      BY <1>0, <2>1, <2>2, <2>3, <2>4, <2>5 DEF TypeOK
    <2>7. Busy'
      BY <2>1, <2>2, <2>3, TypeInv DEF TypeInv, TypeOK, Busy, Edits
    <2>8. Handling'
      BY <2>1, TypeInv DEF TypeInv, Handling
    <2>9. RowShape'
      BY <2>2, <2>3, <2>4, EmptyTyped, TypeInv DEF TypeInv, TypeOK, RowShape, Row
    <2> QED
      BY <1>0, <2>6, <2>7, <2>8, <2>9 DEF TypeInv
<1>99. CASE UNCHANGED vars
  BY <1>99, <1>0, TypeInv DEF vars, TypeInv, TypeOK, Busy, Handling, RowShape, WorkerPC, Edits
<1> QED
  BY <1>1, <1>2, <1>3, <1>4, <1>5, <1>6, <1>7, <1>8, <1>9, <1>10, <1>11, <1>12, <1>13,
       <1>14, <1>15, <1>16, <1>17, <1>18, <1>19, <1>20, <1>21, <1>22, <1>23, <1>24, <1>25,
       <1>26, <1>27, <1>28, <1>29, <1>30, <1>31, <1>32, <1>33, <1>34, <1>35, <1>36, <1>37,
       <1>38, <1>39, <1>40, <1>41, <1>42, <1>43, <1>44, <1>45, <1>46, <1>47, <1>99 DEF Next,
       WorkerStep, FencedStep, TailStep, ConsumerStep

-----------------------------------------------------------------------------
(* The row and the steps of the actions.                                   *)

\* The four ways in which a step treats the row.
SameRow == row'.edit = row.edit /\ row'.phase = row.phase /\ row'.rev = row.rev
           /\ row'.hard = row.hard /\ row'.owner = row.owner
NextRow == row'.edit = row.edit /\ row'.rev = row.rev + 1 /\ row'.hard = row.hard
           /\ row.phase # "none" /\ row'.phase # "none"
NewRow  == row.phase = "none" /\ row'.edit = edits + 1 /\ row'.phase = "intent" /\ Request
LostRow == row.phase # "none" /\ row'.edit = 0 /\ row'.phase = "none"

LEMMA RowMoves ==
  ASSUME TypeInv, [Next]_vars
  PROVE  SameRow \/ NextRow \/ NewRow \/ LostRow
<1>1. TypeOK
  BY DEF TypeInv
<1>2. CASE UNCHANGED row
  BY <1>2 DEF SameRow
<1>3. CASE Request
  BY <1>1, <1>3, RowRequested DEF NewRow
<1>4. CASE RelayExpires \/ \E w \in Workers : Release(w) \/ Crash(w)
  BY <1>1, <1>4, LeaseEffect DEF SameRow
<1>5. ASSUME NEW w \in Workers, Claim(w) PROVE SameRow \/ NextRow
  <2>1. CASE pc' = [pc EXCEPT ![w] = "abandon"]
    <3>1. row' = row
      BY <1>1, <1>5, <2>1 DEF Claim, Goto, ResumesAt, TypeOK
    <3> QED
      BY <3>1 DEF SameRow
  <2>2. CASE pc' # [pc EXCEPT ![w] = "abandon"]
    BY <1>1, <1>5, <2>2, ClaimEffect DEF NextRow
  <2> QED
    BY <2>1, <2>2
<1>6. ASSUME NEW w \in Workers, RelayClaim(w) PROVE NextRow
  BY <1>1, <1>6, RelayEffect DEF NextRow
<1>7. ASSUME NEW w \in Workers, NEW p \in Fenced \cup Tails, AdvancePhase(w, p) PROVE NextRow
  BY <1>1, <1>7, AdvanceEffect DEF NextRow, Fenced, Tails
<1>8. ASSUME NEW w \in Workers, UndoClear(w) \/ Complete(w) PROVE SameRow \/ LostRow
  BY <1>8, EmptyTyped DEF UndoClear, Complete, SameRow, LostRow, Matches, RevisionMatches,
     Present
<1>9. ASSUME NEW w \in Workers,
             ReplaceFacts(w) \/ RefreshModel(w) \/ PrepareTargets(w) \/ StageTargets(w)
             \/ ClearDirty(w) \/ BumpLists(w)
      PROVE  NextRow
  BY <1>7, <1>9 DEF Fenced, Tails, ReplaceFacts, RefreshModel, PrepareTargets, StageTargets,
     ClearDirty, BumpLists
<1>10. ASSUME NEW w \in Workers, Advance(w) PROVE SameRow \/ NextRow
  <2>1. CASE row' = row
    BY <2>1 DEF SameRow
  <2>2. CASE AdvancePhase(w, "fence_finalized")
    BY <1>7, <2>2 DEF Tails
  <2> QED
    BY <1>10, <2>1, <2>2 DEF Advance
<1>11. CASE DropRow
  <2>1. row' = NoRow
    BY <1>11 DEF DropRow
  <2>2. CASE row.phase = "none"
    BY <2>1, <2>2 DEF TypeInv, Blank, SameRow
  <2>3. CASE row.phase # "none"
    BY <2>1, <2>3, EmptyTyped DEF LostRow
  <2> QED
    BY <2>2, <2>3
<1> QED
  BY <1>2, <1>3, <1>4, <1>5, <1>6, <1>8, <1>9, <1>10, <1>11, RowFrame

-----------------------------------------------------------------------------
(* Copies, stages and phases.                                              *)

LEMMA CopyKept ==
  ASSUME TypeInv, Copies, [Next]_vars, NEW v \in Workers, pc[v] # "idle", mine'[v] = mine[v]
  PROVE  Copy(v)'
<1>1. /\ mine[v].edit \in Nat /\ mine[v].edit <= edits /\ mine[v].edit # 0
      /\ mine[v].rev \in Nat /\ row.rev \in Nat /\ edits \in Nat
  BY OutboxConstants DEF TypeInv, TypeOK, Busy, Edits, Row
<1> QED
  BY <1>1, RowMoves DEF Copies, Copy, SameRow, NextRow, NewRow, LostRow

LEMMA CopiesNext ==
  ASSUME TypeInv, Copies, [Next]_vars
  PROVE  Copies'
<1>1. TypeOK /\ row.rev \in Nat /\ \A w \in Workers : mine[w].rev \in Nat
  BY DEF TypeInv, TypeOK, Row
<1>2. ASSUME UNCHANGED worker PROVE Copies'
  BY <1>2, CopyKept, RowMoves DEF Copies, Copy
<1>3. ASSUME NEW w \in Workers, Acts(w) PROVE Copies'
  <2>1. ASSUME NEW v \in Workers, v # w PROVE Copy(v)'
    <3>1. pc'[v] = pc[v] /\ mine'[v] = mine[v]
      BY <1>1, <1>3, <2>1, OthersWait
    <3> QED
      BY <3>1, CopyKept DEF Copy
  <2>2. CASE Load(w)
    <3>1. row' = row
      BY <2>2 DEF Load
    <3> QED
      BY <1>1, <2>1, <2>2, <3>1, LoadEffect DEF Copies, Copy
  <2>3. CASE Begin(w) \/ FactsFail(w) \/ ListPending(w) \/ Rebuild(w) \/ AdvanceTarget(w) \/
             WorkFails(w)
    <3>1. pc[w] # "idle" /\ mine' = mine
      BY <2>3 DEF Begin, FactsFail, ListPending, Rebuild, AdvanceTarget, WorkFails, Running,
           Behind
    <3> QED
      BY <2>1, <3>1, CopyKept DEF Copies
  <2>4. CASE MarkDirty(w) \/ FinishFence(w) \/ FinishFails(w) \/ ListReady(w) \/ Renew(w) \/
             Publish(w)
    <3>1. pc[w] # "idle" /\ mine' = mine
      BY <2>4 DEF MarkDirty, FinishFence, FinishFails, ListReady, Renew, Publish, Running
    <3> QED
      BY <2>1, <3>1, CopyKept DEF Copies
  <2>5. CASE RecordSent(w) \/ RecordUnsent(w) \/ CheckConsumed(w) \/ RelayFails(w)
    <3>1. pc[w] # "idle" /\ mine' = mine
      BY <2>5 DEF RecordSent, RecordUnsent, CheckConsumed, RelayFails
    <3> QED
      BY <2>1, <3>1, CopyKept DEF Copies
  <2>6. ASSUME Leave(w) PROVE Copies'
    BY <1>1, <2>1, <2>6, LeaveEffect DEF Copies, Copy
  <2>7. ASSUME NEW p \in Fenced \cup Tails, AdvancePhase(w, p), pc[w] # "idle" PROVE Copies'
    <3>1. /\ mine'[w].rev = row'.rev /\ mine'[w].phase = row'.phase /\ row.rev = mine[w].rev
          /\ row'.edit = row.edit /\ mine'[w].edit = mine[w].edit /\ row.edit = mine[w].edit
          /\ mine'[w].hard = mine[w].hard /\ row'.hard = row.hard /\ row'.rev = row.rev + 1
      BY <1>1, <2>7, AdvanceEffect
    <3>2. Copy(w)'
      BY <1>1, <2>7, <3>1 DEF Copies, Copy
    <3> QED
      BY <2>1, <3>2 DEF Copies
  <2>8. CASE Claim(w)
    <3>1. CASE pc' = [pc EXCEPT ![w] = "abandon"]
      <4>1. mine' = mine /\ pc[w] # "idle"
        BY <1>1, <2>8, <3>1 DEF Claim, Goto, ResumesAt, TypeOK
      <4> QED
        BY <2>1, <4>1, CopyKept DEF Copies
    <3>2. CASE pc' # [pc EXCEPT ![w] = "abandon"]
      <4>1. pc[w] # "idle"
        BY <2>8 DEF Claim
      <4>2. Copy(w)'
        BY <1>1, <2>8, <3>2, <4>1, ClaimEffect DEF Copies, Copy
      <4> QED
        BY <2>1, <4>2 DEF Copies
    <3> QED
      BY <3>1, <3>2
  <2>9. CASE RelayClaim(w)
    <3>1. Copy(w)'
      BY <1>1, <2>9, RelayEffect DEF Copies, Copy
    <3> QED
      BY <2>1, <3>1 DEF Copies
  <2>10. CASE ReplaceFacts(w) \/ RefreshModel(w) \/ PrepareTargets(w)
    <3>1. pc[w] # "idle" /\ \E p \in Fenced \cup Tails : AdvancePhase(w, p)
      BY <2>10 DEF ReplaceFacts, RefreshModel, PrepareTargets, Running, Fenced, Tails
    <3> QED
      BY <2>7, <3>1
  <2>11. CASE StageTargets(w) \/ ClearDirty(w) \/ BumpLists(w)
    <3>1. pc[w] # "idle" /\ \E p \in Fenced \cup Tails : AdvancePhase(w, p)
      BY <2>11 DEF StageTargets, ClearDirty, BumpLists, InTail, Fenced, Tails
    <3> QED
      BY <2>7, <3>1
  <2>12. CASE Advance(w)
    <3>1. pc[w] # "idle" /\ (AdvancePhase(w, "fence_finalized") \/ Leave(w))
      BY <2>12 DEF Advance
    <3> QED
      BY <2>6, <2>7, <3>1 DEF Tails
  <2>13. CASE BeginRefused(w) \/ Abandon(w) \/ UndoClear(w) \/ TailFails(w) \/ Complete(w)
             \/ Release(w) \/ Crash(w)
    BY <2>6, <2>13 DEF BeginRefused, Abandon, UndoClear, TailFails, Complete, Release, Crash
  <2>14. CASE Undo(w)
    <3>1. (pc[w] # "idle" /\ mine' = mine) \/ Leave(w)
      BY <2>14 DEF Undo
    <3> QED
      BY <2>1, <2>6, <3>1, CopyKept DEF Copies
  <2> QED
    BY <1>3, <2>2, <2>3, <2>4, <2>5, <2>8, <2>9, <2>10, <2>11, <2>12, <2>13, <2>14 DEF Acts,
         WorkerStep, FencedStep, TailStep
<1> QED
  BY <1>2, <1>3, WorkerFrame

LEMMA StagesNext ==
  ASSUME TypeInv, Copies, Stages, [Next]_vars
  PROVE  Stages'
<1> USE DEF Stage, Committed, Fenced, Tails, Relaying
<1>1. TypeOK /\ pc \in [Workers -> WorkerPC]
  BY DEF TypeInv, TypeOK
<1>2. ASSUME UNCHANGED worker PROVE Stages'
  BY <1>2 DEF Stages
<1>3. ASSUME NEW w \in Workers, Acts(w) PROVE Stages'
  <2>1. SUFFICES Stage(w)'
    BY <1>1, <1>3, OthersWait DEF Stages
  <2>2. Stage(w) /\ Copy(w)
    BY DEF Stages, Copies
  <2>3. ASSUME Leave(w) PROVE Stage(w)'
    BY <1>1, <2>3, LeaveEffect
  <2>4. CASE Load(w)
    BY <1>1, <2>4, LoadEffect DEF TypeOK, Row
  <2>5. CASE Claim(w)
    <3>1. pc[w] = "claim"
      BY <2>5 DEF Claim
    <3>2. CASE pc' = [pc EXCEPT ![w] = "abandon"]
      BY <1>1, <3>2
    <3>3. CASE pc' # [pc EXCEPT ![w] = "abandon"]
      <4>1. /\ mine'[w].phase = row.phase /\ mine[w].phase = row.phase
            /\ pc'[w] = ResumesAt(row.phase)
        BY <1>1, <2>2, <2>5, <3>1, <3>3, ClaimEffect DEF Copy
      <4> QED
        BY <2>2, <3>1, <4>1 DEF ResumesAt
    <3> QED
      BY <3>2, <3>3
  <2>6. CASE RelayClaim(w)
    BY <1>1, <2>6, RelayEffect
  <2>7. CASE ReplaceFacts(w)
    <3>1. AdvancePhase(w, "facts")
      BY <2>7 DEF ReplaceFacts
    <3>2. mine'[w].phase = "facts"
      BY <1>1, <3>1, AdvanceEffect
    <3> QED
      BY <1>1, <2>7, <3>2 DEF ReplaceFacts, Running, Goto
  <2>8. CASE RefreshModel(w)
    <3>1. AdvancePhase(w, "model_ready")
      BY <2>8 DEF RefreshModel
    <3>2. mine'[w].phase = "model_ready"
      BY <1>1, <3>1, AdvanceEffect
    <3> QED
      BY <1>1, <2>8, <3>2 DEF RefreshModel, Running
  <2>9. CASE PrepareTargets(w)
    <3>1. AdvancePhase(w, "targets_ready")
      BY <2>9 DEF PrepareTargets
    <3>2. mine'[w].phase = "targets_ready"
      BY <1>1, <3>1, AdvanceEffect
    <3> QED
      BY <1>1, <2>9, <3>2 DEF PrepareTargets, Running
  <2>10. CASE StageTargets(w)
    <3>1. AdvancePhase(w, "derived_ready")
      BY <2>10 DEF StageTargets
    <3>2. mine'[w].phase = "derived_ready"
      BY <1>1, <3>1, AdvanceEffect
    <3> QED
      BY <1>1, <2>10, <3>2 DEF StageTargets, Goto
  <2>11. CASE Advance(w)
    <3>1. CASE Leave(w)
      BY <2>3, <3>1
    <3>2. CASE AdvancePhase(w, "fence_finalized") /\ Goto(w, "tail")
      BY <1>1, <3>2, AdvanceEffect DEF Goto
    <3> QED
      BY <2>11, <3>1, <3>2 DEF Advance
  <2>12. CASE ClearDirty(w)
    <3>1. AdvancePhase(w, "dirty_cleared")
      BY <2>12 DEF ClearDirty
    <3>2. mine'[w].phase = "dirty_cleared"
      BY <1>1, <3>1, AdvanceEffect
    <3> QED
      BY <1>1, <2>12, <3>2 DEF ClearDirty, InTail
  <2>13. CASE BumpLists(w)
    <3>1. AdvancePhase(w, "cache_tail_done")
      BY <2>13 DEF BumpLists
    <3>2. mine'[w].phase = "cache_tail_done"
      BY <1>1, <3>1, AdvanceEffect
    <3> QED
      BY <1>1, <2>13, <3>2 DEF BumpLists, InTail
  <2>14. CASE Begin(w) \/ FactsFail(w) \/ ListPending(w) \/ Rebuild(w)
    BY <1>1, <2>2, <2>14 DEF Begin, FactsFail, ListPending, Rebuild, Goto, Running
  <2>15. CASE AdvanceTarget(w) \/ WorkFails(w) \/ MarkDirty(w) \/ FinishFence(w)
    BY <1>1, <2>2, <2>15 DEF AdvanceTarget, WorkFails, MarkDirty, FinishFence, Goto, Behind,
         Running
  <2>16. CASE FinishFails(w) \/ ListReady(w) \/ Renew(w) \/ Publish(w)
    BY <1>1, <2>2, <2>16 DEF FinishFails, ListReady, Renew, Publish, Goto
  <2>17. CASE RecordSent(w) \/ RecordUnsent(w) \/ CheckConsumed(w) \/ RelayFails(w)
    BY <1>1, <2>2, <2>17 DEF RecordSent, RecordUnsent, CheckConsumed, RelayFails, Goto
  <2>18. CASE BeginRefused(w) \/ Abandon(w) \/ UndoClear(w) \/ TailFails(w) \/ Complete(w)
             \/ Release(w) \/ Crash(w)
    BY <2>3, <2>18 DEF BeginRefused, Abandon, UndoClear, TailFails, Complete, Release, Crash
  <2>19. CASE Undo(w)
    <3>1. CASE Leave(w)
      BY <2>3, <3>1
    <3>2. CASE Goto(w, "undoClear") /\ mine' = mine /\ pc[w] = "undo"
      BY <1>1, <2>2, <3>2 DEF Goto
    <3> QED
      BY <2>19, <3>1, <3>2 DEF Undo
  <2> QED
    BY <1>3, <2>4, <2>5, <2>6, <2>7, <2>8, <2>9, <2>10, <2>11, <2>12, <2>13, <2>14, <2>15,
         <2>16, <2>17, <2>18, <2>19 DEF Acts, WorkerStep, FencedStep, TailStep
<1> QED
  BY <1>2, <1>3, WorkerFrame

\* A worker whose copy matches the row knows its phase.
LEMMA MatchPhase ==
  ASSUME Copies, NEW w \in Workers, pc[w] # "idle", Matches(w)
  PROVE  /\ row.phase = mine[w].phase /\ row.hard = mine[w].hard /\ row.edit = mine[w].edit
         /\ row.phase # "none"
BY DEF Copies, Copy, Matches, RevisionMatches, Present

SamePhase == row'.phase = row.phase /\ row'.edit = row.edit /\ row'.hard = row.hard
NextPhase(p, q) == row.phase = p /\ row'.phase = q /\ row'.edit = row.edit
     /\ row'.hard = row.hard

\* The steps that move the phase, and from where.
LEMMA PhaseMoves ==
  ASSUME TypeInv, Copies, Stages, [Next]_vars
  PROVE  \/ SamePhase
         \/ NewRow /\ UNCHANGED <<target, dirty, facts, messages, consumer>>
         \/ /\ LostRow /\ row.phase = "intent"
            /\ UNCHANGED <<target, dirty, facts, messages, consumer>>
         \/ LostRow /\ row.phase = "cache_tail_done" /\ \E w \in Workers : Complete(w)
         \/ LostRow /\ DropRow
         \/ \E w \in Workers : ReplaceFacts(w) /\ NextPhase("intent", "facts")
         \/ \E w \in Workers : RefreshModel(w) /\ NextPhase("facts", "model_ready")
         \/ \E w \in Workers : PrepareTargets(w) /\ ( \/ NextPhase("facts", "targets_ready")
                                                       \/ NextPhase("model_ready", "targets_ready"))
         \/ \E w \in Workers : StageTargets(w) /\ NextPhase("targets_ready", "derived_ready")
         \/ \E w \in Workers : Advance(w) /\ NextPhase("derived_ready", "fence_finalized")
         \/ \E w \in Workers : ClearDirty(w) /\ NextPhase("fence_finalized", "dirty_cleared")
         \/ \E w \in Workers : BumpLists(w) /\ NextPhase("dirty_cleared", "cache_tail_done")
<1> DEFINE Goal == 
         \/ SamePhase
         \/ NewRow /\ UNCHANGED <<target, dirty, facts, messages, consumer>>
         \/ /\ LostRow /\ row.phase = "intent"
            /\ UNCHANGED <<target, dirty, facts, messages, consumer>>
         \/ LostRow /\ row.phase = "cache_tail_done" /\ \E w \in Workers : Complete(w)
         \/ LostRow /\ DropRow
         \/ \E w \in Workers : ReplaceFacts(w) /\ NextPhase("intent", "facts")
         \/ \E w \in Workers : RefreshModel(w) /\ NextPhase("facts", "model_ready")
         \/ \E w \in Workers : PrepareTargets(w) /\ ( \/ NextPhase("facts", "targets_ready")
                                                       \/ NextPhase("model_ready", "targets_ready"))
         \/ \E w \in Workers : StageTargets(w) /\ NextPhase("targets_ready", "derived_ready")
         \/ \E w \in Workers : Advance(w) /\ NextPhase("derived_ready", "fence_finalized")
         \/ \E w \in Workers : ClearDirty(w) /\ NextPhase("fence_finalized", "dirty_cleared")
         \/ \E w \in Workers : BumpLists(w) /\ NextPhase("dirty_cleared", "cache_tail_done")
<1>1. TypeOK
  BY DEF TypeInv
<1>2. CASE UNCHANGED row
  BY <1>2 DEF SamePhase
<1>3. CASE Request
  BY <1>1, <1>3, RowRequested DEF NewRow, Request
<1>4. CASE RelayExpires \/ \E w \in Workers : Release(w) \/ Crash(w)
  BY <1>1, <1>4, LeaseEffect DEF SamePhase
<1>5. ASSUME NEW w \in Workers, Claim(w) PROVE SamePhase
  <2>1. CASE pc' = [pc EXCEPT ![w] = "abandon"]
    BY <1>1, <1>5, <2>1 DEF Claim, Goto, ResumesAt, TypeOK, SamePhase
  <2>2. CASE pc' # [pc EXCEPT ![w] = "abandon"]
    BY <1>1, <1>5, <2>2, ClaimEffect DEF SamePhase
  <2> QED
    BY <2>1, <2>2
<1>6. ASSUME NEW w \in Workers, RelayClaim(w) PROVE SamePhase
  BY <1>1, <1>6, RelayEffect DEF SamePhase
<1>7. ASSUME NEW w \in Workers, NEW p \in Fenced \cup Tails, AdvancePhase(w, p), pc[w] # "idle"
      PROVE  NextPhase(mine[w].phase, p)
  <2>1. Matches(w)
    BY <1>7 DEF AdvancePhase
  <2> QED
    BY <1>1, <1>7, <2>1, MatchPhase, AdvanceEffect DEF NextPhase
<1>8. ASSUME NEW w \in Workers, UndoClear(w) PROVE Goal
  <2>1. CASE ~Matches(w)
    BY <1>8, <2>1 DEF UndoClear, SamePhase
  <2>2. CASE Matches(w)
    <3>1. pc[w] = "undoClear" /\ mine[w].phase = "intent" /\ row.phase = "intent"
      BY <1>8, <2>2, MatchPhase DEF UndoClear, Stages, Stage
    <3> QED
      BY <1>8, <2>2, <3>1, EmptyTyped DEF UndoClear, LostRow
  <2> QED
    BY <2>1, <2>2
<1>9. ASSUME NEW w \in Workers, Complete(w) PROVE Goal
  <2>1. pc[w] = "complete" /\ mine[w].phase = "cache_tail_done" /\ row.phase = "cache_tail_done"
    BY <1>9, MatchPhase DEF Complete, Stages, Stage, Relaying
  <2> QED
    BY <1>9, <2>1, EmptyTyped DEF Complete, LostRow
<1>10. ASSUME NEW w \in Workers, ReplaceFacts(w) PROVE Goal
  BY <1>7, <1>10 DEF ReplaceFacts, Running, Fenced
<1>11. ASSUME NEW w \in Workers, RefreshModel(w) PROVE Goal
  BY <1>7, <1>11 DEF RefreshModel, Running, Fenced
<1>12. ASSUME NEW w \in Workers, PrepareTargets(w) PROVE Goal
  BY <1>7, <1>12 DEF PrepareTargets, Running, Fenced
<1>13. ASSUME NEW w \in Workers, StageTargets(w) PROVE Goal
  <2>1. pc[w] = "rebuild" /\ mine[w].phase = "targets_ready"
    BY <1>13 DEF StageTargets, Stages, Stage
  <2> QED
    BY <1>7, <1>13, <2>1 DEF StageTargets, Fenced
<1>14. ASSUME NEW w \in Workers, Advance(w) PROVE Goal
  <2>1. pc[w] = "advance" /\ mine[w].phase = "derived_ready"
    BY <1>14 DEF Advance, Stages, Stage
  <2>2. CASE row' = row
    BY <2>2 DEF SamePhase
  <2>3. CASE AdvancePhase(w, "fence_finalized")
    BY <1>7, <1>14, <2>1, <2>3 DEF Tails
  <2> QED
    BY <1>14, <2>2, <2>3 DEF Advance
<1>15. ASSUME NEW w \in Workers, ClearDirty(w) PROVE Goal
  BY <1>7, <1>15 DEF ClearDirty, InTail, Tails
<1>16. ASSUME NEW w \in Workers, BumpLists(w) PROVE Goal
  BY <1>7, <1>16 DEF BumpLists, InTail, Tails
<1>17. CASE DropRow
  <2>1. row' = NoRow
    BY <1>17 DEF DropRow
  <2>2. CASE row.phase = "none"
    BY <2>1, <2>2 DEF TypeInv, Blank, SamePhase
  <2>3. CASE row.phase # "none"
    BY <1>17, <2>1, <2>3, EmptyTyped DEF LostRow
  <2> QED
    BY <2>2, <2>3
<1> QED
  BY <1>2, <1>3, <1>4, <1>5, <1>6, <1>8, <1>9, <1>10, <1>11, <1>12, <1>13, <1>14, <1>15, <1>16,
     <1>17, RowFrame

LEMMA DirtyNext ==
  ASSUME TypeInv, Copies, Stages, DirtyIsOwed, [Next]_vars
  PROVE  DirtyIsOwed'
<1>1. ASSUME NEW w \in Workers, MarkDirty(w) PROVE DirtyIsOwed'
  <2>1. CASE ~Matches(w)
    <3>1. dirty' => dirty
      BY <1>1, <2>1 DEF MarkDirty
    <3>2. stranded => stranded'
      BY <1>1, <2>1 DEF MarkDirty
    <3>3. row' = row
      BY <1>1 DEF MarkDirty
    <3> QED
      BY <3>1, <3>2, <3>3 DEF DirtyIsOwed
  <2>2. CASE Matches(w)
    <3>1. pc[w] = "failed" /\ row' = row /\ mine[w].phase \in Committed
      BY <1>1 DEF MarkDirty, Stages, Stage
    <3> QED
      BY <2>2, <3>1, MatchPhase DEF DirtyIsOwed, Committed
  <2> QED
    BY <2>1, <2>2
<1>2. ASSUME NEW w \in Workers, ClearDirty(w) PROVE DirtyIsOwed'
  BY <1>2 DEF ClearDirty, DirtyIsOwed
<1>3. CASE DropRow
  <2>1. dirty' => stranded'
    BY <1>3 DEF DropRow
  <2> QED
    BY <2>1 DEF DirtyIsOwed
<1>4. CASE Analyze \/ ClearMark
  BY <1>4 DEF Analyze, ClearMark, DirtyIsOwed
<1>5. CASE UNCHANGED <<dirty, stranded>> /\ ~DropRow
  BY <1>5, PhaseMoves DEF DirtyIsOwed, SamePhase, NewRow, NextPhase, Fenced, ClearDirty
<1> QED
  BY <1>1, <1>2, <1>3, <1>4, <1>5, DirtyFrame

\* How the copy of a worker relates to the row after a step.
LEMMA MineMoves ==
  ASSUME TypeInv, Copies, [Next]_vars, NEW v \in Workers
  PROVE  \/ pc'[v] = "idle"
         \/ /\ pc[v] # "idle" /\ mine'[v].phase = mine[v].phase /\ mine'[v].edit = mine[v].edit
            /\ mine'[v].rev = mine[v].rev \/ NextRow
         \/ mine'[v].phase = row'.phase /\ mine'[v].edit = row'.edit
<1> DEFINE Goal ==
         \/ pc'[v] = "idle"
         \/ /\ pc[v] # "idle" /\ mine'[v].phase = mine[v].phase /\ mine'[v].edit = mine[v].edit
            /\ mine'[v].rev = mine[v].rev \/ NextRow
         \/ mine'[v].phase = row'.phase /\ mine'[v].edit = row'.edit
<1>1. TypeOK
  BY DEF TypeInv
<1>2. CASE pc'[v] = pc[v] /\ mine'[v] = mine[v]
  BY <1>2
<1>3. CASE UNCHANGED worker
  BY <1>2, <1>3
<1>4. ASSUME NEW w \in Workers, w # v, Acts(w) PROVE Goal
  BY <1>1, <1>2, <1>4, OthersWait
<1>5. CASE Acts(v)
  <2>1. ASSUME Leave(v) PROVE Goal
    BY <1>1, <2>1, LeaveEffect
  <2>2. ASSUME NEW p \in Fenced \cup Tails, AdvancePhase(v, p) PROVE Goal
    BY <1>1, <2>2, AdvanceEffect
  <2>3. CASE Load(v)
    <3>1. row' = row
      BY <2>3 DEF Load
    <3> QED
      BY <1>1, <2>3, <3>1, LoadEffect
  <2>4. CASE Claim(v)
    <3>1. pc[v] # "idle"
      BY <2>4 DEF Claim
    <3>2. CASE pc' = [pc EXCEPT ![v] = "abandon"]
      <4>1. mine' = mine
        BY <1>1, <2>4, <3>1, <3>2 DEF Claim, Goto, ResumesAt, TypeOK
      <4> QED
        BY <3>1, <4>1
    <3>3. CASE pc' # [pc EXCEPT ![v] = "abandon"]
      BY <1>1, <2>4, <3>1, <3>3, ClaimEffect DEF NextRow
    <3> QED
      BY <3>2, <3>3
  <2>5. CASE RelayClaim(v)
    BY <1>1, <2>5, RelayEffect DEF NextRow
  <2>6. CASE ReplaceFacts(v) \/ RefreshModel(v) \/ PrepareTargets(v)
    BY <2>2, <2>6 DEF ReplaceFacts, RefreshModel, PrepareTargets, Fenced, Tails
  <2>7. CASE StageTargets(v) \/ ClearDirty(v) \/ BumpLists(v)
    BY <2>2, <2>7 DEF StageTargets, ClearDirty, BumpLists, Fenced, Tails
  <2>8. CASE Begin(v) \/ FactsFail(v) \/ ListPending(v) \/ Rebuild(v) \/ AdvanceTarget(v) \/
             WorkFails(v)
    <3>1. pc[v] # "idle" /\ mine' = mine
      BY <2>8 DEF Begin, FactsFail, ListPending, Rebuild, AdvanceTarget, WorkFails, Running,
           Behind
    <3> QED
      BY <3>1
  <2>9. CASE MarkDirty(v) \/ FinishFence(v) \/ FinishFails(v) \/ ListReady(v) \/ Renew(v) \/
             Publish(v)
    <3>1. pc[v] # "idle" /\ mine' = mine
      BY <2>9 DEF MarkDirty, FinishFence, FinishFails, ListReady, Renew, Publish, Running
    <3> QED
      BY <3>1
  <2>10. CASE RecordSent(v) \/ RecordUnsent(v) \/ CheckConsumed(v) \/ RelayFails(v)
    <3>1. pc[v] # "idle" /\ mine' = mine
      BY <2>10 DEF RecordSent, RecordUnsent, CheckConsumed, RelayFails
    <3> QED
      BY <3>1
  <2>11. CASE BeginRefused(v) \/ Abandon(v) \/ UndoClear(v) \/ TailFails(v) \/ Complete(v)
             \/ Release(v) \/ Crash(v)
    BY <2>1, <2>11 DEF BeginRefused, Abandon, UndoClear, TailFails, Complete, Release, Crash
  <2>12. CASE Undo(v) \/ Advance(v)
    <3>1. Leave(v) \/ (pc[v] # "idle" /\ mine' = mine) \/ AdvancePhase(v, "fence_finalized")
      BY <2>12 DEF Undo, Advance
    <3> QED
      BY <2>1, <2>2, <3>1 DEF Tails
  <2> QED
    BY <1>5, <2>3, <2>4, <2>5, <2>6, <2>7, <2>8, <2>9, <2>10, <2>11, <2>12 DEF Acts,
         WorkerStep, FencedStep, TailStep
<1> QED
  BY <1>3, <1>4, <1>5, WorkerFrame

LEMMA LastNext ==
  ASSUME TypeInv, Copies, Stages, LastPhase, [Next]_vars
  PROVE  LastPhase'
<1> SUFFICES ASSUME NEW v \in Workers, pc'[v] # "idle",
                    mine'[v].phase = "cache_tail_done", mine'[v].edit = row'.edit
             PROVE  row'.phase = "cache_tail_done"
  BY DEF LastPhase
<1>1. CASE mine'[v].phase = row'.phase
  BY <1>1
<1>2. CASE pc[v] # "idle" /\ mine'[v].phase = mine[v].phase /\ mine'[v].edit = mine[v].edit
  <2>1. mine[v].edit \in Nat /\ mine[v].edit <= edits /\ mine[v].edit # 0 /\ edits \in Nat
    BY <1>2, OutboxConstants DEF TypeInv, TypeOK, Busy, Edits
  <2>2. ~NewRow /\ ~LostRow
    BY <1>2, <2>1 DEF NewRow, LostRow
  <2>3. row'.edit = row.edit => row.phase = "cache_tail_done"
    BY <1>2 DEF LastPhase
  <2> QED
    BY <2>2, <2>3, PhaseMoves DEF SamePhase, NextPhase
<1> QED
  BY <1>1, <1>2, MineMoves

-----------------------------------------------------------------------------
(* Lists and targets.                                                      *)

\* Where the lists of a worker come from and what becomes of them.
LEMMA ListMoves ==
  ASSUME TypeInv, [Next]_vars, NEW v \in Workers, List(v), pc'[v] \in Listing
  PROVE  \/ ListPending(v) /\ pc'[v] = "rebuild" /\ UNCHANGED <<row, mine, target>>
         \/ ListReady(v) /\ pc'[v] = "publish" /\ UNCHANGED <<row, mine, target>>
         \/ /\ pc[v] \in Listing /\ mine'[v] = mine[v]
            /\ pc'[v] \in {"rebuild", "built"} => pc[v] \in {"rebuild", "built"}
            /\ pc'[v] \notin {"rebuild", "built"} => pc[v] \notin {"rebuild", "built"}
            /\ \A u \in Users : seen'[v][u] = seen[v][u] \/ seen'[v][u] = NoTarget
            /\ pc'[v] \in Pointing => seen'[v] = seen[v] /\ seen[v][at'[v]].st # "none"
<1> DEFINE Goal ==
         \/ ListPending(v) /\ pc'[v] = "rebuild" /\ UNCHANGED <<row, mine, target>>
         \/ ListReady(v) /\ pc'[v] = "publish" /\ UNCHANGED <<row, mine, target>>
         \/ /\ pc[v] \in Listing /\ mine'[v] = mine[v]
            /\ pc'[v] \in {"rebuild", "built"} => pc[v] \in {"rebuild", "built"}
            /\ pc'[v] \notin {"rebuild", "built"} => pc[v] \notin {"rebuild", "built"}
            /\ \A u \in Users : seen'[v][u] = seen[v][u] \/ seen'[v][u] = NoTarget
            /\ pc'[v] \in Pointing => seen'[v] = seen[v] /\ seen[v][at'[v]].st # "none"
<1>1. /\ TypeOK /\ pc \in [Workers -> WorkerPC] /\ mine \in [Workers -> Row]
      /\ seen \in [Workers -> [Users -> Target]] /\ at \in [Workers -> Users \cup {Nobody}]
  BY DEF TypeInv, TypeOK
<1>2. CASE pc'[v] = pc[v] /\ mine'[v] = mine[v] /\ seen'[v] = seen[v] /\ at'[v] = at[v]
  BY <1>2 DEF List, Listing, Pointing
<1>3. CASE UNCHANGED worker
  BY <1>2, <1>3
<1>4. ASSUME NEW w \in Workers, w # v, Acts(w) PROVE Goal
  BY <1>1, <1>2, <1>4, OthersWait
<1>5. CASE Acts(v)
  <2>1. ASSUME Leave(v) PROVE Goal
    <3>1. pc'[v] = "idle"
      BY <1>1, <2>1, LeaveEffect
    <3> QED
      BY <3>1 DEF Listing
  <2>2. CASE ListPending(v)
    BY <1>1, <2>2 DEF ListPending, Goto
  <2>3. CASE ListReady(v)
    BY <1>1, <2>3 DEF ListReady, Goto
  <2>4. CASE Rebuild(v) \/ Renew(v)
    <3>1. Todo(v) # {} /\ at' = [at EXCEPT ![v] = FirstOf(v)] /\ UNCHANGED <<seen, mine>>
      BY <2>4 DEF Rebuild, Renew
    <3>2. FirstOf(v) \in Todo(v)
      BY <3>1 DEF FirstOf
    <3>3. at'[v] = FirstOf(v) /\ seen[v][at'[v]].st # "none"
      BY <1>1, <3>1, <3>2 DEF Todo
    <3>4. CASE Rebuild(v)
      <4>1. pc[v] = "rebuild" /\ pc'[v] = "built"
        BY <1>1, <3>4 DEF Rebuild, Goto
      <4> QED
        BY <3>1, <3>3, <4>1 DEF Listing, Pointing
    <3>5. CASE Renew(v)
      <4>1. pc[v] = "publish" /\ pc'[v] = "renewed"
        BY <1>1, <3>5 DEF Renew, Goto
      <4> QED
        BY <3>1, <3>3, <4>1 DEF Listing, Pointing
    <3> QED
      BY <2>4, <3>4, <3>5
  <2>5. CASE Publish(v)
    <3>1. pc[v] = "renewed" /\ pc'[v] \in {"sent", "unsent"} /\ UNCHANGED <<seen, mine, at>>
      BY <1>1, <2>5 DEF Publish, Goto
    <3> QED
      BY <3>1 DEF List, Listing, Pointing
  <2>6. CASE AdvanceTarget(v) \/ RecordSent(v) \/ RecordUnsent(v)
    <3>1. /\ pc[v] \in {"built", "sent", "unsent"} /\ mine' = mine
          /\ pc'[v] \in {"rebuild", "publish", "release"}
          /\ pc[v] = "built" <=> pc'[v] = "rebuild"
          /\ pc'[v] # "release" => Done(v, at[v])
      BY <1>1, <2>6 DEF AdvanceTarget, RecordSent, RecordUnsent, Goto
    <3>2. at[v] \in Users
      BY <3>1 DEF TypeInv, Busy
    <3>3. Done(v, at[v]) => \A u \in Users : seen'[v][u] = seen[v][u] \/ seen'[v][u] = NoTarget
      BY <1>1, <3>2, DoneEffect
    <3> QED
      BY <3>1, <3>3 DEF Listing, Pointing
  <2>7. CASE Load(v) \/ Begin(v) \/ Claim(v) \/ ReplaceFacts(v)
    BY <1>1, <2>7 DEF Load, Begin, Claim, ReplaceFacts, Goto, Running, ResumesAt, Listing
  <2>8. CASE FactsFail(v) \/ RefreshModel(v) \/ PrepareTargets(v) \/ StageTargets(v)
    BY <1>1, <2>8 DEF FactsFail, RefreshModel, PrepareTargets, StageTargets, Goto, Running,
         Listing
  <2>9. CASE WorkFails(v) \/ MarkDirty(v) \/ FinishFence(v) \/ FinishFails(v)
    BY <1>1, <2>9 DEF WorkFails, MarkDirty, FinishFence, FinishFails, Goto, Behind, Running,
         Listing
  <2>10. CASE ClearDirty(v) \/ BumpLists(v) \/ RelayClaim(v) \/ CheckConsumed(v)
    BY <1>1, <2>10 DEF ClearDirty, BumpLists, RelayClaim, CheckConsumed, InTail, Goto,
         Listing
  <2>11. CASE RelayFails(v)
    BY <1>1, <2>11 DEF RelayFails, Goto, Listing
  <2>12. CASE BeginRefused(v) \/ Abandon(v) \/ UndoClear(v) \/ TailFails(v) \/ Complete(v)
             \/ Release(v) \/ Crash(v)
    BY <2>1, <2>12 DEF BeginRefused, Abandon, UndoClear, TailFails, Complete, Release, Crash
  <2>13. CASE Undo(v) \/ Advance(v)
    <3>1. Leave(v) \/ pc'[v] \in {"undoClear", "tail"}
      BY <1>1, <2>13 DEF Undo, Advance, Goto
    <3> QED
      BY <2>1, <3>1 DEF Listing
  <2> QED
    BY <1>5, <2>2, <2>3, <2>4, <2>5, <2>6, <2>7, <2>8, <2>9, <2>10, <2>11, <2>12, <2>13 DEF
         Acts, WorkerStep, FencedStep, TailStep
<1> QED
  BY <1>3, <1>4, <1>5, WorkerFrame

\* The targets go with the row.
Resets == DropRow \/ \E w \in Workers : Complete(w)

\* What a step makes of a target, and who made it.
LEMMA TargetMoves ==
  ASSUME TypeInv, Copies, Stages, LastPhase, Listed, [Next]_vars, NEW u \in Users
  PROVE  \/ Resets
         \/ /\ target'[u].st = target[u].st /\ target'[u].rev = target[u].rev
            /\ target'[u].due = target[u].due \/ target'[u].due
         \/ /\ target[u].st = "none" /\ target'[u].st = "pending" /\ target'[u].rev = 1
            /\ \E w \in Workers : PrepareTargets(w)
         \/ /\ target[u].st = "pending" /\ target'[u].st = "rebuilt"
            /\ target'[u].rev = target[u].rev + 1
            /\ \E w \in Workers : pc[w] = "built" /\ Matches(w) /\ at[w] = u
         \/ /\ target[u].st = "rebuilt" /\ target'[u].st = "outbox_ready"
            /\ target'[u].rev = target[u].rev + 1
         \/ /\ Awaiting(target[u]) /\ target'[u].rev = target[u].rev + 1
            /\ \/ /\ target'[u].st = "delivered" /\ ~target'[u].due
                  /\ \E w \in Workers : RecordSent(w) /\ TargetMatches(w) /\ at[w] = u
               \/ /\ target'[u].st = target[u].st
                  /\ target'[u].due = target[u].due \/ target'[u].due
               \/ /\ target'[u].st = "consumed"
                  /\ \E c \in Consumers : Confirm(c) /\ IsFor(job[c]) /\ job[c].user = u
<1> DEFINE Goal ==
         \/ Resets
         \/ /\ target'[u].st = target[u].st /\ target'[u].rev = target[u].rev
            /\ target'[u].due = target[u].due \/ target'[u].due
         \/ /\ target[u].st = "none" /\ target'[u].st = "pending" /\ target'[u].rev = 1
            /\ \E w \in Workers : PrepareTargets(w)
         \/ /\ target[u].st = "pending" /\ target'[u].st = "rebuilt"
            /\ target'[u].rev = target[u].rev + 1
            /\ \E w \in Workers : pc[w] = "built" /\ Matches(w) /\ at[w] = u
         \/ /\ target[u].st = "rebuilt" /\ target'[u].st = "outbox_ready"
            /\ target'[u].rev = target[u].rev + 1
         \/ /\ Awaiting(target[u]) /\ target'[u].rev = target[u].rev + 1
            /\ \/ /\ target'[u].st = "delivered" /\ ~target'[u].due
                  /\ \E w \in Workers : RecordSent(w) /\ TargetMatches(w) /\ at[w] = u
               \/ /\ target'[u].st = target[u].st
                  /\ target'[u].due = target[u].due \/ target'[u].due
               \/ /\ target'[u].st = "consumed"
                  /\ \E c \in Consumers : Confirm(c) /\ IsFor(job[c]) /\ job[c].user = u
<1>1. TypeOK /\ Busy /\ Handling
  BY DEF TypeInv
<1>2. CASE target'[u] = target[u]
  BY <1>2
<1>3. ASSUME NEW w \in Workers, PrepareTargets(w) PROVE Goal
  BY <1>1, <1>3, PrepareEffect
<1>4. ASSUME NEW w \in Workers, pc[w] \in Pointing, TargetMatches(w)
      PROVE  /\ target[at[w]].st = seen[w][at[w]].st /\ seen[w][at[w]].st # "none"
             /\ at[w] \in Users
  BY <1>1, <1>4 DEF Busy, Listed, List, Pointing, TargetMatches, TargetOf, NoTarget
<1>5. ASSUME NEW w \in Workers, AdvanceTarget(w) PROVE Goal
  <2>1. pc[w] = "built" /\ Matches(w) /\ TargetMatches(w)
    BY <1>5 DEF AdvanceTarget
  <2>2. at[w] \in Users /\ target[at[w]].st = "pending"
    BY <1>4, <2>1 DEF Pointing, Listed, List
  <2> QED
    BY <1>1, <1>2, <1>5, <2>1, <2>2, AdvanceTargetEffect
<1>6. ASSUME NEW w \in Workers, StageTargets(w) PROVE Goal
  BY <1>1, <1>2, <1>6, StageEffect
<1>7. ASSUME NEW w \in Workers, RecordSent(w) PROVE Goal
  <2>1. pc[w] = "sent" /\ at[w] \in Users
    BY <1>1, <1>7 DEF RecordSent, Busy
  <2>2. TargetMatches(w) => Awaiting(target[at[w]])
    BY <1>4, <2>1 DEF Pointing, Listed, List, Awaiting
  <2> QED
    BY <1>1, <1>2, <1>7, <2>1, <2>2, SentEffect
<1>8. ASSUME NEW w \in Workers, RecordUnsent(w) PROVE Goal
  <2>1. pc[w] = "unsent" /\ at[w] \in Users
    BY <1>1, <1>8 DEF RecordUnsent, Busy
  <2>2. TargetMatches(w) => Awaiting(target[at[w]])
    BY <1>4, <2>1 DEF Pointing, Listed, List, Awaiting
  <2> QED
    BY <1>1, <1>2, <1>8, <2>1, <2>2, UnsentEffect
<1>9. ASSUME NEW c \in Consumers, Confirm(c) PROVE Goal
  <2>1. job[c] \in Message
    BY <1>1, <1>9 DEF Confirm, Handling
  <2> QED
    BY <1>1, <1>2, <1>9, <2>1, ConfirmEffect DEF IsFor
<1>10. ASSUME NEW c \in Consumers, MarkDue(c) PROVE Goal
  <2>1. job[c] \in Message
    BY <1>1, <1>10 DEF MarkDue, Handling
  <2> QED
    BY <1>1, <1>2, <1>10, <2>1, DueEffect DEF IsFor
<1>11. ASSUME NEW v \in Users, DeliveryExpires(v) PROVE Goal
  BY <1>1, <1>2, <1>11, ExpireEffect
<1> QED
  BY <1>2, <1>3, <1>5, <1>6, <1>7, <1>8, <1>9, <1>10, <1>11, TargetFrame DEF Resets

PhaseInv == TypeInv /\ Copies /\ Stages /\ LastPhase /\ Listed

\* PrepareTargets finds the row before its targets.
LEMMA PrepareFrom ==
  ASSUME PhaseInv, NEW w \in Workers, PrepareTargets(w)
  PROVE  /\ row.phase \in {"facts", "model_ready"} /\ row'.phase = "targets_ready"
         /\ row'.edit = row.edit /\ Concerned(mine[w]) = Concerned(row)
<1>1. /\ pc[w] = "run" /\ mine[w].phase \in {"facts", "model_ready"}
      /\ AdvancePhase(w, "targets_ready") /\ Matches(w)
  BY DEF PrepareTargets, Running, AdvancePhase
<1>2. row.phase = mine[w].phase /\ row.hard = mine[w].hard
  BY <1>1, MatchPhase DEF PhaseInv
<1> QED
  BY <1>1, <1>2, AdvanceEffect DEF PhaseInv, TypeInv, Fenced, Concerned

LEMMA NoTargetsNext ==
  ASSUME PhaseInv, NoTargetsYet, [Next]_vars
  PROVE  NoTargetsYet'
<1> SUFFICES ASSUME row'.phase \in {"none", "intent", "facts", "model_ready"}, NEW u \in Users
             PROVE  target'[u].st = "none"
  BY DEF NoTargetsYet
<1>1. CASE Resets
  BY <1>1, EmptyTyped DEF Resets, Complete, DropRow
<1>2. CASE ~Resets
  <2>1. row.phase \in {"none", "intent", "facts", "model_ready"}
    BY <1>2, PhaseMoves DEF PhaseInv, SamePhase, NewRow, NextPhase, Resets
  <2>2. target[u].st = "none"
    BY <2>1 DEF NoTargetsYet
  <2>3. ~\E w \in Workers : PrepareTargets(w)
    BY PrepareFrom
  <2> QED
    BY <1>2, <2>2, <2>3, TargetMoves DEF PhaseInv, Awaiting
<1> QED
  BY <1>1, <1>2

LEMMA NoneIsNewNext ==
  ASSUME PhaseInv, NoneIsNew, [Next]_vars
  PROVE  NoneIsNew'
<1> SUFFICES ASSUME NEW u \in Users, target'[u].st = "none"
             PROVE  target'[u].rev = 0
  BY DEF NoneIsNew
<1>1. CASE Resets
  BY <1>1 DEF Resets, Complete, DropRow, NoTargets, NoTarget
<1>2. CASE ~Resets
  BY <1>2, TargetMoves DEF PhaseInv, NoneIsNew, Awaiting
<1> QED
  BY <1>1, <1>2

\* As long as the row stays, revisions of targets only grow.
LEMMA TargetsGrow ==
  ASSUME PhaseInv, NoneIsNew, [Next]_vars, ~Resets, NEW u \in Users
  PROVE  target'[u].rev >= target[u].rev /\ target[u].rev \in Nat
<1>1. target[u].rev \in Nat
  BY DEF PhaseInv, TypeInv, TypeOK, Target
<1> QED
  BY <1>1, TargetMoves DEF PhaseInv, NoneIsNew

LEMMA ListedNext ==
  ASSUME PhaseInv, NoneIsNew, [Next]_vars
  PROVE  Listed'
<1> SUFFICES ASSUME NEW v \in Workers PROVE List(v)'
  BY DEF Listed
<1> USE DEF Listing, Pointing
<1>1. TypeInv /\ TypeOK /\ Listed /\ List(v)
  BY DEF PhaseInv, TypeInv, Listed
<1>2. CASE pc'[v] \notin Listing
  BY <1>2 DEF List
<1>3. CASE ListPending(v) /\ pc'[v] = "rebuild" /\ UNCHANGED <<row, mine, target>>
  <2>1. \A u \in Users : \/ seen'[v][u] = NoTarget
                         \/ seen'[v][u] = target[u] /\ target[u].st = "pending"
    BY <1>1, <1>3, ListEffect
  <2>2. \A u \in Users : target[u].rev \in Nat
    BY <1>1 DEF TypeOK, Target
  <2> QED
    BY <1>3, <2>1, <2>2, EmptyTyped DEF List
<1>4. CASE ListReady(v) /\ pc'[v] = "publish" /\ UNCHANGED <<row, mine, target>>
  <2>1. \A u \in Users : \/ seen'[v][u] = NoTarget
                         \/ seen'[v][u] = target[u]
                                 /\ target[u].st \in {"outbox_ready", "delivered"}
    BY <1>1, <1>4, ListEffect
  <2>2. \A u \in Users : target[u].rev \in Nat
    BY <1>1 DEF TypeOK, Target
  <2> QED
    BY <1>4, <2>1, <2>2, EmptyTyped DEF List
<1>5. CASE /\ pc[v] \in Listing /\ mine'[v] = mine[v] /\ pc'[v] \in Listing
           /\ pc'[v] \in {"rebuild", "built"} => pc[v] \in {"rebuild", "built"}
           /\ pc'[v] \notin {"rebuild", "built"} => pc[v] \notin {"rebuild", "built"}
           /\ \A u \in Users : seen'[v][u] = seen[v][u] \/ seen'[v][u] = NoTarget
           /\ pc'[v] \in Pointing => seen'[v] = seen[v] /\ seen[v][at'[v]].st # "none"
  <2>1. ASSUME NEW u \in Users, seen'[v][u].st # "none", mine'[v].edit = row'.edit
        PROVE  seen'[v][u].rev <= target'[u].rev
    <3>1. seen'[v][u] = seen[v][u] /\ mine[v].edit = row'.edit
      BY <1>5, <2>1, EmptyTyped
    <3>2. mine[v].edit \in Nat /\ mine[v].edit <= edits /\ mine[v].edit # 0 /\ edits \in Nat
      BY <1>1, <1>5, OutboxConstants DEF TypeInv, TypeOK, Busy, Edits
    <3>3. ~NewRow /\ ~LostRow
      BY <3>1, <3>2 DEF NewRow, LostRow
    <3>4. row.edit = row'.edit
      BY <1>1, <3>3, RowMoves DEF SameRow, NextRow
    <3>5. ~Resets
      <4>1. ASSUME Resets PROVE row'.edit = 0
        BY <4>1, EmptyTyped DEF Resets, Complete, DropRow
      <4> QED
        BY <3>1, <3>2, <4>1
    <3>6. seen[v][u].rev <= target[u].rev /\ seen[v][u].rev \in Nat
      BY <1>1, <1>5, <2>1, <3>1, <3>4 DEF List, TypeOK, Target
    <3>7. target'[u].rev \in Nat
      BY TypeNext, <1>1 DEF TypeInv, TypeOK, Target
    <3> QED
      BY <3>1, <3>5, <3>6, <3>7, TargetsGrow
  <2> QED
    BY <1>1, <1>5, <2>1, EmptyTyped DEF List
<1> QED
  BY <1>1, <1>2, <1>3, <1>4, <1>5, ListMoves

LEMMA FlightMoves ==
  ASSUME TypeInv, [Next]_vars, NEW m \in Message, InFlight(m)'
  PROVE  \/ InFlight(m)
         \/ \E w \in Workers : Publish(w) /\ m = [edit |-> mine[w].edit, user |-> at[w]]
<1> DEFINE Goal ==
         \/ InFlight(m)
         \/ \E w \in Workers : Publish(w) /\ m = [edit |-> mine[w].edit, user |-> at[w]]
<1>1. /\ queue \in [Message -> Nat] /\ job \in [Consumers -> Message \cup {NoMessage}]
      /\ NoMessage \notin Message /\ queue' \in [Message -> Nat]
  BY TypeNext DEF TypeInv, TypeOK, Message, NoMessage, Edits
<1>2. CASE UNCHANGED <<queue, job>>
  BY <1>2 DEF InFlight
<1>3. ASSUME NEW w \in Workers, Publish(w) PROVE Goal
  <2>1. /\ UNCHANGED job
        /\ \/ queue' = queue
           \/ queue' = [queue EXCEPT ![[edit |-> mine[w].edit, user |-> at[w]]] = @ + 1]
    BY <1>3 DEF Publish, Posted
  <2>2. CASE queue' = queue
    BY <1>2, <2>1, <2>2
  <2>3. CASE m # [edit |-> mine[w].edit, user |-> at[w]]
    <3>1. queue'[m] = queue[m]
      BY <1>1, <2>1, <2>3
    <3> QED
      BY <2>1, <3>1 DEF InFlight
  <2> QED
    BY <1>3, <2>1, <2>2, <2>3
<1>4. ASSUME NEW w \in Workers, Complete(w) PROVE Goal
  BY <1>2, <1>4 DEF Complete
<1>5. ASSUME NEW c \in Consumers, NEW n \in Message, Take(c, n) PROVE Goal
  <2>1. /\ queue[n] > 0 /\ queue' = [queue EXCEPT ![n] = @ - 1]
        /\ job' = [job EXCEPT ![c] = n]
    BY <1>5 DEF Take
  <2>2. CASE m = n
    BY <2>1, <2>2 DEF InFlight
  <2>3. CASE m # n
    <3>1. queue'[m] = queue[m] /\ \A d \in Consumers : job'[d] = m => job[d] = m
      BY <1>1, <2>1, <2>3
    <3> QED
      BY <3>1 DEF InFlight
  <2> QED
    BY <2>2, <2>3
<1>6. ASSUME NEW c \in Consumers, Requeue(c) PROVE Goal
  <2>1. /\ queue' = [queue EXCEPT ![job[c]] = @ + 1] /\ job' = [job EXCEPT ![c] = NoMessage]
    BY <1>6 DEF Requeue, Settle
  <2>2. CASE m = job[c]
    BY <2>2 DEF InFlight
  <2>3. CASE m # job[c]
    <3>1. queue'[m] = queue[m] /\ \A d \in Consumers : job'[d] = m => job[d] = m
      BY <1>1, <2>1, <2>3
    <3> QED
      BY <3>1 DEF InFlight
  <2> QED
    BY <2>2, <2>3
<1>7. ASSUME NEW n \in Message, Lose(n) PROVE Goal
  <2>1. queue[n] > 0 /\ queue' = [queue EXCEPT ![n] = @ - 1] /\ UNCHANGED job
    BY <1>7 DEF Lose
  <2>2. CASE m = n
    BY <2>1, <2>2 DEF InFlight
  <2>3. CASE m # n
    <3>1. queue'[m] = queue[m]
      BY <1>1, <2>1, <2>3
    <3> QED
      BY <2>1, <3>1 DEF InFlight
  <2> QED
    BY <2>2, <2>3
<1>8. ASSUME NEW c \in Consumers, Confirm(c) \/ MarkDue(c) PROVE Goal
  <2>1. UNCHANGED queue /\ job' = [job EXCEPT ![c] = NoMessage]
    BY <1>8 DEF Confirm, MarkDue, Settle
  <2>2. \A d \in Consumers : job'[d] = m => job[d] = m
    BY <1>1, <2>1
  <2> QED
    BY <2>1, <2>2 DEF InFlight
<1>9. ASSUME NEW c \in Consumers, Build(c) \/ BuildFails(c) PROVE Goal
  BY <1>2, <1>9 DEF Build, BuildFails
<1>10. CASE DropRow
  BY <1>2, <1>10 DEF DropRow
<1> QED
  BY <1>2, <1>3, <1>4, <1>5, <1>6, <1>7, <1>8, <1>9, <1>10, MessagesFrame, ConsumerFrame

LEMMA PublishedNext ==
  ASSUME PhaseInv, Published, [Next]_vars
  PROVE  Published'
<1> SUFFICES ASSUME NEW m \in Message, InFlight(m)'
             PROVE  m.edit <= edits' /\ (m.edit = row'.edit => row'.phase = "cache_tail_done")
  BY DEF Published
<1>1. /\ m.edit \in Nat /\ m.edit # 0 /\ edits \in Nat /\ TypeInv /\ Copies /\ Stages
      /\ Handling /\ Busy
  BY OutboxConstants DEF PhaseInv, TypeInv, TypeOK, Message, Edits
<1>2. edits' \in {edits, edits + 1}
  <2>1. CASE Request \/ Review \/ Analyze
    BY <2>1 DEF Request, Review, Analyze, ApplyAIAnalysisResult, Written
  <2>2. CASE ~(Request \/ Review \/ Analyze)
    BY <2>2, EditsFrame
  <2> QED
    BY <2>1, <2>2
<1>3. m.edit <= edits /\ (m.edit = row.edit => row.phase = "cache_tail_done")
  <2>1. CASE InFlight(m)
    BY <2>1 DEF Published
  <2>2. ASSUME NEW w \in Workers, Publish(w), m = [edit |-> mine[w].edit, user |-> at[w]]
        PROVE  <1>3
    <3>1. pc[w] = "renewed" /\ m.edit = mine[w].edit
      BY <2>2 DEF Publish
    <3>2. mine[w].phase = "cache_tail_done"
      BY <1>1, <3>1 DEF Stages, Stage, Relaying
    <3> QED
      BY <1>1, <3>1, <3>2 DEF PhaseInv, LastPhase, Busy
  <2> QED
    BY <1>1, <2>1, <2>2, FlightMoves
<1>4. m.edit = row'.edit => row.edit = row'.edit
  BY <1>1, <1>3, RowMoves DEF SameRow, NextRow, NewRow, LostRow
<1> QED
  BY <1>1, <1>2, <1>3, <1>4, PhaseMoves DEF SamePhase, NewRow, LostRow, NextPhase

-----------------------------------------------------------------------------
(* Debts.                                                                  *)

\* What a step may do to a user who is not excused afterwards: his profile is
\* built, the row replaces facts that concern him, or he was not excused before
\* and is not made stale.
Paid(u)  == derived'[u] = wanted'[u] /\ built'[u] = wanted'[u]
Begun(u) == row.phase = "intent" /\ row'.phase = "facts" /\ u \in Concerned(row)'
Kept(u)  == /\ u \notin excused /\ wanted'[u] = wanted[u]
            /\ derived'[u] = derived[u] \/ derived'[u] = wanted[u]
            /\ built'[u] = built[u] \/ built'[u] = wanted[u]

LEMMA DebtMoves ==
  ASSUME PhaseInv, [Next]_vars, NEW u \in Users, u \notin excused'
  PROVE  Paid(u) \/ Begun(u) \/ Kept(u)
<1>1. /\ wanted \in [Users -> 0..MaxEdits] /\ derived \in [Users -> 0..MaxEdits]
      /\ built \in [Users -> 0..MaxEdits] /\ TypeInv /\ Copies /\ TypeOK
  BY DEF PhaseInv, TypeInv, TypeOK
<1>2. ASSUME NEW w \in Workers, ReplaceFacts(w) PROVE Begun(u) \/ Kept(u)
  <2>1. /\ pc[w] = "run" /\ mine[w].phase = "intent" /\ AdvancePhase(w, "facts") /\ Matches(w)
        /\ wanted' = [v \in Users |-> IF v \in Concerned(row) THEN row.edit ELSE wanted[v]]
        /\ excused' = excused \ Concerned(row) /\ UNCHANGED <<derived, built>>
    BY <1>2 DEF ReplaceFacts, Running, AdvancePhase
  <2>2. row.phase = "intent" /\ row'.phase = "facts" /\ row'.hard = row.hard
    BY <1>1, <2>1, MatchPhase, AdvanceEffect DEF Fenced
  <2>3. u \in Concerned(row) => Begun(u)
    BY <2>2 DEF Concerned, Begun
  <2>4. u \notin Concerned(row) => Kept(u)
    BY <2>1 DEF Kept
  <2> QED
    BY <2>3, <2>4
<1>3. ASSUME NEW v \in Users, excused' = excused \ {v}, UNCHANGED wanted,
             derived' = [derived EXCEPT ![v] = wanted[v]],
             built' = [built EXCEPT ![v] = wanted[v]]
      PROVE  Paid(u) \/ Kept(u)
  BY <1>1, <1>3 DEF Paid, Kept
<1>4. ASSUME NEW c \in Consumers, Build(c) PROVE Paid(u) \/ Kept(u)
  <2>1. job[c].user \in Users
    BY <1>1, <1>4 DEF Build, TypeInv, Handling, Message
  <2> QED
    BY <1>3, <1>4, <2>1 DEF Build
<1>5. ASSUME NEW v \in Users, OtherBuild(v) PROVE Paid(u) \/ Kept(u)
  BY <1>3, <1>5 DEF OtherBuild
<1>6. CASE Review \/ Analyze
  <2>1. /\ wanted' = [v \in Users |-> IF v \in Solvers THEN Written ELSE wanted[v]]
        /\ excused' = excused \cup Solvers /\ UNCHANGED <<derived, built>>
    BY <1>6 DEF Review, Analyze, ApplyAIAnalysisResult
  <2> QED
    BY <2>1 DEF Kept
<1>7. CASE DropRow
  BY <1>7 DEF DropRow, Kept
<1>8. ASSUME UNCHANGED <<wanted, excused, built>>, NEW v \in Users,
             derived' = [derived EXCEPT ![v] = wanted[v]]
      PROVE  Kept(u)
  BY <1>1, <1>8 DEF Kept
<1>9. ASSUME NEW w \in Workers, Rebuild(w) PROVE Kept(u)
  <2>1. FirstOf(w) \in Users
    BY <1>9 DEF Rebuild, FirstOf, Todo
  <2> QED
    BY <1>8, <1>9, <2>1 DEF Rebuild
<1>10. ASSUME NEW v \in Users, OtherRefresh(v) PROVE Kept(u)
  BY <1>8, <1>10 DEF OtherRefresh
<1>11. CASE UNCHANGED <<wanted, derived, built, excused>>
  BY <1>11 DEF Kept
<1> QED
  BY <1>2, <1>4, <1>5, <1>6, <1>7, <1>9, <1>10, <1>11, WantedFrame, DerivedFrame, BuiltFrame,
     ExcusedFrame

\* A worker that has rebuilt a user and still owns the row.
LEMMA RebuiltNext ==
  ASSUME PhaseInv, Rebuilt, [Next]_vars
  PROVE  Rebuilt'
<1> SUFFICES ASSUME NEW v \in Workers, pc'[v] = "built", Matches(v)', at'[v] \notin excused'
             PROVE  derived'[at'[v]] = wanted'[at'[v]]
  BY DEF Rebuilt
<1>1. /\ TypeInv /\ TypeOK /\ Copies /\ Busy /\ List(v)
      /\ pc \in [Workers -> WorkerPC] /\ at \in [Workers -> Users \cup {Nobody}]
      /\ derived \in [Users -> 0..MaxEdits]
  BY DEF PhaseInv, TypeInv, TypeOK, Listed
<1>2. CASE Rebuild(v)
  <2>1. /\ Todo(v) # {} /\ at'[v] = FirstOf(v) /\ wanted' = wanted
        /\ derived' = [derived EXCEPT ![FirstOf(v)] = wanted[FirstOf(v)]]
    BY <1>1, <1>2 DEF Rebuild
  <2>2. FirstOf(v) \in Users
    BY <2>1 DEF FirstOf, Todo
  <2> QED
    BY <1>1, <2>1, <2>2
<1>3. CASE pc[v] = "built" /\ mine'[v] = mine[v] /\ at'[v] = at[v]
  <2>1. /\ mine[v].edit \in Nat /\ mine[v].edit <= edits /\ mine[v].edit # 0 /\ edits \in Nat
        /\ mine[v].rev \in Nat /\ row.rev \in Nat /\ at[v] \in Users
    BY <1>1, <1>3, OutboxConstants DEF TypeOK, Busy, Edits, Row
  <2>2. row'.phase # "none" /\ row'.edit = mine[v].edit /\ row'.rev = mine[v].rev
             /\ row'.owner = mine[v].owner
    BY <1>3 DEF Matches, RevisionMatches, Present
  <2>3. SameRow
    BY <1>1, <1>3, <2>1, <2>2, RowMoves DEF NextRow, NewRow, LostRow, Copies, Copy
  <2>4. Matches(v)
    BY <2>2, <2>3 DEF SameRow, Matches, RevisionMatches, Present
  <2>5. at[v] \notin excused => derived[at[v]] = wanted[at[v]]
    BY <1>3, <2>4 DEF Rebuilt
  <2>6. ~Begun(at[v])
    BY <2>3 DEF SameRow, Begun
  <2> QED
    BY <1>3, <2>1, <2>5, <2>6, DebtMoves DEF Paid, Kept
<1> QED
  <2>1. CASE UNCHANGED worker
    BY <1>3, <2>1
  <2>2. ASSUME NEW w \in Workers, w # v, Acts(w)
        PROVE  pc[v] = "built" /\ mine'[v] = mine[v] /\ at'[v] = at[v]
    BY <1>1, <2>2, OthersWait
  <2>3. ASSUME Acts(v), ~Rebuild(v)
        PROVE  pc[v] = "built" /\ mine'[v] = mine[v] /\ at'[v] = at[v]
    <3>1. ASSUME Leave(v) PROVE FALSE
      <4>1. pc'[v] = "idle"
        BY <1>1, <3>1, LeaveEffect
      <4> QED
        BY <4>1
    <3>2. CASE Load(v) \/ Begin(v) \/ Claim(v) \/ ReplaceFacts(v) \/ FactsFail(v)
      BY <1>1, <3>2 DEF Load, Begin, Claim, ReplaceFacts, FactsFail, Goto, Running,
           ResumesAt
    <3>3. CASE RefreshModel(v) \/ PrepareTargets(v) \/ ListPending(v) \/ AdvanceTarget(v) \/
               StageTargets(v)
      BY <1>1, <3>3 DEF RefreshModel, PrepareTargets, ListPending, AdvanceTarget,
           StageTargets, Running, Goto
    <3>4. CASE WorkFails(v) \/ MarkDirty(v) \/ FinishFence(v) \/ FinishFails(v) \/
               ClearDirty(v)
      BY <1>1, <3>4 DEF WorkFails, MarkDirty, FinishFence, FinishFails, ClearDirty, Goto,
           Behind, Running, InTail
    <3>5. CASE BumpLists(v) \/ RelayClaim(v) \/ ListReady(v) \/ Renew(v) \/ Publish(v)
      BY <1>1, <3>5 DEF BumpLists, RelayClaim, ListReady, Renew, Publish, InTail, Goto
    <3>6. CASE RecordSent(v) \/ RecordUnsent(v) \/ CheckConsumed(v) \/ RelayFails(v)
      BY <1>1, <3>6 DEF RecordSent, RecordUnsent, CheckConsumed, RelayFails, Goto
    <3>7. CASE BeginRefused(v) \/ Abandon(v) \/ UndoClear(v) \/ TailFails(v) \/ Complete(v)
               \/ Release(v) \/ Crash(v)
      BY <3>1, <3>7 DEF BeginRefused, Abandon, UndoClear, TailFails, Complete, Release,
           Crash
    <3>8. CASE Undo(v) \/ Advance(v)
      <4>1. Leave(v) \/ pc'[v] \in {"undoClear", "tail"}
        BY <1>1, <3>8 DEF Undo, Advance, Goto
      <4> QED
        BY <3>1, <4>1
    <3> QED
      BY <2>3, <3>2, <3>3, <3>4, <3>5, <3>6, <3>7, <3>8 DEF Acts, WorkerStep, FencedStep,
           TailStep
  <2> QED
    BY <1>2, <1>3, <2>1, <2>2, <2>3, WorkerFrame

LEMMA AggregatesNext ==
  ASSUME PhaseInv, Rebuilt, NoTargetsYet, AggregatesDebt, [Next]_vars
  PROVE  AggregatesDebt'
<1> SUFFICES ASSUME NEW u \in Users, u \notin excused', derived'[u] # wanted'[u]
             PROVE  \/ row'.phase \in {"facts", "model_ready"} /\ u \in Concerned(row)'
                    \/ row'.phase = "targets_ready" /\ target'[u].st = "pending"
  BY DEF AggregatesDebt
<1>1. TypeInv /\ TypeOK /\ Copies /\ Stages /\ LastPhase /\ Listed
  BY DEF PhaseInv, TypeInv
<1>2. SUFFICES ASSUME u \notin excused, derived[u] # wanted[u] PROVE
                    \/ row'.phase \in {"facts", "model_ready"} /\ u \in Concerned(row)'
                    \/ row'.phase = "targets_ready" /\ target'[u].st = "pending"
  BY DebtMoves DEF Paid, Begun, Kept
<1>d. ~DropRow
  BY <1>2 DEF DropRow, Present, AggregatesDebt
<1>3. CASE row.phase \in {"facts", "model_ready"} /\ u \in Concerned(row)
  <2>1. row'.hard = row.hard => u \in Concerned(row)'
    BY <1>3 DEF Concerned
  <2>2. ASSUME NEW w \in Workers, PrepareTargets(w)
        PROVE  row'.phase = "targets_ready" /\ target'[u].st = "pending"
    <3>1. Concerned(mine[w]) = Concerned(row) /\ row'.phase = "targets_ready"
      BY <2>2, PrepareFrom
    <3>2. target[u].st = "none"
      BY <1>3 DEF NoTargetsYet
    <3> QED
      BY <1>1, <1>3, <2>2, <3>1, <3>2, PrepareEffect
  <2> QED
    BY <1>1, <1>d, <1>3, <2>1, <2>2, PhaseMoves DEF SamePhase, NewRow, NextPhase
<1>4. CASE row.phase = "targets_ready" /\ target[u].st = "pending"
  <2>1. ~Resets
    <3>1. ASSUME NEW w \in Workers, Complete(w) PROVE FALSE
      <4>1. pc[w] = "complete" /\ Matches(w)
        BY <3>1 DEF Complete
      <4> QED
        BY <1>1, <1>4, <4>1, MatchPhase DEF Stages, Stage, Relaying
    <3> QED
      BY <1>d, <3>1 DEF Resets
  <2>2. target'[u].st = "pending"
    <3>1. ~\E w \in Workers : pc[w] = "built" /\ Matches(w) /\ at[w] = u
      BY <1>2 DEF Rebuilt
    <3> QED
      BY <1>1, <1>4, <2>1, <3>1, TargetMoves DEF Awaiting
  <2>3. ASSUME NEW w \in Workers, StageTargets(w) PROVE FALSE
    BY <1>1, <1>4, <2>3, StageEffect
  <2> QED
    BY <1>1, <1>4, <2>1, <2>2, <2>3, PhaseMoves DEF SamePhase, NewRow, NextPhase, Resets
<1> QED
  BY <1>2, <1>3, <1>4 DEF AggregatesDebt

LEMMA ConfirmingNext ==
  ASSUME PhaseInv, Published, Confirming, [Next]_vars
  PROVE  Confirming'
<1> SUFFICES ASSUME NEW c \in Consumers, cpc'[c] = "confirm", job'[c].edit = row'.edit,
                    job'[c].user \notin excused'
             PROVE  built'[job'[c].user] = wanted'[job'[c].user]
  BY DEF Confirming
<1>1. /\ TypeInv /\ TypeOK /\ Copies /\ Handling
      /\ cpc \in [Consumers -> {"idle", "build", "confirm", "due"}]
      /\ job \in [Consumers -> Message \cup {NoMessage}] /\ built \in [Users -> 0..MaxEdits]
  BY DEF PhaseInv, TypeInv, TypeOK
<1>2. CASE Build(c)
  <2>1. job[c] \in Message /\ job[c].user \in Users
    BY <1>1, <1>2 DEF Build, Handling, Message
  <2> QED
    BY <1>1, <1>2, <2>1 DEF Build
<1>3. CASE cpc[c] = "confirm" /\ job'[c] = job[c]
  <2>1. /\ job[c] \in Message /\ job[c].user \in Users /\ job[c].edit \in Nat
        /\ job[c].edit # 0 /\ edits \in Nat /\ InFlight(job[c])
    BY <1>1, <1>3, OutboxConstants DEF Handling, Message, Edits, TypeOK, InFlight
  <2>2. job[c].edit <= edits /\ (job[c].edit = row.edit => row.phase = "cache_tail_done")
    BY <2>1 DEF Published
  <2>3. row.edit = row'.edit
    BY <1>1, <1>3, <2>1, <2>2, RowMoves DEF SameRow, NextRow, NewRow, LostRow
  <2>4. /\ row.phase = "cache_tail_done"
        /\ job[c].user \notin excused => built[job[c].user] = wanted[job[c].user]
    BY <1>3, <2>2, <2>3 DEF Confirming
  <2> QED
    BY <1>3, <2>1, <2>4, DebtMoves DEF Paid, Begun, Kept
<1> QED
  <2>1. CASE UNCHANGED consumer
    BY <1>3, <2>1
  <2>2. ASSUME NEW d \in Consumers, Build(d) \/ BuildFails(d) \/ Confirm(d) \/ MarkDue(d)
                    \/ Requeue(d)
        PROVE  Build(c) \/ (cpc[c] = "confirm" /\ job'[c] = job[c])
    <3>1. CASE d # c
      BY <1>1, <2>2, <3>1 DEF Build, BuildFails, Confirm, MarkDue, Requeue, Settle, ConsumerGoto
    <3>2. CASE d = c /\ ~Build(c)
      BY <1>1, <2>2, <3>2 DEF BuildFails, Confirm, MarkDue, Requeue, Settle, ConsumerGoto
    <3> QED
      BY <2>2, <3>1, <3>2
  <2>3. ASSUME NEW d \in Consumers, NEW m \in Message, Take(d, m)
        PROVE  cpc[c] = "confirm" /\ job'[c] = job[c]
    BY <1>1, <2>3 DEF Take, ConsumerGoto
  <2> QED
    BY <1>2, <1>3, <2>1, <2>2, <2>3, ConsumerFrame

LEMMA ProfileNext ==
  ASSUME PhaseInv, NoTargetsYet, Confirming, ProfileDebt, [Next]_vars
  PROVE  ProfileDebt'
<1> SUFFICES ASSUME NEW u \in Users, u \notin excused', built'[u] # wanted'[u]
             PROVE  \/ row'.phase \in {"facts", "model_ready"} /\ u \in Concerned(row)'
                    \/ /\ row'.phase \in {"targets_ready", "derived_ready"} \cup Tails
                       /\ target'[u].st \notin {"none", "consumed"}
  BY DEF ProfileDebt
<1>1. TypeInv /\ TypeOK /\ Copies /\ Stages /\ LastPhase /\ Listed /\ Handling
  BY DEF PhaseInv, TypeInv
<1>2. SUFFICES ASSUME u \notin excused, built[u] # wanted[u] PROVE
                    \/ row'.phase \in {"facts", "model_ready"} /\ u \in Concerned(row)'
                    \/ /\ row'.phase \in {"targets_ready", "derived_ready"} \cup Tails
                       /\ target'[u].st \notin {"none", "consumed"}
  BY DebtMoves DEF Paid, Begun, Kept
<1>d. ~DropRow
  BY <1>2 DEF DropRow, Present, ProfileDebt, Tails
<1>3. CASE row.phase \in {"facts", "model_ready"} /\ u \in Concerned(row)
  <2>1. row'.hard = row.hard => u \in Concerned(row)'
    BY <1>3 DEF Concerned
  <2>2. ASSUME NEW w \in Workers, PrepareTargets(w)
        PROVE  row'.phase = "targets_ready" /\ target'[u].st = "pending"
    <3>1. Concerned(mine[w]) = Concerned(row) /\ row'.phase = "targets_ready"
      BY <2>2, PrepareFrom
    <3>2. target[u].st = "none"
      BY <1>3 DEF NoTargetsYet
    <3> QED
      BY <1>1, <1>3, <2>2, <3>1, <3>2, PrepareEffect
  <2> QED
    BY <1>1, <1>d, <1>3, <2>1, <2>2, PhaseMoves DEF SamePhase, NewRow, NextPhase
<1>4. CASE /\ row.phase \in {"targets_ready", "derived_ready"} \cup Tails
           /\ target[u].st \notin {"none", "consumed"}
  <2>1. ~Resets
    <3>1. ASSUME NEW w \in Workers, Complete(w) PROVE FALSE
      <4>1. AllConsumed(w) /\ row.edit = mine[w].edit
        BY <3>1 DEF Complete, Matches, RevisionMatches
      <4> QED
        BY <1>4, <4>1 DEF AllConsumed, TargetOf
    <3> QED
      BY <1>d, <3>1 DEF Resets
  <2>2. ~\E c \in Consumers : Confirm(c) /\ IsFor(job[c]) /\ job[c].user = u
    BY <1>2 DEF Confirm, Confirming, IsFor
  <2>3. target'[u].st \notin {"none", "consumed"}
    BY <1>1, <1>4, <2>1, <2>2, TargetMoves DEF Awaiting
  <2>4. row'.phase \in {"targets_ready", "derived_ready"} \cup Tails
    BY <1>1, <1>4, <2>1, PhaseMoves DEF SamePhase, NewRow, NextPhase, Tails, Resets
  <2> QED
    BY <2>3, <2>4
<1> QED
  BY <1>2, <1>3, <1>4 DEF ProfileDebt

-----------------------------------------------------------------------------
(* Messages.                                                               *)

\* A message leaves the queue and its consumers only when it is lost or
\* handled, and is remembered as lost until the row is gone.
LEMMA FlightEnds ==
  ASSUME TypeInv, [Next]_vars, ~Resets, NEW m \in Message,
         InFlight(m) \/ m \in lost
  PROVE  \/ InFlight(m)' \/ m \in lost'
         \/ \E c \in Consumers : (Confirm(c) \/ MarkDue(c)) /\ job[c] = m
<1> DEFINE Goal ==
         \/ InFlight(m)' \/ m \in lost'
         \/ \E c \in Consumers : (Confirm(c) \/ MarkDue(c)) /\ job[c] = m
<1>1. /\ queue \in [Message -> Nat] /\ job \in [Consumers -> Message \cup {NoMessage}]
      /\ TypeOK /\ Handling
  BY DEF TypeInv, TypeOK
<1>2. CASE UNCHANGED <<queue, job, lost>>
  BY <1>2 DEF InFlight
<1>3. ASSUME NEW w \in Workers, Publish(w) PROVE Goal
  <2>1. UNCHANGED <<job, lost>> /\ pc[w] = "renewed"
    BY <1>3 DEF Publish
  <2>2. [edit |-> mine[w].edit, user |-> at[w]] \in Message
    BY <2>1 DEF TypeInv, Busy, Message
  <2>3. queue' = queue
             \/ queue' = [queue EXCEPT ![[edit |-> mine[w].edit, user |-> at[w]]] = @ + 1]
    BY <1>3 DEF Publish, Posted
  <2>4. PICK n \in Message : n = [edit |-> mine[w].edit, user |-> at[w]]
    BY <2>2
  <2>5. queue' = queue \/ queue' = [queue EXCEPT ![n] = @ + 1]
    BY <2>3, <2>4
  <2>6. queue[m] > 0 => queue'[m] > 0
    BY <1>1, <2>5
  <2> QED
    BY <2>1, <2>6 DEF InFlight
<1>5. ASSUME NEW c \in Consumers, NEW n \in Message, Take(c, n) PROVE Goal
  <2>1. /\ queue[n] > 0 /\ queue' = [queue EXCEPT ![n] = @ - 1] /\ cpc[c] = "idle"
        /\ job' = [job EXCEPT ![c] = n] /\ UNCHANGED lost
    BY <1>5 DEF Take
  <2>2. CASE m = n
    <3>1. job'[c] = m
      BY <1>1, <2>1, <2>2
    <3> QED
      BY <3>1 DEF InFlight
  <2>3. CASE m # n
    <3>1. queue'[m] = queue[m] /\ \A d \in Consumers : d # c => job'[d] = job[d]
      BY <1>1, <2>1, <2>3
    <3>2. job[c] # m
      BY <1>1, <2>1 DEF Handling, Message, NoMessage, Edits
    <3> QED
      BY <2>1, <3>1, <3>2 DEF InFlight
  <2> QED
    BY <2>2, <2>3
<1>6. ASSUME NEW c \in Consumers, Requeue(c) PROVE Goal
  <2>1. /\ queue' = [queue EXCEPT ![job[c]] = @ + 1] /\ job' = [job EXCEPT ![c] = NoMessage]
        /\ cpc[c] # "idle" /\ UNCHANGED lost
    BY <1>6 DEF Requeue, Settle
  <2>2. job[c] \in Message
    BY <1>1, <2>1 DEF Handling
  <2>3. queue'[job[c]] > 0 /\ \A n \in Message : queue[n] > 0 => queue'[n] > 0
    BY <1>1, <2>1, <2>2
  <2>4. \A d \in Consumers : d # c => job'[d] = job[d]
    BY <1>1, <2>1
  <2> QED
    BY <2>1, <2>3, <2>4 DEF InFlight
<1>7. ASSUME NEW n \in Message, Lose(n) PROVE Goal
  <2>1. queue' = [queue EXCEPT ![n] = @ - 1] /\ UNCHANGED job /\ lost' = lost \cup {n}
    BY <1>7 DEF Lose
  <2>2. CASE m = n
    BY <2>1, <2>2
  <2>3. CASE m # n
    <3>1. queue'[m] = queue[m]
      BY <1>1, <2>1, <2>3
    <3> QED
      BY <2>1, <3>1 DEF InFlight
  <2> QED
    BY <2>2, <2>3
<1>8. ASSUME NEW c \in Consumers, Confirm(c) \/ MarkDue(c) PROVE Goal
  <2>1. UNCHANGED <<queue, lost>> /\ job' = [job EXCEPT ![c] = NoMessage]
    BY <1>8 DEF Confirm, MarkDue, Settle
  <2>2. \A d \in Consumers : d # c => job'[d] = job[d]
    BY <1>1, <2>1
  <2> QED
    BY <1>8, <2>1, <2>2 DEF InFlight
<1>9. ASSUME NEW c \in Consumers, Build(c) \/ BuildFails(c) PROVE Goal
  BY <1>2, <1>9 DEF Build, BuildFails
<1> QED
  BY <1>2, <1>3, <1>5, <1>6, <1>7, <1>8, <1>9, MessagesFrame, ConsumerFrame DEF Resets

\* The end of a message of the row's edit, whose target awaits it, shows in
\* the target.
LEMMA HandledShows ==
  ASSUME TypeInv, NEW c \in Consumers, Confirm(c) \/ MarkDue(c), NEW u \in Users,
         job[c] = [edit |-> row.edit, user |-> u], Awaiting(target[u])
  PROVE  /\ target'[u].rev = target[u].rev + 1
         /\ target'[u].st = "consumed" \/ target'[u].due
<1>1. TypeOK /\ job[c] \in Message /\ IsFor(job[c]) /\ job[c].user = u
  BY DEF TypeInv, Handling, Confirm, MarkDue, IsFor
<1> QED
  BY <1>1, ConfirmEffect, DueEffect

LEMMA SentNext ==
  ASSUME PhaseInv, NoneIsNew, Sent, [Next]_vars
  PROVE  Sent'
<1> SUFFICES ASSUME NEW v \in Workers, pc'[v] = "sent", TargetMatches(v)',
                    NEW m, m = [edit |-> mine'[v].edit, user |-> at'[v]]
             PROVE  InFlight(m)' \/ m \in lost'
  BY DEF Sent
<1>1. /\ TypeInv /\ TypeOK /\ Copies /\ Stages /\ Busy /\ List(v) /\ LastPhase /\ Listed
      /\ pc \in [Workers -> WorkerPC] /\ queue \in [Message -> Nat]
  BY DEF PhaseInv, TypeInv, TypeOK, Listed
<1>2. CASE Publish(v)
  <2>1. /\ pc[v] = "renewed" /\ UNCHANGED <<mine, at>>
        /\ queue' = [queue EXCEPT ![[edit |-> mine[v].edit, user |-> at[v]]] = @ + 1]
    BY <1>1, <1>2 DEF Publish, Goto, Posted
  <2>2. m \in Message /\ queue' = [queue EXCEPT ![m] = @ + 1]
    BY <1>1, <2>1 DEF Busy, Message
  <2>3. queue'[m] > 0
    BY <1>1, <2>2
  <2> QED
    BY <2>3 DEF InFlight
<1>3. CASE pc[v] = "sent" /\ mine'[v] = mine[v] /\ seen'[v] = seen[v] /\ at'[v] = at[v]
  <2>1. /\ mine[v].edit \in Nat /\ mine[v].edit <= edits /\ mine[v].edit # 0 /\ edits \in Nat
        /\ at[v] \in Users /\ m \in Message /\ seen[v][at[v]].rev \in Nat
    BY <1>1, <1>3, OutboxConstants DEF TypeOK, Busy, Edits, Message, Target
  <2>2. PICK u \in Users : u = at[v]
    BY <2>1
  <2>3. seen[v][u].st \in {"outbox_ready", "delivered"}
    BY <1>1, <1>3, <2>2 DEF List, Pointing
  <2>4. /\ row'.edit = mine[v].edit /\ target'[u].st = seen[v][u].st
        /\ target'[u].rev = seen[v][u].rev
    BY <1>3, <2>2, <2>3 DEF TargetMatches, TargetOf, NoTarget
  <2>5. row.edit = mine[v].edit
    BY <1>1, <2>1, <2>4, RowMoves DEF SameRow, NextRow, NewRow, LostRow
  <2>6. ~Resets
    <3>1. ASSUME Resets PROVE row'.edit = 0
      BY <3>1, EmptyTyped DEF Resets, Complete, DropRow
    <3> QED
      BY <2>1, <2>4, <3>1
  <2>7. seen[v][u].rev <= target[u].rev /\ target[u].rev \in Nat
    BY <1>1, <1>3, <2>3, <2>5 DEF List, Listing, TypeOK, Target
  <2>8. target[u].rev = seen[v][u].rev
    BY <2>1, <2>2, <2>4, <2>6, <2>7, TargetsGrow
  <2>9. target[u].st = target'[u].st
    BY <1>1, <2>1, <2>2, <2>3, <2>4, <2>6, <2>8, TargetMoves
  <2>10. TargetMatches(v)
    BY <2>2, <2>4, <2>5, <2>8, <2>9 DEF TargetMatches, TargetOf
  <2>11. InFlight(m) \/ m \in lost
    BY <1>3, <2>10 DEF Sent
  <2>12. ASSUME NEW c \in Consumers, Confirm(c) \/ MarkDue(c), job[c] = m PROVE FALSE
    <3>1. m = [edit |-> row.edit, user |-> u] /\ Awaiting(target[u])
      BY <1>3, <2>2, <2>3, <2>4, <2>5, <2>9 DEF Awaiting
    <3>2. target'[u].rev = target[u].rev + 1
      BY <1>1, <2>12, <3>1, HandledShows
    <3> QED
      BY <2>4, <2>7, <2>8, <3>2
  <2> QED
    BY <1>1, <2>1, <2>6, <2>11, <2>12, FlightEnds
<1> QED
  <2>1. CASE UNCHANGED worker
    BY <1>3, <2>1
  <2>2. ASSUME NEW w \in Workers, w # v, Acts(w)
        PROVE  pc[v] = "sent" /\ mine'[v] = mine[v] /\ seen'[v] = seen[v] /\ at'[v] = at[v]
    BY <1>1, <2>2, OthersWait
  <2>3. ASSUME Acts(v), ~Publish(v) PROVE FALSE
    <3>1. ASSUME Leave(v) PROVE FALSE
      <4>1. pc'[v] = "idle"
        BY <1>1, <3>1, LeaveEffect
      <4> QED
        BY <4>1
    <3>2. CASE Load(v) \/ Begin(v) \/ Claim(v) \/ ReplaceFacts(v) \/ FactsFail(v)
      BY <1>1, <3>2 DEF Load, Begin, Claim, ReplaceFacts, FactsFail, Goto, Running,
           ResumesAt
    <3>3. CASE RefreshModel(v) \/ PrepareTargets(v) \/ ListPending(v) \/ Rebuild(v) \/
               AdvanceTarget(v)
      BY <1>1, <3>3 DEF RefreshModel, PrepareTargets, ListPending, Rebuild, AdvanceTarget,
           Running, Goto
    <3>4. CASE StageTargets(v) \/ WorkFails(v) \/ MarkDirty(v) \/ FinishFence(v) \/
               FinishFails(v)
      BY <1>1, <3>4 DEF StageTargets, WorkFails, MarkDirty, FinishFence, FinishFails, Goto,
           Behind, Running
    <3>5. CASE ClearDirty(v) \/ BumpLists(v) \/ RelayClaim(v) \/ ListReady(v) \/ Renew(v)
      BY <1>1, <3>5 DEF ClearDirty, BumpLists, RelayClaim, ListReady, Renew, InTail, Goto
    <3>6. CASE RecordSent(v) \/ RecordUnsent(v) \/ CheckConsumed(v) \/ RelayFails(v)
      BY <1>1, <3>6 DEF RecordSent, RecordUnsent, CheckConsumed, RelayFails, Goto
    <3>7. CASE BeginRefused(v) \/ Abandon(v) \/ UndoClear(v) \/ TailFails(v) \/ Complete(v)
               \/ Release(v) \/ Crash(v)
      BY <3>1, <3>7 DEF BeginRefused, Abandon, UndoClear, TailFails, Complete, Release,
           Crash
    <3>8. CASE Undo(v) \/ Advance(v)
      <4>1. Leave(v) \/ pc'[v] \in {"undoClear", "tail"}
        BY <1>1, <3>8 DEF Undo, Advance, Goto
      <4> QED
        BY <3>1, <4>1
    <3> QED
      BY <2>3, <3>2, <3>3, <3>4, <3>5, <3>6, <3>7, <3>8 DEF Acts, WorkerStep, FencedStep,
           TailStep
  <2> QED
    BY <1>2, <1>3, <2>1, <2>2, <2>3, WorkerFrame

LEMMA DeliveredNext ==
  ASSUME PhaseInv, NoTargetsYet, Sent, DeliveredIsUnderWay, [Next]_vars
  PROVE  DeliveredIsUnderWay'
<1> SUFFICES ASSUME NEW u \in Users, target'[u].st = "delivered", ~target'[u].due,
                    NEW m, m = [edit |-> row'.edit, user |-> u]
             PROVE  InFlight(m)' \/ m \in lost'
  BY DEF DeliveredIsUnderWay
<1>1. TypeInv /\ TypeOK /\ Copies /\ Stages /\ LastPhase /\ Listed /\ RowShape /\ Busy
  BY DEF PhaseInv, TypeInv
<1>2. ~Resets
  <2>1. ASSUME Resets PROVE target'[u].st = "none"
    BY <2>1, EmptyTyped DEF Resets, Complete, DropRow
  <2> QED
    BY <2>1
<1>3. ASSUME NEW w \in Workers, RecordSent(w), TargetMatches(w), at[w] = u
      PROVE  InFlight(m)' \/ m \in lost'
  <2>1. pc[w] = "sent" /\ UNCHANGED <<row, queue, lost, job>>
    BY <1>3 DEF RecordSent
  <2>2. seen[w][at[w]].st # "none"
    BY <2>1 DEF PhaseInv, Listed, List, Pointing
  <2>3. row.edit = mine[w].edit
    BY <1>3, <2>2 DEF TargetMatches, TargetOf, NoTarget
  <2>4. m = [edit |-> mine[w].edit, user |-> at[w]]
    BY <1>3, <2>1, <2>3
  <2>5. InFlight(m) \/ m \in lost
    BY <1>3, <2>1, <2>4 DEF Sent
  <2> QED
    BY <2>1, <2>5 DEF InFlight
<1>4. CASE target[u].st = "delivered" /\ ~target[u].due
  <2>1. row.phase \notin {"none", "intent"}
    BY <1>4 DEF NoTargetsYet
  <2>2. row'.edit = row.edit
    BY <1>1, <1>2, <2>1, PhaseMoves DEF SamePhase, NewRow, NextPhase, Resets
  <2>3. row.edit \in Edits
    BY <1>1, <2>1, OutboxConstants DEF RowShape, TypeOK, Row, Edits
  <2>4. m = [edit |-> row.edit, user |-> u] /\ m \in Message
    BY <2>2, <2>3 DEF Message
  <2>5. InFlight(m) \/ m \in lost
    BY <1>4, <2>4 DEF DeliveredIsUnderWay
  <2>6. ASSUME NEW c \in Consumers, Confirm(c) \/ MarkDue(c), job[c] = m PROVE FALSE
    BY <1>1, <1>4, <2>4, <2>6, HandledShows DEF Awaiting
  <2> QED
    BY <1>1, <1>2, <2>4, <2>5, <2>6, FlightEnds
<1> QED
  BY <1>1, <1>2, <1>3, <1>4, TargetMoves

-----------------------------------------------------------------------------
(* The inductive invariant and what follows from it.                       *)

IInv == /\ TypeInv /\ Copies /\ Stages /\ LastPhase /\ Listed
        /\ NoTargetsYet /\ NoneIsNew /\ Published /\ Rebuilt /\ Confirming
        /\ AggregatesDebt /\ ProfileDebt /\ Sent
        /\ DirtyIsOwed /\ DeliveredIsUnderWay

LEMMA InvInit == Init => IInv
<1> SUFFICES ASSUME Init PROVE IInv
  OBVIOUS
<1>1. TypeInv
  BY TypeInit
<1>2. /\ \A w \in Workers : pc[w] = "idle"
      /\ \A u \in Users : target[u].st = "none" /\ target[u].rev = 0
      /\ \A u \in Users : wanted[u] = 0 /\ derived[u] = 0 /\ built[u] = 0
      /\ \A c \in Consumers : cpc[c] = "idle" /\ job[c] = NoMessage
      /\ dirty = FALSE
  BY DEF Init, NoTargets, NoTarget
<1>3. Copies /\ Stages /\ LastPhase /\ Listed /\ Rebuilt /\ Sent
  BY <1>2 DEF Copies, Copy, Stages, Stage, LastPhase, Listed, List, Rebuilt, Sent,
     Relaying, Listing, Pointing
<1>4. /\ NoTargetsYet /\ NoneIsNew /\ Confirming /\ AggregatesDebt /\ ProfileDebt
      /\ DirtyIsOwed /\ DeliveredIsUnderWay
  BY <1>2 DEF NoTargetsYet, NoneIsNew, Confirming, AggregatesDebt, ProfileDebt, DirtyIsOwed,
     DeliveredIsUnderWay
<1>5. Published
  <2>1. ASSUME NEW m \in Message PROVE ~InFlight(m)
    BY <1>2 DEF InFlight, Init, Message, NoMessage, Edits
  <2> QED
    BY <2>1 DEF Published
<1> QED
  BY <1>1, <1>3, <1>4, <1>5 DEF IInv

LEMMA InvNext == IInv /\ [Next]_vars => IInv'
BY TypeNext, CopiesNext, StagesNext, LastNext, ListedNext, NoTargetsNext, NoneIsNewNext,
   PublishedNext, RebuiltNext, ConfirmingNext, AggregatesNext, ProfileNext, SentNext,
   DirtyNext, DeliveredNext DEF IInv, PhaseInv

LEMMA InvAlways == Spec => []IInv
BY InvInit, InvNext, PTL DEF Spec

\* The variables keep their types: a revision is a number, a phase one of the
\* eight, a worker's copies are rows and targets.
THEOREM TypeCorrect == Spec => []TypeOK
<1>1. IInv => TypeOK
  BY DEF IInv, TypeInv
<1> QED
  BY <1>1, InvAlways, PTL

\* No profile built from facts older than a row's edit is forgotten: the row is
\* there and the user's target is neither missing nor consumed, whatever writers
\* go round the row.  Those whom such a writer itself, or the deletion of the row
\* by an analysis, leaves stale are excused until their next build or edit
\* (ProcessAnalyze, problem.go:1687-1693).
THEOREM StaleProfileOwed == Spec => []StaleProfileIsOwed
<1>1. IInv => StaleProfileIsOwed
  BY DEF IInv, ProfileDebt, StaleProfileIsOwed, Present, Tails
<1> QED
  BY <1>1, InvAlways, PTL

\* No aggregates that lack a row's edit leave the pending list unrebuilt, with
\* the same people excused (PrepareTargets, AdvanceTarget of problem_edit.go).
THEOREM StaleAggregatesKept == Spec => []StaleAggregatesArePending
<1>1. IInv => StaleAggregatesArePending
  BY DEF IInv, AggregatesDebt, StaleAggregatesArePending
<1> QED
  BY <1>1, InvAlways, PTL

\* A mark that outlives its row was stranded by an analysis that deleted the row
\* after its worker had set it; no worker that lost the row sets it, and a row
\* that ends in the tail has cleared it (markProblemFactsDirty).
THEOREM DirtyOwed == Spec => []DirtyIsOwed
<1>1. IInv => DirtyIsOwed
  BY DEF IInv
<1> QED
  BY <1>1, InvAlways, PTL

\* A target waits for its consumer only while a message for it is under way,
\* or one was lost.
THEOREM DeliveredUnderWay == Spec => []DeliveredIsUnderWay
<1>1. IInv => DeliveredIsUnderWay
  BY DEF IInv
<1> QED
  BY <1>1, InvAlways, PTL

-----------------------------------------------------------------------------
(* The promise of ProblemEdits.  The row tells which users its edit        *)
(* concerns, its phase how far the edit is (PhaseMoves), and the debts     *)
(* that none is left when the row is deleted.                              *)

HardTold == Present => (row.hard <=> row.edit \in HardEdits)

EInv == IInv /\ HardTold

LEMMA HardNext ==
  ASSUME IInv, HardTold, [Next]_vars
  PROVE  HardTold'
<1>1. CASE NewRow
  <2>1. /\ row' = [NoRow EXCEPT !.edit = edits + 1, !.phase = "intent", !.rev = 1,
                                !.hard = edits' \in HardEdits]
        /\ edits' = edits + 1
    BY <1>1 DEF NewRow, Request
  <2>2. row'.edit = edits' /\ row'.hard = (edits' \in HardEdits)
    BY <2>1 DEF NoRow
  <2> QED BY <2>2 DEF HardTold
<1>2. CASE SameRow \/ NextRow \/ LostRow
  BY <1>2 DEF SameRow, NextRow, LostRow, HardTold, Present
<1> QED BY <1>1, <1>2, RowMoves DEF IInv

LEMMA EInvAlways == Spec => []EInv
<1>1. Init => EInv
  BY InvInit DEF EInv, Init, HardTold, Present, NoRow
<1>2. EInv /\ [Next]_vars => EInv'
  BY InvNext, HardNext DEF EInv
<1> QED BY <1>1, <1>2, PTL DEF Spec

LEMMA EditInit == Init => E!Init
<1> SUFFICES ASSUME Init PROVE E!Init
  OBVIOUS
<1>1. row.edit = 0 /\ row.phase = "none" /\ edits = 0
  BY DEF Init, NoRow
<1>2. wanted = E!None /\ derived = E!None /\ built = E!None /\ excused = {}
  BY DEF Init, E!None
<1> QED BY <1>1, <1>2 DEF E!Init

\* A step that leaves the row's edit and phase as they are may still bring
\* the aggregates or the profile of a user up to date, or write round the row.
LEMMA EditIdles ==
  ASSUME EInv, [Next]_vars, SamePhase
  PROVE  E!Next \/ UNCHANGED E!vars
<1>t. TypeInv /\ Copies /\ Stages
  BY DEF EInv, IInv
<1>1. row'.edit = row.edit /\ row'.phase = row.phase
  BY DEF SamePhase
<1>2. CASE Review \/ Analyze
  <2>1. E!Write
    BY <1>1, <1>2 DEF Review, Analyze, ApplyAIAnalysisResult, Written, E!Write
  <2> QED BY <2>1 DEF E!Next
<1>3. CASE DropRow
  <2>1. ~Present
    BY <1>1, <1>3, EmptyTyped DEF DropRow, Present
  <2> QED BY <1>1, <1>3, <2>1 DEF DropRow, E!vars
<1>4. ASSUME ~Review, ~Analyze PROVE UNCHANGED edits
  <2>1. ~Request
    BY EmptyTyped, RowRequested, <1>t DEF SamePhase, Request, Present, TypeInv
  <2> QED BY <1>4, <2>1, EditsFrame
<1>5. ~\E w \in Workers : ReplaceFacts(w)
  <2>1. ASSUME NEW w \in Workers, ReplaceFacts(w) PROVE FALSE
    <3>1. pc[w] # "idle" /\ Matches(w) /\ mine[w].phase = "intent" /\ AdvancePhase(w, "facts")
      BY <2>1 DEF ReplaceFacts, Running, AdvancePhase
    <3>2. row.phase = "intent"
      BY <3>1, <1>t, MatchPhase
    <3>3. row' = [row EXCEPT !.phase = "facts", !.rev = @ + 1] /\ row \in Row
      BY <3>1, <1>t DEF AdvancePhase, TypeInv, TypeOK
    <3>4. row'.phase = "facts"
      BY <3>3 DEF Row
    <3> QED BY <3>2, <3>4 DEF SamePhase
  <2> QED BY <2>1
<1>6. ASSUME NEW w \in Workers, Rebuild(w) PROVE E!Next
  <2>1. FirstOf(w) \in Users
    BY <1>6 DEF Rebuild, FirstOf, Todo
  <2>2. E!Refresh(FirstOf(w))
    BY <1>1, <1>6 DEF Rebuild, E!Refresh
  <2> QED BY <2>1, <2>2 DEF E!Next
<1>7. ASSUME NEW c \in Consumers, Build(c) PROVE E!Next
  <2>1. job[c].user \in Users
    BY <1>7, <1>t DEF Build, TypeInv, Handling, Message
  <2>2. E!Build(job[c].user)
    BY <1>1, <1>7 DEF Build, E!Build
  <2> QED BY <2>1, <2>2 DEF E!Next
<1>8. ASSUME NEW u \in Users, OtherRefresh(u) \/ OtherBuild(u) PROVE E!Next
  <2>1. E!Refresh(u) \/ E!Build(u)
    BY <1>1, <1>8 DEF OtherRefresh, OtherBuild, E!Refresh, E!Build
  <2> QED BY <2>1 DEF E!Next
<1>9. CASE UNCHANGED <<edits, wanted, derived, built, excused>>
  BY <1>1, <1>9 DEF E!vars
<1> QED
  BY <1>2, <1>3, <1>4, <1>5, <1>6, <1>7, <1>8, <1>9, WantedFrame, DerivedFrame, BuiltFrame,
     ExcusedFrame

LEMMA EditSettled ==
  ASSUME EInv, NEW w \in Workers, Complete(w), LostRow, row.phase = "cache_tail_done"
  PROVE  E!Settle
<1>1. \A u \in Users : target[u].st \in {"none", "consumed"}
  BY DEF Complete, AllConsumed, TargetOf, Matches, RevisionMatches
<1>2. \A u \in Users \ excused : E!Shows(u)
  BY <1>1 DEF EInv, IInv, AggregatesDebt, ProfileDebt, E!Shows
<1>3. UNCHANGED <<edits, wanted, derived, built, excused>>
  BY DEF Complete
<1> QED BY <1>2, <1>3 DEF E!Settle, LostRow

LEMMA EditReplaced ==
  ASSUME EInv, NEW w \in Workers, ReplaceFacts(w), NextPhase("intent", "facts")
  PROVE  E!Replace
<1>1. row.edit # 0 /\ Concerned(row) = E!Concerned
  BY DEF EInv, IInv, TypeInv, RowShape, NextPhase, HardTold, Present, Concerned, E!Concerned
<1>2. /\ wanted' = [u \in Users |-> IF u \in Concerned(row) THEN row.edit ELSE wanted[u]]
      /\ excused' = excused \ Concerned(row) /\ UNCHANGED <<edits, derived, built>>
  BY DEF ReplaceFacts
<1> QED BY <1>1, <1>2 DEF E!Replace, NextPhase

LEMMA EditNext ==
  ASSUME EInv, [Next]_vars
  PROVE  [E!Next]_(E!vars)
<1>t. TypeInv /\ Copies /\ Stages
  BY DEF EInv, IInv
<1>s. row.phase = "none" <=> row.edit = 0
  BY <1>t DEF TypeInv, RowShape
<1>1. CASE SamePhase
  BY <1>1, EditIdles
<1>2. CASE NewRow /\ UNCHANGED <<target, dirty, facts, messages, consumer>>
  <2>1. edits' = edits + 1
    BY <1>2 DEF NewRow, Request
  <2>2. E!Ask
    BY <1>s, <1>2, <2>1 DEF E!Ask, NewRow
  <2> QED BY <2>2 DEF E!Next
<1>3. CASE LostRow /\ row.phase = "intent" /\ UNCHANGED <<target, dirty, facts, messages, consumer>>
  <2>1. UNCHANGED edits
    BY <1>3, EditsFrame DEF Request, Present, Review, Analyze, ApplyAIAnalysisResult, LostRow
  <2>2. E!Refuse
    BY <1>s, <1>3, <2>1 DEF E!Refuse, LostRow
  <2> QED BY <2>2 DEF E!Next
<1>4. CASE LostRow /\ row.phase = "cache_tail_done" /\ \E w \in Workers : Complete(w)
  BY <1>4, EditSettled DEF E!Next
<1>5. CASE \E w \in Workers : ReplaceFacts(w) /\ NextPhase("intent", "facts")
  BY <1>5, EditReplaced DEF E!Next
<1>6. ASSUME NEW p, NEW q, NextPhase(p, q), UNCHANGED <<edits, facts>>,
             p \notin {"none", "intent"}, q \notin {"none", "intent"}
      PROVE  UNCHANGED E!vars
  BY <1>6 DEF E!vars, NextPhase
<1>7. ASSUME NEW w \in Workers,
             \/ RefreshModel(w) /\ NextPhase("facts", "model_ready")
             \/ PrepareTargets(w) /\ ( \/ NextPhase("facts", "targets_ready")
                                       \/ NextPhase("model_ready", "targets_ready"))
             \/ StageTargets(w) /\ NextPhase("targets_ready", "derived_ready")
             \/ Advance(w) /\ NextPhase("derived_ready", "fence_finalized")
             \/ ClearDirty(w) /\ NextPhase("fence_finalized", "dirty_cleared")
             \/ BumpLists(w) /\ NextPhase("dirty_cleared", "cache_tail_done")
      PROVE  UNCHANGED E!vars
  <2>1. UNCHANGED <<edits, facts>>
    BY <1>7 DEF RefreshModel, PrepareTargets, StageTargets, Advance, ClearDirty, BumpLists
  <2> QED BY <1>6, <1>7, <2>1
<1>8. CASE LostRow /\ DropRow
  <2>1. row.edit # 0 /\ Present
    BY <1>s, <1>8 DEF LostRow, Present
  <2>2. excused' = excused \cup {u \in Users : ~E!Shows(u)}
    BY <1>8, <2>1 DEF DropRow, E!Shows
  <2>3. E!Drop
    BY <1>8, <2>1, <2>2 DEF LostRow, DropRow, E!Drop
  <2> QED BY <2>3 DEF E!Next
<1> QED BY <1>t, <1>1, <1>2, <1>3, <1>4, <1>5, <1>7, <1>8, PhaseMoves

\* However many workers drive an edit, lose its row or its fence, and however
\* often its messages come or vanish: its facts are replaced by its row once or
\* not at all, and unless an analysis deletes the row, an edit whose facts are
\* replaced is not undone, and its row goes only when everybody's aggregates and
\* profile show the facts, except for those whom a write round the row or an
\* earlier deletion has left stale since (problem_edit.go, problem.go,
\* ability_maintenance_recovery.go).
THEOREM ImplementsEdits == Spec => EditsKept
<1>1. EInv /\ [Next]_vars => [E!Next]_(E!vars)
  BY EditNext
<1> QED
  BY <1>1, EditInit, EInvAlways, PTL DEF Spec, EditsKept, E!Spec

\* With no row, and so when the next edit begins, nobody has stale aggregates
\* or a stale profile but those whom a write round a row, or the deletion of an
\* unfinished row by an analysis, has left so and no build has reached since
\* (problem.go:1687-1693, problem_edit.go:1505-1533).
THEOREM SettledBeforeNext ==
  Spec => [](~Present => \A u \in Users \ excused : derived[u] = wanted[u] /\ built[u] = wanted[u])
<1>1. EInv => (~Present => \A u \in Users \ excused : derived[u] = wanted[u] /\ built[u] = wanted[u])
  BY DEF EInv, IInv, AggregatesDebt, ProfileDebt, Present, Tails
<1> QED
  BY <1>1, EInvAlways, PTL
=============================================================================
