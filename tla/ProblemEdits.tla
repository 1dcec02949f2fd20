---------------------------- MODULE ProblemEdits ----------------------------
(***************************************************************************)
(* What an edit of a problem's tags or difficulty promises, whatever       *)
(* worker carries it and whatever becomes of its messages: one open edit   *)
(* at a time; its facts are replaced once, or it is refused and leaves     *)
(* nothing; once they are replaced it cannot be refused any more, and it   *)
(* is settled only when every user it concerns has aggregates and a        *)
(* profile that show the facts.  A new difficulty concerns every user with *)
(* an accepted submission, other edits those who solved the problem.       *)
(*                                                                         *)
(* The promise has two exceptions, and they name whom they excuse: a       *)
(* direct write of the facts, open edit or not, concerns those who solved  *)
(* the problem and promises them nothing; and an open edit may be dropped, *)
(* its debts with it.  A build of the user's profile, or the next edit     *)
(* that concerns him, ends the excuse.                                     *)
(***************************************************************************)
EXTENDS Naturals

CONSTANTS Users, Solvers, HardEdits

VARIABLES
  edits,    \* edits and direct writes asked for
  open,     \* the edit that is not settled yet, or 0
  replaced, \* its facts are replaced
  wanted, derived, built, \* per user: the edit that the facts, the aggregates
                          \* and the profile show
  excused   \* users to whom a difference between these three is not owed

vars == <<edits, open, replaced, wanted, derived, built, excused>>

None == [u \in Users |-> 0]

Init ==
  /\ edits = 0 /\ open = 0 /\ replaced = FALSE
  /\ wanted = None /\ derived = None /\ built = None /\ excused = {}

Shows(u) == derived[u] = wanted[u] /\ built[u] = wanted[u]

Ask ==
  /\ open = 0
  /\ edits' = edits + 1 /\ open' = edits + 1
  /\ UNCHANGED <<replaced, wanted, derived, built, excused>>

Concerned == IF open \in HardEdits THEN Users ELSE Solvers

Replace ==
  /\ open # 0 /\ ~replaced
  /\ replaced' = TRUE
  /\ wanted' = [u \in Users |-> IF u \in Concerned THEN open ELSE wanted[u]]
  /\ excused' = excused \ Concerned
  /\ UNCHANGED <<edits, open, derived, built>>

Refresh(u) ==
  /\ derived' = [derived EXCEPT ![u] = wanted[u]]
  /\ UNCHANGED <<edits, open, replaced, wanted, built, excused>>

Build(u) ==
  /\ derived' = [derived EXCEPT ![u] = wanted[u]]
  /\ built' = [built EXCEPT ![u] = wanted[u]]
  /\ excused' = excused \ {u}
  /\ UNCHANGED <<edits, open, replaced, wanted>>

Refuse ==
  /\ open # 0 /\ ~replaced
  /\ open' = 0
  /\ UNCHANGED <<edits, replaced, wanted, derived, built, excused>>

Settle ==
  /\ replaced /\ \A u \in Users \ excused : Shows(u)
  /\ open' = 0 /\ replaced' = FALSE
  /\ UNCHANGED <<edits, wanted, derived, built, excused>>

\* A write of the facts outside any edit.
Write ==
  /\ edits' = edits + 1
  /\ wanted' = [u \in Users |-> IF u \in Solvers THEN edits + 1 ELSE wanted[u]]
  /\ excused' = excused \cup Solvers
  /\ UNCHANGED <<open, replaced, derived, built>>

\* An open edit is given up at any point.
Drop ==
  /\ open # 0
  /\ open' = 0 /\ replaced' = FALSE
  /\ excused' = excused \cup {u \in Users : ~Shows(u)}
  /\ UNCHANGED <<edits, wanted, derived, built>>

Next ==
  \/ Ask \/ Replace \/ Refuse \/ Settle \/ Write \/ Drop
  \/ \E u \in Users : Refresh(u) \/ Build(u)

Spec == Init /\ [][Next]_vars
=============================================================================
