----------------------------- MODULE Maintenance -----------------------------
(***************************************************************************)
(* What durable maintenance promises about an accepted operation, whatever *)
(* processes run, recover or overtake it: it replaces the facts once or    *)
(* not at all; refused, it leaves them alone; having replaced them, it is  *)
(* forgotten only after its tail (the rebuild and the recrawl) was asked   *)
(* for, and the tail is asked for only after the facts were replaced.      *)
(***************************************************************************)
EXTENDS Naturals

CONSTANT Ops        \* operations, each with its own scope and operation id

VARIABLES
  stage,    \* [Ops -> "unasked", "pending", "replaced" or "gone"]
  applied,  \* [Ops -> how often the operation has replaced the facts]
  tailed    \* operations whose tail was asked for

vars == <<stage, applied, tailed>>

Init ==
  /\ stage = [o \in Ops |-> "unasked"]
  /\ applied = [o \in Ops |-> 0]
  /\ tailed = {}

Moves(o, from, to) == stage[o] = from /\ stage' = [stage EXCEPT ![o] = to]

Ask(o) == Moves(o, "unasked", "pending") /\ UNCHANGED <<applied, tailed>>

Replace(o) ==
  /\ Moves(o, "pending", "replaced")
  /\ applied' = [applied EXCEPT ![o] = @ + 1]
  /\ UNCHANGED tailed

Refuse(o) == Moves(o, "pending", "gone") /\ UNCHANGED <<applied, tailed>>

RunTail(o) ==
  /\ stage[o] = "replaced"
  /\ tailed' = tailed \cup {o}
  /\ UNCHANGED <<stage, applied>>

Forget(o) ==
  /\ o \in tailed
  /\ Moves(o, "replaced", "gone")
  /\ UNCHANGED <<applied, tailed>>

Next == \E o \in Ops : Ask(o) \/ Replace(o) \/ Refuse(o) \/ RunTail(o) \/ Forget(o)

Spec == Init /\ [][Next]_vars
=============================================================================
