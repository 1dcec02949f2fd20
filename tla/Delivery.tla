------------------------------ MODULE Delivery ------------------------------
(***************************************************************************)
(* What a queue served by mqconsume promises about the messages that pass  *)
(* through it, whatever connections, processes and handlers do: a message  *)
(* whose producer was told "published" leaves the queue only once it is    *)
(* settled, that is once its handler has succeeded or it has been given up *)
(* after MaxRetry + 1 failures and, where the consumer keeps a durable     *)
(* recovery, after that recovery was recorded.  Duplicates are allowed.    *)
(***************************************************************************)
EXTENDS Naturals

CONSTANTS Body,        \* messages, by what they ask for
          MaxRetry,    \* Options.MaxRetry
          HasRecovery  \* Options.OnExhausted is set

VARIABLES
  present,    \* messages of which the broker holds a copy
  promised,   \* messages whose producer got a nil error
  handled,    \* messages a handler has finished
  givenUp,    \* messages that were discarded
  recovered,  \* messages whose durable recovery was recorded
  fails       \* [Body -> failures of the handler]

vars == <<present, promised, handled, givenUp, recovered, fails>>

Settled == handled \cup givenUp
Exhausted(b) == fails[b] > MaxRetry

Init ==
  /\ present = {} /\ promised = {}
  /\ handled = {} /\ givenUp = {} /\ recovered = {}
  /\ fails = [b \in Body |-> 0]

\* A copy reaches the broker, for the first time or again.
Arrive(b) ==
  /\ present' = present \cup {b}
  /\ UNCHANGED <<promised, handled, givenUp, recovered, fails>>

Promise(b) ==
  /\ b \in present \cup Settled
  /\ promised' = promised \cup {b}
  /\ UNCHANGED <<present, handled, givenUp, recovered, fails>>

Handle(b) ==
  /\ handled' = handled \cup {b}
  /\ UNCHANGED <<present, promised, givenUp, recovered, fails>>

Fail(b) ==
  /\ fails' = [fails EXCEPT ![b] = @ + 1]
  /\ UNCHANGED <<present, promised, handled, givenUp, recovered>>

Recover(b) ==
  /\ Exhausted(b)
  /\ recovered' = recovered \cup {b}
  /\ UNCHANGED <<present, promised, handled, givenUp, fails>>

\* The discarded copy may be the last one.
GiveUp(b) ==
  /\ b \in present
  /\ Exhausted(b)
  /\ HasRecovery => b \in recovered
  /\ givenUp' = givenUp \cup {b}
  /\ present' \in {present, present \ {b}}
  /\ UNCHANGED <<promised, handled, recovered, fails>>

\* The last copy of a settled message is acknowledged.
Leave(b) ==
  /\ b \in Settled
  /\ present' = present \ {b}
  /\ UNCHANGED <<promised, handled, givenUp, recovered, fails>>

Next == \E b \in Body :
  \/ Arrive(b) \/ Promise(b)
  \/ Handle(b) \/ Fail(b) \/ Recover(b)
  \/ GiveUp(b) \/ Leave(b)

Spec == Init /\ [][Next]_vars
=============================================================================
