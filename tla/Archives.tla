------------------------------ MODULE Archives ------------------------------
(***************************************************************************)
(* What the backups promise to the one who may have to restore, whatever   *)
(* processes trigger, fail, stop or die: an archive is published only as   *)
(* the newest one and deleted only when a newer one is there, so that from *)
(* the first archive on there is always one to restore, and the newest is  *)
(* never lost; a success is reported, and the day marked done, only by the *)
(* run whose archive is the only one left.                                 *)
(***************************************************************************)
EXTENDS Naturals

CONSTANT Runs       \* backup runs, numbered as they start

VARIABLES
  archives, \* runs whose archive can be restored
  named,    \* the run that the reported success names, or 0
  day       \* the day's backup is done

vars == <<archives, named, day>>

Init == archives = {} /\ named = 0 /\ day = FALSE

\* The archive of the newest run, while no success is reported.
Publish(r) ==
  /\ named = 0
  /\ \A q \in archives : q < r
  /\ archives' = archives \cup {r}
  /\ UNCHANGED <<named, day>>

Retire(q) ==
  /\ named = 0
  /\ \E r \in archives : q < r
  /\ archives' = archives \ {q}
  /\ UNCHANGED <<named, day>>

Report(r) ==
  /\ archives = {r}
  /\ named' = r
  /\ UNCHANGED <<archives, day>>

\* The next run, or a process that starts, reports something else.
Withdraw == named' = 0 /\ UNCHANGED <<archives, day>>

CompleteDay(r) ==
  /\ archives = {r} /\ ~day
  /\ day' = TRUE
  /\ UNCHANGED <<archives, named>>

Next ==
  \/ Withdraw
  \/ \E r \in Runs : Publish(r) \/ Retire(r) \/ Report(r) \/ CompleteDay(r)

Spec == Init /\ [][Next]_vars
=============================================================================
