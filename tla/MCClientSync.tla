---------------------------- MODULE MCClientSync ----------------------------
(* The instance of ClientSync for TLC; the .cfg files give the constants. *)
EXTENDS ClientSync, TLC

MCSymmetry == Permutations(Handler)

\* On QOJ a behaviour has a fault or a restarted scan, not both.
MCBound ==
  site = "QOJ" /\ faults > 0 =>
    /\ \A s \in Session : sess[s].restarts = 0 /\ \A r \in receipts[s] : r.scan = 0
    /\ \A h \in Handler : work[h] # Idle => work[h].pc # "restart" /\ work[h].st.restarts = 0
=============================================================================
