---------------------------- MODULE SubmitLedger ----------------------------
(***************************************************************************)
(* What the ingestion promises to those who read a user's submissions and  *)
(* counts on one platform, however many crawls run, overlap, fail or die:  *)
(* a submission is counted once, in the step that stores it; its verdict   *)
(* is one that the OJ has shown, and an accepted one is never taken back:  *)
(* a decided verdict changes only from WA to AC, and only where the        *)
(* platform corrects its verdicts (QOJ); nothing ever disappears except by *)
(* a rebind or a purge.  While the write lock can be trusted, those leave  *)
(* no row and no count behind, nothing that a crawl read before a rebind   *)
(* began is stored after that rebind, and no marker either.  Without it    *)
(* what an import commits while they run may survive.                      *)
(***************************************************************************)
EXTENDS Integers, FiniteSets

CONSTANTS Submits, Accounts, FinalVerdict, Corrects,
          Trusted     \* nothing but its holder's death frees the write lock

VARIABLES
  account,         \* the bound OJ user name
  rows, outcome,   \* the stored submissions and their verdicts
  born,            \* the generation under which a row was fetched
  total, accepted, \* the counts
  mark,            \* the generation of the full-import marker, or -1
  era              \* the generation of the last rebind

vars == <<account, rows, outcome, born, total, accepted, mark, era>>

Correctable(s) == Corrects /\ FinalVerdict[s] = "ac"
Shown(s) == {"pending", FinalVerdict[s]} \cup (IF Correctable(s) THEN {"wa"} ELSE {})

Empty ==
  /\ rows' \subseteq rows
  /\ \A s \in Submits :
       IF s \in rows'
       THEN outcome'[s] = outcome[s] /\ born'[s] = born[s]
       ELSE outcome'[s] = "pending" /\ born'[s] = 0
  /\ total' \in 0..total /\ accepted' \in 0..accepted
  /\ Trusted => rows' = {} /\ total' = 0 /\ accepted' = 0

Init ==
  /\ account \in Accounts
  /\ rows = {} /\ total = 0 /\ accepted = 0 /\ mark = -1 /\ era = 0
  /\ outcome = [s \in Submits |-> "pending"]
  /\ born = [s \in Submits |-> 0]

\* New rows with what the judge had said of them when they were fetched.
Add(S) ==
  /\ S \cap rows = {} /\ rows' = rows \cup S
  /\ \A s \in Submits :
       IF s \in S
       THEN /\ outcome'[s] \in Shown(s)
            /\ Trusted => born'[s] >= era
       ELSE outcome'[s] = outcome[s] /\ born'[s] = born[s]
  /\ total' = total + Cardinality(S)
  /\ accepted' = accepted + Cardinality({s \in S : outcome'[s] = "ac"})
  /\ UNCHANGED <<account, mark, era>>

Learn(s) ==
  /\ s \in rows
  /\ \E v \in Shown(s) \ {"pending"} :
       /\ outcome[s] = "pending" \/ (Correctable(s) /\ outcome[s] = "wa" /\ v = "ac")
       /\ outcome' = [outcome EXCEPT ![s] = v]
       /\ accepted' = IF v = "ac" THEN accepted + 1 ELSE accepted
  /\ UNCHANGED <<account, rows, born, total, mark, era>>

MarkComplete ==
  /\ mark' \in Nat /\ (Trusted => mark' >= era)
  /\ UNCHANGED <<account, rows, outcome, born, total, accepted, era>>

Rebind(a) ==
  /\ account' = a /\ Empty
  /\ mark' \in {mark, -1} /\ (Trusted => mark' = -1)
  /\ era' \in Nat /\ (Trusted => era' > era)

Purge == Empty /\ UNCHANGED <<account, mark, era>>

Next ==
  \/ \E S \in SUBSET Submits : Add(S)
  \/ \E s \in Submits : Learn(s)
  \/ MarkComplete
  \/ \E a \in Accounts : Rebind(a)
  \/ Purge

Spec == Init /\ [][Next]_vars
=============================================================================
