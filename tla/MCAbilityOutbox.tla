--------------------------- MODULE MCAbilityOutbox ---------------------------
(* Two users, one of whom solved the problem; of two replacements the first *)
(* is easy and the second hard, and either may go round the row.            *)
EXTENDS AbilityOutbox, TLC

MCSymmetry == Permutations(Workers)
=============================================================================
