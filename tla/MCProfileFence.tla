--------------------------- MODULE MCProfileFence ---------------------------
EXTENDS ProfileFence, TLC

\* Workers and operations are interchangeable.
MCSymmetry == {p @@ q : p \in Permutations(Workers), q \in Permutations(Ops)}
=============================================================================
