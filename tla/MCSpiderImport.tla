--------------------------- MODULE MCSpiderImport ---------------------------
EXTENDS SpiderImport, TLC

CONSTANTS a1, a2, s1, s2, c1, c2

\* One submission of each account: an accepted and a rejected one.
MCOwnerSmall == (s1 :> a1) @@ (s2 :> a2)
MCVerdictSmall == (s1 :> "ac") @@ (s2 :> "wa")

\* Both of one account.
MCOwnerBoth == (s1 :> a1) @@ (s2 :> a1)

MCOwnerOne == s1 :> a1
MCVerdictOne == s1 :> "ac"

CrawlerSymmetry == Permutations(Crawlers)
=============================================================================
