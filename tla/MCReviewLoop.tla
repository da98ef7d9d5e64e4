---------------------------- MODULE MCReviewLoop ----------------------------
(***************************************************************************)
(* TLC instances of ReviewLoop.                                            *)
(***************************************************************************)
EXTENDS ReviewLoop, TLC

CONSTANTS c1, c2, w1, w2, w3, f1, f2, f3

\* One unscoped controller over two workers with a finding each; f3 is for the operator.
OneReview == [u \in {c1, w1, w2} |-> Unscoped]
OneTarget == (c1 :> {f1, f2, f3})
OneEach == (w1 :> {f1}) @@ (w2 :> {f2})
OneRounds == (c1 :> 2)

\* Two scoped controllers whose targets share the finding f1, a worker of each that repairs it, and
\* a template, w3, that belongs to nobody.  f2 is on no worker's paths: a replacement is minted for it.
TwoReviews == (c1 :> c1) @@ (c2 :> c2) @@ (w1 :> c1) @@ (w2 :> c2) @@ (w3 :> Unscoped)
TwoTargets == (c1 :> {f1, f2}) @@ (c2 :> {f1})
OneShared == [w \in {w1, w2, w3} |-> {f1}]
TwoRounds == (c1 :> 2) @@ (c2 :> 1)
=============================================================================
