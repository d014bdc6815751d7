---------------------------- MODULE MCReviewQueue ----------------------------
(* Instances of ReviewQueue for TLC.                                       *)
EXTENDS ReviewQueue, TLC

CONSTANT repo1

MCRepoOf == [p \in Pulls |-> repo1]

Symmetric == Permutations(Deliveries) \cup Permutations(Runners)
             \cup Permutations(Tokens) \cup Permutations(Heads)
=============================================================================
