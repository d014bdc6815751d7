---------------------------- MODULE MCRunnerDaemon ----------------------------
(* Instances of RunnerDaemon for TLC.                                      *)
EXTENDS RunnerDaemon, TLC

CONSTANT repo1

MCRepoOf == [p \in Pulls |-> repo1]

Symmetric == Permutations(Deliveries) \cup Permutations(Pulls) \cup Permutations(Tokens)
===============================================================================
