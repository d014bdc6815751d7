---------------------------- MODULE MCHostedWorker ----------------------------
(* Instances of HostedWorker for TLC.                                      *)
EXTENDS HostedWorker

CONSTANTS repo1, worker_python
MCRepoOf == [p \in Pulls |-> repo1]
SharedId == [p \in Processes |-> worker_python]   \* main.py:54, 183
===============================================================================
