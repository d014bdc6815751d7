---------------------------- MODULE MCDaemonLeases ----------------------------
(***************************************************************************)
(* A daemon, a second job and a competing hosted worker are too many       *)
(* states together.  A behaviour does without the worker or without the    *)
(* second delivery.                                                        *)
(***************************************************************************)
EXTENDS MCRunnerDaemon

VARIABLE without

MCInit == DInit /\ without \in {"worker", "second_delivery"}

MCNext ==
    /\ DNext
    /\ without = "worker" => \A j \in Deliveries : jobs'[j].locked_by \notin Workers
    /\ without = "second_delivery" => \E j \in Deliveries : j \notin deliveries'
    /\ UNCHANGED without

MCSpec == MCInit /\ [][MCNext]_<<dvars, without>>
===============================================================================
