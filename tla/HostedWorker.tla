------------------------------ MODULE HostedWorker ------------------------------
(***************************************************************************)
(* The hosted worker processes (worker/main.py) on top of the job queue.   *)
(*                                                                         *)
(* A process claims a row, runs run_job in a thread of its own while a     *)
(* second thread renews the lease, and then completes or fails the row.    *)
(* It may be told to stop (SIGTERM), be killed at any point, and be        *)
(* started again by its supervisor.  complete_review_job and               *)
(* fail_review_job raise when the row is not owned any more; run_worker    *)
(* does not catch that, so the process dies of it.  WorkerId is any map:   *)
(* main() gives every process the same id (main.py:54, 183), so a process  *)
(* whose lease ran out still passes the ownership test while another one   *)
(* holds the row.                                                          *)
(***************************************************************************)
EXTENDS ReviewQueue

CONSTANTS
    Processes,   \* worker processes
    WorkerId     \* the worker_id each of them passes to the queue

ASSUME WorkerAssumption ==
    /\ WorkerId \in [Processes -> Workers]
    /\ None \notin Deliveries

VARIABLES
    pc,         \* "down", "idle", "busy", or "overrun": the loop is over, the
                \* thread of run_job still executes (main.py:157-161)
    job,        \* the row the job thread works on
    renewing,   \* processes whose renewal thread is alive
    stopping,   \* processes whose stop event is set
    outlived    \* history: rows whose lease ran out under a waiting process,
                \* until nobody waits for them and they are claimed afresh

workerVars == <<pc, job, renewing, stopping, outlived>>
wvars == <<vars, workerVars>>

\* The state of a process, and which threads exist in it: a job thread while a
\* job is worked on, a renewal thread only while the loop waits for the job
\* (start_lease_renewal is stopped on every way out, main.py:95).
WorkerTypeOK ==
    /\ pc \in [Processes -> {"down", "idle", "busy", "overrun"}]
    /\ job \in [Processes -> Deliveries \cup {None}]
    /\ \A p \in Processes : job[p] # None <=> pc[p] \in {"busy", "overrun"}
    /\ renewing \subseteq {p \in Processes : pc[p] = "busy"}
    /\ stopping \subseteq Processes
    /\ outlived \subseteq Deliveries

WInit ==
    /\ Init
    /\ pc = [p \in Processes |-> "down"]
    /\ job = [p \in Processes |-> None]
    /\ renewing = {}
    /\ stopping = {}
    /\ outlived = {}

\* The ownership test of the queue's statements: the row names the worker id.
Owns(p) == OwnedByWorker(WorkerId[p], job[p])

\* The loop of process p waits for the job thread of row j.
Waits(p, j) == pc[p] = "busy" /\ job[p] = j

\* The process is gone, or back at the top of its loop.
Leave(p, where) ==
    /\ pc' = [pc EXCEPT ![p] = where]
    /\ job' = [job EXCEPT ![p] = None]
    /\ renewing' = renewing \ {p}
    /\ UNCHANGED outlived

\* The supervisor starts the process (main).
StartProcess(p) ==
    /\ pc[p] = "down"
    /\ Leave(p, "idle")
    /\ stopping' = stopping \ {p}
    /\ UNCHANGED vars

\* SIGTERM or SIGINT sets the stop event; an idle loop ends.
StopSignal(p) ==
    /\ pc[p] \in {"idle", "busy"}
    /\ p \notin stopping
    /\ stopping' = stopping \cup {p}
    /\ \/ pc[p] = "busy" /\ UNCHANGED <<pc, job, renewing, outlived>>
       \/ pc[p] = "idle" /\ Leave(p, "down")
    /\ UNCHANGED vars

\* The process is killed: every thread of it ends, the row stays as it is.
KillProcess(p) ==
    /\ pc[p] # "down"
    /\ Leave(p, "down")
    /\ stopping' = stopping \ {p}
    /\ UNCHANGED vars

\* store.claim found a row: both threads start (main.py:65-86).
ClaimAndRun(p, j) ==
    /\ pc[p] = "idle"
    /\ WorkerClaim(WorkerId[p], j)
    /\ pc' = [pc EXCEPT ![p] = "busy"]
    /\ job' = [job EXCEPT ![p] = j]
    /\ renewing' = renewing \cup {p}
    /\ outlived' = IF \E q \in Processes : Waits(q, j) THEN outlived ELSE outlived \ {j}
    /\ UNCHANGED stopping

\* One round of the renewal thread: on any error it sets the job's stop event
\* and is over (main.py:114-122).  Stopping sets the same event (155).
RenewalRound(p) ==
    /\ pc[p] = "busy"
    /\ p \in renewing \ stopping
    /\ \/ /\ RenewReviewJobLease(WorkerId[p], job[p])
          /\ UNCHANGED renewing
       \/ /\ ~(Owns(p) /\ LeaseLive(job[p]))
          /\ renewing' = renewing \ {p}
          /\ UNCHANGED vars
    /\ UNCHANGED <<pc, job, stopping, outlived>>

\* store.complete or store.fail raised: nothing catches it.
DiesOfLostLease(p) ==
    /\ ~Owns(p)
    /\ Leave(p, "down")
    /\ UNCHANGED <<vars, stopping>>

\* run_job returned: complete, or fail with SHUTDOWN_REQUESTED when stopping.
JobReturns(p) ==
    /\ pc[p] = "busy"
    /\ \/ /\ p \notin stopping
          /\ CompleteReviewJob(WorkerId[p], job[p])
          /\ Leave(p, "idle")
          /\ UNCHANGED stopping
       \/ /\ p \in stopping
          /\ FailReviewJob(WorkerId[p], job[p])
          /\ Leave(p, "down")
          /\ UNCHANGED stopping
       \/ DiesOfLostLease(p)

\* run_job raised: fail with WORKER_CRASHED.  While the stop event is set an
\* error of the job is not looked at (main.py:154-162), which is JobReturns.
JobRaises(p) ==
    /\ pc[p] = "busy"
    /\ p \notin stopping
    /\ \/ /\ FailReviewJob(WorkerId[p], job[p])
          /\ Leave(p, "idle")
          /\ UNCHANGED stopping
       \/ DiesOfLostLease(p)

\* The job outlives the shutdown deadline: TimeoutError, then store.fail in the
\* except clause, then the loop ends.  The job thread is not a daemon thread and
\* goes on executing.
ShutdownDeadline(p) ==
    /\ pc[p] = "busy"
    /\ p \in stopping
    /\ \/ FailReviewJob(WorkerId[p], job[p])
       \/ ~Owns(p) /\ UNCHANGED vars
    /\ pc' = [pc EXCEPT ![p] = "overrun"]
    /\ renewing' = renewing \ {p}
    /\ UNCHANGED <<job, stopping, outlived>>

\* The thread that outlived the loop ends, and the process with it.
OverrunEnds(p) ==
    /\ pc[p] = "overrun"
    /\ Leave(p, "down")
    /\ UNCHANGED <<vars, stopping>>

\* Time: a lease that runs out under a waiting process is noted.
WorkerTick ==
    /\ Tick
    /\ outlived' = outlived \cup {j \in Deliveries :
                                 /\ \E p \in Processes : Waits(p, j)
                                 /\ jobs'[j].status = "running" /\ jobs'[j].locked_for = 0}
    /\ UNCHANGED <<pc, job, renewing, stopping>>

WNext ==
    \/ Webhook /\ UNCHANGED workerVars
    \/ (\E j \in Deliveries : RequeueReviewJob(j)) /\ UNCHANGED workerVars
    \/ WorkerTick
    \/ \E p \in Processes :
          \/ StartProcess(p)
          \/ StopSignal(p)
          \/ KillProcess(p)
          \/ \E j \in Deliveries : ClaimAndRun(p, j)
          \/ RenewalRound(p)
          \/ JobReturns(p)
          \/ JobRaises(p)
          \/ ShutdownDeadline(p)
          \/ OverrunEnds(p)

WSpec == WInit /\ [][WNext]_wvars

-----------------------------------------------------------------------------

\* Two processes wait for the same job only if its lease ran out under one of them,
\* whatever ids they use and whatever kills, restarts, failures and renewals there were
\* since (worker/main.py).
ExclusiveWhileBusy ==
    \A p \in Processes : \A q \in Processes : \A j \in Deliveries :
        p # q /\ Waits(p, j) /\ Waits(q, j) => j \in outlived

\* A job that is waited for, and whose lease has not run out, is not given away: its
\* row is running and names the worker, or a webhook retired it.
BusyOwnsItsRow ==
    \A p \in Processes :
        pc[p] = "busy" /\ job[p] \notin outlived =>
            Owns(p) \/ jobs[job[p]].status \in {"superseded", "cancelled"}

\* The inductive form of BusyOwnsItsRow: while the lease has not run out the row
\* is running, names the worker and cannot be claimed, or a webhook retired it.
BusyUnderLease ==
    \A p \in Processes :
        pc[p] = "busy" /\ job[p] \notin outlived =>
            \/ Owns(p) /\ jobs[job[p]].locked_for # 0
            \/ jobs[job[p]].status \in {"superseded", "cancelled"}

-----------------------------------------------------------------------------

\* The thread working on row j comes to its end and reports in time.
JobEnds(j) ==
    \E p \in Processes : job[p] = j /\ Owns(p) /\ (JobReturns(p) \/ JobRaises(p))

\* The clock runs, the supervisor restarts processes and lets them poll, and a
\* job that is started again and again comes at some time to its end before its
\* process is killed or its lease lost.
WFairSpec ==
    /\ WSpec
    /\ WF_wvars(WorkerTick)
    /\ \A p \in Processes :
          /\ WF_wvars(StartProcess(p))
          /\ WF_wvars(OverrunEnds(p))
    /\ SF_wvars(\E p \in Processes, j \in Deliveries : ClaimAndRun(p, j))
    /\ \A j \in Deliveries : SF_wvars(JobEnds(j))

\* A claimed row does not stay running forever, although processes die holding
\* it: the lease runs out, somebody claims it again and brings it to an end.
RunningEnds ==
    \A j \in Deliveries : (jobs[j].status = "running") ~> (jobs[j].status # "running")
================================================================================
