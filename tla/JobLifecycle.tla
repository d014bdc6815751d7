---------------------------- MODULE JobLifecycle ----------------------------
(***************************************************************************)
(* What the queue promises of each review job, without rows, locks, clocks *)
(* or requests in flight: whose report the job would accept now.           *)
(*                                                                         *)
(* A job that is claimed has one reporter, the worker or the runner's      *)
(* lease of the last claim.  A lease is never taken away while it is good, *)
(* and once it has stopped being good it never is again: it ran out, the   *)
(* job was retired or reported, or somebody else claimed the job.          *)
(***************************************************************************)
CONSTANTS
    Jobs,       \* the review jobs
    Workers,    \* hosted workers, whose right to report does not run out
    Leases      \* leases that can be handed to runners

VARIABLE job    \* the state of each job

State == [phase: {"absent", "pending", "running", "succeeded", "failed",
                  "superseded", "cancelled"},
          reporters: SUBSET (Workers \cup Leases),  \* whose report would count
          given: SUBSET Leases,                     \* leases handed out so far
          results: SUBSET Leases]                   \* leases that reported

Absent == [phase |-> "absent", reporters |-> {}, given |-> {}, results |-> {}]

Queued(s, t) == s.phase = "absent" /\ t = [s EXCEPT !.phase = "pending"]

Free(s) ==
    \/ s.phase = "pending"
    \/ s.phase = "running" /\ s.reporters \cap Leases = {}

ClaimedByWorker(s, t) ==
    /\ Free(s)
    /\ \E w \in Workers : t = [s EXCEPT !.phase = "running", !.reporters = {w}]

\* A lease is a new one.
ClaimedByRunner(s, t) ==
    /\ Free(s)
    /\ \E l \in Leases \ s.given :
          t = [s EXCEPT !.phase = "running", !.reporters = {l}, !.given = @ \cup {l}]

LeaseRunsOut(s, t) ==
    s.phase = "running" /\ t = [s EXCEPT !.reporters = @ \ Leases]

ReportedByWorker(s, t) ==
    /\ s.phase = "running" /\ s.reporters \cap Workers # {}
    /\ \E phase \in {"succeeded", "failed", "pending"} :
          t = [s EXCEPT !.phase = phase, !.reporters = {}]

\* Two results of one job have a requeue between them.
ReportedByRunner(s, t) ==
    /\ s.phase = "running"
    /\ \E l \in s.reporters \cap Leases, phase \in {"succeeded", "failed"} :
          t = [s EXCEPT !.phase = phase, !.reporters = {}, !.results = @ \cup {l}]

Retired(s, t) ==
    /\ s.phase \in {"pending", "running"}
    /\ \E phase \in {"superseded", "cancelled"} :
          t = [s EXCEPT !.phase = phase, !.reporters = {}]

Requeued(s, t) == s.phase = "failed" /\ t = [s EXCEPT !.phase = "pending"]

JobStep(s, t) ==
    \/ Queued(s, t) \/ ClaimedByWorker(s, t) \/ ClaimedByRunner(s, t)
    \/ LeaseRunsOut(s, t) \/ ReportedByWorker(s, t) \/ ReportedByRunner(s, t)
    \/ Retired(s, t) \/ Requeued(s, t)

JobInit == job = [j \in Jobs |-> Absent]

\* The clock and a push move several jobs in one step.
JobNext ==
    /\ job' \in [Jobs -> State]
    /\ \A j \in Jobs : job'[j] = job[j] \/ JobStep(job[j], job'[j])

JobSpec == JobInit /\ [][JobNext]_job
=============================================================================
