------------------------------ MODULE ReviewQueue ------------------------------
(***************************************************************************)
(* The hosted job queue of pr_reviewer: the review_jobs table and the      *)
(* statements that queue, lease and retire its rows.                       *)
(*                                                                         *)
(*   webhooks   jobs/enqueue_review_job.py, jobs/cancel_review_job.py      *)
(*   workers    jobs/claim_, complete_, fail_, renew_review_job*.py        *)
(*   runners    control_plane/runner_jobs.py (claim, heartbeat, ack) and   *)
(*              the pairing and revocation of runners that gate them       *)
(*   operators  jobs/requeue_review_job.py                                 *)
(*                                                                         *)
(* Each statement runs in one Postgres transaction that locks the rows it  *)
(* changes, so it is one action.  What is not atomic is kept apart: a      *)
(* runner request is authenticated in one transaction and executed in      *)
(* another (runner_jobs.py:52-119), and anything may happen in between.    *)
(*                                                                         *)
(* A row is named by the delivery that inserted it.  Timestamps are kept   *)
(* as the number of ticks left until them: available_in for available_at,  *)
(* locked_for for locked_until; 0 means "not later than now()".            *)
(***************************************************************************)
EXTENDS Naturals, FiniteSets

CONSTANTS
    Deliveries,     \* GitHub delivery ids, also the names of review_jobs rows
    Pulls,          \* (installation, repository, pull request number)
    Heads,          \* head SHAs
    Repos,          \* (installation, github_repository_id)
    RepoOf,         \* the repository of each pull request
    Workers,        \* worker_id of each hosted worker
    Runners,        \* runner ids
    Tokens,         \* lease tokens that can be minted: bounds the runner claims
    None,           \* SQL null
    MaxAttempts,    \* MAX_REVIEW_JOB_ATTEMPTS
    LeaseTicks,     \* REVIEW_JOB_LEASE_INTERVAL
    RetryTicks,     \* REVIEW_JOB_RETRY_INTERVAL
    MaxInflight     \* bound: runner requests authenticated, not yet executed

ASSUME QueueAssumption ==
    /\ RepoOf \in [Pulls -> Repos]
    /\ Workers \cap Runners = {}
    /\ \A w \in Workers : w \notin [job: Deliveries, runner: Runners, token: Tokens]
    /\ None \notin Pulls \cup Heads \cup Workers \cup Runners \cup Tokens \cup Nat
    /\ MaxAttempts \in Nat \ {0}
    /\ LeaseTicks \in Nat \ {0}
    /\ RetryTicks \in Nat

Active == {"pending", "running"}
Acknowledged == {"succeeded", "failed"}
Final == {"succeeded", "superseded", "cancelled"}
Status == Active \cup Acknowledged \cup Final \cup {"absent"}

Holders == Workers \cup Runners

\* attempts is only ever compared with MaxAttempts, so it saturates above it.
Attempts == 0 .. MaxAttempts + 1

Row == [status: Status,
        pull: Pulls \cup {None},
        head: Heads \cup {None},
        attempts: Attempts,
        available_in: 0 .. RetryTicks,
        locked_by: Holders \cup {None},
        lease_token: Tokens \cup {None},
        locked_for: (0 .. LeaseTicks) \cup {None}]

\* What claim_job hands to a runner: the job and the plaintext lease token.
Lease == [job: Deliveries, runner: Runners, token: Tokens]

\* A request that has passed _authenticate_bearer.
ClaimRequest == [op: {"claim"}, runner: Runners]
HeartbeatRequest == [op: {"heartbeat"}, lease: Lease]
AckRequest == [op: {"ack"}, lease: Lease, result: Acknowledged]
Request == ClaimRequest \cup HeartbeatRequest \cup AckRequest

VARIABLES
    deliveries,   \* github_deliveries: the ids already processed
    jobs,         \* review_jobs
    earlier,      \* earlier[j]: rows before j in (available_at, created_at) order
    registered,   \* runners: every runner ever paired
    revoked,      \* runners with revoked_at set
    assigned,     \* repository_assignments: unique per repository
    inflight,     \* runner requests authenticated and not yet executed
    leases,       \* history: every lease claim_job returned
    lapsed,       \* history: leases whose job has been claimed again since
    landed,       \* agent_events review_job_acknowledged, by the lease that wrote it
    requeued      \* history: rows revived by requeue_review_job

queueVars == <<deliveries, jobs, earlier>>
runnerVars == <<registered, revoked, assigned>>
history == <<leases, lapsed, landed, requeued>>
vars == <<deliveries, jobs, earlier, registered, revoked, assigned, inflight,
          leases, lapsed, landed, requeued>>

TypeOK ==
    /\ deliveries \subseteq Deliveries
    /\ jobs \in [Deliveries -> Row]
    /\ earlier \in [Deliveries -> SUBSET Deliveries]
    /\ registered \subseteq Runners
    /\ revoked \subseteq registered
    /\ assigned \in [Repos -> Runners \cup {None}]
    /\ inflight \subseteq Request
    /\ leases \subseteq Lease
    /\ lapsed \subseteq leases
    /\ landed \subseteq Lease
    /\ requeued \subseteq Deliveries

NoRow == [status |-> "absent", pull |-> None, head |-> None, attempts |-> 0,
          available_in |-> 0, locked_by |-> None, lease_token |-> None,
          locked_for |-> None]

Init ==
    /\ deliveries = {}
    /\ jobs = [d \in Deliveries |-> NoRow]
    /\ earlier = [d \in Deliveries |-> {}]
    /\ registered = {}
    /\ revoked = {}
    /\ assigned = [r \in Repos |-> None]
    /\ inflight = {}
    /\ leases = {}
    /\ lapsed = {}
    /\ landed = {}
    /\ requeued = {}

-----------------------------------------------------------------------------
(* Rows and their order.                                                   *)

Exists(j) == jobs[j].status # "absent"

ActiveOn(j, p) == jobs[j].pull = p /\ jobs[j].status \in Active

\* order by available_at, created_at: a row that becomes available now comes
\* after every row already available and before the rows waiting for a retry.
\* Two statements never share an instant, so the order is total.
AvailableNow(j) ==
    [k \in Deliveries |->
        IF k = j THEN {i \in Deliveries \ {j} : Exists(i) /\ jobs[i].available_in = 0}
        ELSE IF Exists(k) /\ jobs[k].available_in > 0 THEN earlier[k] \cup {j}
        ELSE earlier[k] \ {j}]

\* A row made available after the retry interval comes after every other row.
AvailableAfterRetry(j) ==
    [k \in Deliveries |->
        IF k = j THEN {i \in Deliveries \ {j} : Exists(i)} ELSE earlier[k] \ {j}]

Pending(p, h) == [NoRow EXCEPT !.status = "pending", !.pull = p, !.head = h]

\* The partial unique index review_jobs_one_active_head_idx would reject
\* making row j active.
HeadTaken(j) ==
    /\ jobs[j].pull # None
    /\ \E k \in Deliveries \ {j} :
            ActiveOn(k, jobs[j].pull) /\ jobs[k].head = jobs[j].head

-----------------------------------------------------------------------------
(* Webhooks.  A delivery already recorded has no effect.                   *)

Duplicate(d) == d \in deliveries /\ UNCHANGED vars

\* Fault: only rows nobody works on yet are superseded.
SupersedePending(d, p, h) ==
    /\ d \notin deliveries
    /\ deliveries' = deliveries \cup {d}
    /\ jobs' = [j \in Deliveries |->
                  IF j = d THEN Pending(p, h)
                  ELSE IF jobs[j].pull = p /\ jobs[j].status = "pending"
                       THEN [jobs[j] EXCEPT !.status = "superseded"]
                  ELSE jobs[j]]
    /\ earlier' = AvailableNow(d)
    /\ UNCHANGED <<runnerVars, inflight, history>>

\* enqueue_review_job of a delivery whose pull request and installation are known.
EnqueueReviewJob(d, p, h) ==
    /\ d \notin deliveries
    /\ deliveries' = deliveries \cup {d}
    /\ jobs' = [j \in Deliveries |->
                  IF j = d THEN Pending(p, h)
                  ELSE IF ActiveOn(j, p) THEN [jobs[j] EXCEPT !.status = "superseded"]
                  ELSE jobs[j]]
    /\ earlier' = AvailableNow(d)
    /\ UNCHANGED <<runnerVars, inflight, history>>

\* enqueue_review_job without an identity: the payload names no pull request or
\* the installation is unknown.  Nothing is superseded.
EnqueueUnidentified(d) ==
    /\ d \notin deliveries
    /\ deliveries' = deliveries \cup {d}
    /\ jobs' = [jobs EXCEPT ![d] = Pending(None, None)]
    /\ earlier' = AvailableNow(d)
    /\ UNCHANGED <<runnerVars, inflight, history>>

\* cancel_review_job: the lock columns of a running row stay as they are.
CancelReviewJob(d, p) ==
    /\ d \notin deliveries
    /\ deliveries' = deliveries \cup {d}
    /\ jobs' = [j \in Deliveries |->
                  IF ActiveOn(j, p) THEN [jobs[j] EXCEPT !.status = "cancelled"]
                  ELSE jobs[j]]
    /\ UNCHANGED <<earlier, runnerVars, inflight, history>>

-----------------------------------------------------------------------------
(* Claims, shared by workers and runners.                                  *)

\* Faults: failed rows are taken too; the lease of a running row is not looked
\* at; a running row is never taken again.
ClaimableFailed(j) ==
    \/ jobs[j].status \in {"pending", "failed"} /\ jobs[j].available_in = 0
    \/ jobs[j].status = "running" /\ jobs[j].locked_for = 0

ClaimableLeased(j) ==
    \/ jobs[j].status = "pending" /\ jobs[j].available_in = 0
    \/ jobs[j].status = "running"

ClaimableOnce(j) == jobs[j].status = "pending" /\ jobs[j].available_in = 0

Claimable(j) ==
    \/ jobs[j].status = "pending" /\ jobs[j].available_in = 0
    \/ jobs[j].status = "running" /\ jobs[j].locked_for = 0

\* status = 'running' and locked_until > now(); null compares as false.
LeaseLive(j) ==
    /\ jobs[j].status = "running"
    /\ jobs[j].locked_for # None
    /\ jobs[j].locked_for > 0

\* FOR UPDATE SKIP LOCKED: an acknowledgement locks its row before it looks at
\* it (runner_jobs.py:254-262), so a claim running beside it may pass that row by.
MayBeLocked == {q.lease.job : q \in inflight \cap AckRequest}

\* Fault: the query orders by descending time.
LastOf(S, j) == j \in S /\ \A k \in S : j \notin earlier[k]

\* j is the first row of S in the order of the query.
FirstOf(S, j) == j \in S /\ earlier[j] \cap S = {}

\* The rows a claim chooses between: the claimable ones it may take, less those
\* it found locked.
NextJob(Candidates, j) ==
    \E skipped \in SUBSET (MayBeLocked \cap Candidates) :
        FirstOf(Candidates \ skipped, j)

Bump(n) == IF n <= MaxAttempts THEN n + 1 ELSE n

\* A claim ends every lease handed out on the job before.
Lapse(j) == lapsed' = lapsed \cup {l \in leases : l.job = j}

-----------------------------------------------------------------------------
(* Hosted workers.                                                         *)

WorkerCandidates == {j \in Deliveries : Claimable(j)}

\* claim_review_job: lease_token_hash keeps whatever an earlier runner left.
WorkerClaim(w, j) ==
    /\ NextJob(WorkerCandidates, j)
    /\ jobs' = [jobs EXCEPT ![j].status = "running",
                            ![j].locked_by = w,
                            ![j].locked_for = LeaseTicks,
                            ![j].attempts = Bump(@)]
    /\ Lapse(j)
    /\ UNCHANGED <<deliveries, earlier, runnerVars, inflight, leases, landed, requeued>>

\* Fault: the status is not compared, and cancel_review_job leaves locked_by.
LockedByWorker(w, j) == jobs[j].locked_by = w

OwnedByWorker(w, j) == jobs[j].status = "running" /\ jobs[j].locked_by = w

\* renew_review_job_lease; without a live lease it raises and changes nothing.
RenewReviewJobLease(w, j) ==
    /\ OwnedByWorker(w, j)
    /\ LeaseLive(j)
    /\ jobs' = [jobs EXCEPT ![j].locked_for = LeaseTicks]
    /\ UNCHANGED <<deliveries, earlier, runnerVars, inflight, history>>

\* complete_review_job: the owner may complete even after its lease ran out.
CompleteReviewJob(w, j) ==
    /\ OwnedByWorker(w, j)
    /\ jobs' = [jobs EXCEPT ![j].status = "succeeded",
                            ![j].locked_by = None,
                            ![j].locked_for = None]
    /\ UNCHANGED <<deliveries, earlier, runnerVars, inflight, history>>

\* fail_review_job: dead after MaxAttempts, otherwise pending after the interval.
FailReviewJob(w, j) ==
    /\ OwnedByWorker(w, j)
    /\ \/ /\ jobs[j].attempts >= MaxAttempts
          /\ jobs' = [jobs EXCEPT ![j].status = "failed",
                                  ![j].locked_by = None,
                                  ![j].locked_for = None]
          /\ UNCHANGED earlier
       \/ /\ jobs[j].attempts < MaxAttempts
          /\ jobs' = [jobs EXCEPT ![j].status = "pending",
                                  ![j].available_in = RetryTicks,
                                  ![j].locked_by = None,
                                  ![j].locked_for = None]
          /\ earlier' = AvailableAfterRetry(j)
    /\ UNCHANGED <<deliveries, runnerVars, inflight, history>>

-----------------------------------------------------------------------------
(* Runners: pairing, revocation and the lease protocol.                    *)

\* exchange_pairing_code: a new runner takes every repository of its pairing or
\* the whole exchange is rolled back.
PairRunner(r, repos) ==
    /\ r \notin registered
    /\ \A repo \in repos : assigned[repo] = None
    /\ registered' = registered \cup {r}
    /\ assigned' = [repo \in Repos |-> IF repo \in repos THEN r ELSE assigned[repo]]
    /\ UNCHANGED <<queueVars, revoked, inflight, history>>

\* revoke_runner: the assignments go, the leases the runner holds stay.
RevokeRunner(r) ==
    /\ r \in registered \ revoked
    /\ revoked' = revoked \cup {r}
    /\ assigned' = [repo \in Repos |-> IF assigned[repo] = r THEN None ELSE assigned[repo]]
    /\ UNCHANGED <<queueVars, registered, inflight, history>>

Requester(q) == IF q.op = "claim" THEN q.runner ELSE q.lease.runner

\* _authenticate_bearer accepts the request; its own transaction comes later.
AuthenticateRequest(q) ==
    /\ Cardinality(inflight) < MaxInflight
    /\ q.op # "claim" => q.lease \in leases
    /\ Requester(q) \in registered \ revoked
    /\ inflight' = inflight \cup {q}
    /\ UNCHANGED <<queueVars, runnerVars, history>>

RunnerCandidates(r) ==
    {j \in Deliveries : /\ Claimable(j)
                        /\ jobs[j].pull # None
                        /\ assigned[RepoOf[jobs[j].pull]] = r}

\* claim_job: the runner row is locked and checked again before the queue is read.
ClaimJob(q, j, t) ==
    /\ q \in inflight \cap ClaimRequest
    /\ inflight' = inflight \ {q}
    /\ q.runner \notin revoked
    /\ NextJob(RunnerCandidates(q.runner), j)
    /\ \A l \in leases : l.token # t
    /\ jobs' = [jobs EXCEPT ![j].status = "running",
                            ![j].locked_by = q.runner,
                            ![j].lease_token = t,
                            ![j].locked_for = LeaseTicks,
                            ![j].attempts = Bump(@)]
    /\ Lapse(j)
    /\ leases' = leases \cup {[job |-> j, runner |-> q.runner, token |-> t]}
    /\ UNCHANGED <<deliveries, earlier, runnerVars, landed, requeued>>

\* claim_job answers NoJob: a revoked runner, or no row left to take.
ClaimNoJob(q) ==
    /\ q \in inflight \cap ClaimRequest
    /\ q.runner \in revoked \/ RunnerCandidates(q.runner) \subseteq MayBeLocked
    /\ inflight' = inflight \ {q}
    /\ UNCHANGED <<queueVars, runnerVars, history>>

\* Fault: the token alone is compared, and a worker's claim leaves the token.
HoldsToken(l) == jobs[l.job].lease_token = l.token

\* The row still names this runner and this token.
Holds(l) == jobs[l.job].locked_by = l.runner /\ jobs[l.job].lease_token = l.token

\* The answer of heartbeat_job.
HeartbeatReply(l) ==
    IF Holds(l) /\ LeaseLive(l.job) THEN "active"
    ELSE IF Holds(l) /\ jobs[l.job].status = "cancelled" THEN "cancelled"
    ELSE "invalid_or_expired"

HeartbeatJob(q) ==
    /\ q \in inflight \cap HeartbeatRequest
    /\ inflight' = inflight \ {q}
    /\ jobs' = IF HeartbeatReply(q.lease) = "active"
               THEN [jobs EXCEPT ![q.lease.job].locked_for = LeaseTicks]
               ELSE jobs
    /\ UNCHANGED <<deliveries, earlier, runnerVars, history>>

\* Fault: an acknowledged row answers "ok" before its holder is compared.
AckReplyToAnybody(l) ==
    IF jobs[l.job].status \in Acknowledged THEN "already"
    ELSE IF Holds(l) /\ LeaseLive(l.job) THEN "applied"
    ELSE "denied"

\* The answer of acknowledge_job: the first acknowledgement is applied, a
\* repetition is told "ok" again, everything else is invalid_or_expired.
AckReply(l) ==
    IF ~Holds(l) THEN "denied"
    ELSE IF jobs[l.job].status \in Acknowledged THEN "already"
    ELSE IF LeaseLive(l.job) THEN "applied"
    ELSE "denied"

AcknowledgeJob(q) ==
    /\ q \in inflight \cap AckRequest
    /\ inflight' = inflight \ {q}
    /\ \/ /\ AckReply(q.lease) = "applied"
          /\ jobs' = [jobs EXCEPT ![q.lease.job].status = q.result,
                                  ![q.lease.job].locked_for = None]
          /\ landed' = landed \cup {q.lease}
       \/ /\ AckReply(q.lease) # "applied"
          /\ UNCHANGED <<jobs, landed>>
    /\ UNCHANGED <<deliveries, earlier, runnerVars, leases, lapsed, requeued>>

\* The transaction of a request fails: it is rolled back and answered with 500.
RequestFails(q) ==
    /\ q \in inflight
    /\ inflight' = inflight \ {q}
    /\ UNCHANGED <<queueVars, runnerVars, history>>

-----------------------------------------------------------------------------
(* Operators and time.                                                     *)

\* requeue_review_job of a dead job; it fails when the row is not failed or the
\* unique index refuses a second active row for the head.
RequeueReviewJob(j) ==
    /\ jobs[j].status = "failed"
    /\ ~HeadTaken(j)
    /\ jobs' = [jobs EXCEPT ![j].status = "pending",
                            ![j].attempts = 0,
                            ![j].locked_by = None,
                            ![j].locked_for = None,
                            ![j].available_in = 0]
    /\ earlier' = AvailableNow(j)
    /\ requeued' = requeued \cup {j}
    /\ UNCHANGED <<deliveries, runnerVars, inflight, leases, lapsed, landed>>

Down(n) == IF n # None /\ n > 0 THEN n - 1 ELSE n

Tick ==
    /\ \E j \in Deliveries :
          jobs[j].available_in # 0 \/ jobs[j].locked_for \notin {0, None}
    /\ jobs' = [j \in Deliveries |->
                  [jobs[j] EXCEPT !.available_in = Down(@), !.locked_for = Down(@)]]
    /\ UNCHANGED <<deliveries, earlier, runnerVars, inflight, history>>

-----------------------------------------------------------------------------

Webhook ==
    \E d \in Deliveries :
        \/ Duplicate(d)
        \/ \E p \in Pulls, h \in Heads : EnqueueReviewJob(d, p, h)
        \/ EnqueueUnidentified(d)
        \/ \E p \in Pulls : CancelReviewJob(d, p)

WorkerStep ==
    \E w \in Workers, j \in Deliveries :
        \/ WorkerClaim(w, j)
        \/ RenewReviewJobLease(w, j)
        \/ CompleteReviewJob(w, j)
        \/ FailReviewJob(w, j)

RunnerAccount ==
    \E r \in Runners :
        \/ \E repos \in SUBSET Repos : PairRunner(r, repos)
        \/ RevokeRunner(r)

RunnerSend ==
    \/ \E r \in Runners : AuthenticateRequest([op |-> "claim", runner |-> r])
    \/ \E l \in leases :
        \/ AuthenticateRequest([op |-> "heartbeat", lease |-> l])
        \/ \E s \in Acknowledged :
                AuthenticateRequest([op |-> "ack", lease |-> l, result |-> s])

RunnerExecute ==
    \E q \in inflight :
        \/ \E j \in Deliveries, t \in Tokens : ClaimJob(q, j, t)
        \/ ClaimNoJob(q)
        \/ HeartbeatJob(q)
        \/ AcknowledgeJob(q)
        \/ RequestFails(q)

Next ==
    \/ Webhook
    \/ WorkerStep
    \/ RunnerAccount
    \/ RunnerSend
    \/ RunnerExecute
    \/ \E j \in Deliveries : RequeueReviewJob(j)
    \/ Tick

Spec == Init /\ [][Next]_vars

-----------------------------------------------------------------------------
(* Safety.                                                                 *)

\* The lock columns always fit the status.  A running row without locked_until
\* could never be claimed again, by anybody (claim_review_job.py:57), and a
\* pending row that still names a holder would answer a dead lease.
LockMatchesStatus ==
    \A j \in Deliveries :
        /\ jobs[j].status = "running" =>
              jobs[j].locked_by # None /\ jobs[j].locked_for # None
        /\ jobs[j].status = "pending" =>
              jobs[j].locked_by = None /\ jobs[j].locked_for = None

\* A row that waits for a claim still has an attempt left: whichever way it came
\* back to pending (a failure, an operator's requeue), it is not already dead by
\* the rule of fail_review_job.py:39.
PendingHasAttemptsLeft ==
    \A j \in Deliveries :
        jobs[j].status = "pending" => jobs[j].attempts < MaxAttempts

\* Once a job has been claimed again, by a worker or by any runner, no earlier
\* lease on it is ever accepted again: not by heartbeat_job, not by
\* acknowledge_job, whatever happens to the row later (runner_jobs.py:206-274).
StaleLeaseIsDead ==
    \A l \in lapsed :
        /\ HeartbeatReply(l) = "invalid_or_expired"
        /\ AckReply(l) = "denied"

\* A runner that is told "ok" without a write (runner_jobs.py:267) is told so
\* about its own acknowledgement, never about a result of somebody else.
OkMeansLanded ==
    \A l \in leases : AckReply(l) = "already" => l \in landed

\* Two results of one job are recorded only if an operator requeued it between.
OneResultPerJob ==
    \A l \in landed : \A m \in landed :
        l.job = m.job /\ l # m => l.job \in requeued

\* One active row per pull request and head (202608302200_pr_lifecycle.sql:5-7).
OneActivePerHead ==
    \A j \in Deliveries : \A k \in Deliveries :
        /\ j # k
        /\ jobs[j].status \in Active
        /\ jobs[j].pull # None
        /\ ActiveOn(k, jobs[j].pull)
        => jobs[j].head # jobs[k].head

\* A pull request has one active row, the newest, unless an operator requeued a
\* dead row of an older head: enqueue_review_job supersedes the others.
OneActiveUnlessRequeued ==
    \A j \in Deliveries : \A k \in Deliveries :
        /\ j # k
        /\ jobs[j].status \in Active
        /\ jobs[j].pull # None
        /\ ActiveOn(k, jobs[j].pull)
        => j \in requeued \/ k \in requeued

\* Succeeded, superseded and cancelled are final: no late completion, failure,
\* acknowledgement or claim revives or rewrites such a row, although its lock
\* columns may still name a holder; and a failed row only goes back to pending.
FinalStays ==
    [][\A j \in Deliveries :
          /\ jobs[j].status \in Final => jobs'[j].status = jobs[j].status
          /\ jobs[j].status = "failed" => jobs'[j].status \in {"failed", "pending"}]_vars

-----------------------------------------------------------------------------
(* Refinement: each row keeps the promise of JobLifecycle.                 *)

\* Whose report of job j would be accepted now: the worker that complete_review_job
\* and fail_review_job compare, the lease that acknowledge_job would apply.
Reporters(j) ==
    {w \in Workers : OwnedByWorker(w, j)}
        \cup {l \in leases : l.job = j /\ AckReply(l) = "applied"}

JobOf(j) ==
    [phase |-> jobs[j].status,
     reporters |-> Reporters(j),
     given |-> {l \in leases : l.job = j},
     results |-> {l \in landed : l.job = j}]

Promise == INSTANCE JobLifecycle
    WITH Jobs <- Deliveries, Workers <- Workers, Leases <- Lease,
         job <- [j \in Deliveries |-> JobOf(j)]

\* Under races of webhooks, workers, runners and operators every row moves as
\* JobLifecycle allows: one reporter at a time, no good lease taken away, none
\* that comes back to life, no second result without a requeue, and nothing that
\* leaves succeeded, superseded or cancelled.
KeepsThePromise == Promise!JobSpec

-----------------------------------------------------------------------------
(* Liveness.                                                               *)

\* A claim that found no row locked.
WorkerClaims ==
    \E w \in Workers, j \in Deliveries : WorkerClaim(w, j) /\ FirstOf(WorkerCandidates, j)

OwnerFinishes(j) ==
    \E w \in Workers : CompleteReviewJob(w, j) \/ FailReviewJob(w, j)

\* Time passes; some worker keeps polling (worker/main.py:60-68), and since an
\* acknowledgement locks its row only for its own short transaction, the polls
\* do not meet that lock every time (SF); a worker that owns a job comes to an
\* end with it (79-97); the API executes the requests it accepted.  Nothing is
\* assumed of runners, webhooks or operators.
FairSpec ==
    /\ Spec
    /\ WF_vars(Tick)
    /\ SF_vars(WorkerClaims)
    /\ \A j \in Deliveries : WF_vars(OwnerFinishes(j))
    /\ WF_vars(RunnerExecute)

\* No row waits forever: each pending row is claimed, superseded or cancelled,
\* however many other rows arrive, fail, lapse and are claimed again (the query
\* orders by available_at and created_at).
PendingIsServed ==
    \A j \in Deliveries : (jobs[j].status = "pending") ~> (jobs[j].status # "pending")
================================================================================
