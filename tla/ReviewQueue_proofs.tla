-------------------------- MODULE ReviewQueue_proofs --------------------------
(***************************************************************************)
(* Proofs about ReviewQueue, for every value of its constants: any number  *)
(* of deliveries, pull requests, workers and runners, any lease and retry  *)
(* interval, any number of requests in flight.                             *)
(***************************************************************************)
EXTENDS ReviewQueue, TLAPS

-----------------------------------------------------------------------------
(* Type correctness.  A row stays a row when a column takes a value of its *)
(* type.                                                                   *)

LEMMA SetStatus ==
    ASSUME NEW r \in Row, NEW x \in Status PROVE [r EXCEPT !.status = x] \in Row
  BY DEF Row

LEMMA SetLockedBy ==
    ASSUME NEW r \in Row, NEW x \in Holders \cup {None}
    PROVE  [r EXCEPT !.locked_by = x] \in Row
  BY DEF Row

LEMMA SetLockedFor ==
    ASSUME NEW r \in Row, NEW x \in (0 .. LeaseTicks) \cup {None}
    PROVE  [r EXCEPT !.locked_for = x] \in Row
  BY DEF Row

LEMMA SetLeaseToken ==
    ASSUME NEW r \in Row, NEW x \in Tokens \cup {None}
    PROVE  [r EXCEPT !.lease_token = x] \in Row
  BY DEF Row

LEMMA SetAttempts ==
    ASSUME NEW r \in Row, NEW x \in Attempts PROVE [r EXCEPT !.attempts = x] \in Row
  BY DEF Row

LEMMA SetAvailableIn ==
    ASSUME NEW r \in Row, NEW x \in 0 .. RetryTicks
    PROVE  [r EXCEPT !.available_in = x] \in Row
  BY DEF Row

LEMMA SetPullHead ==
    ASSUME NEW r \in Row, NEW p \in Pulls \cup {None}, NEW h \in Heads \cup {None}
    PROVE  [r EXCEPT !.pull = p, !.head = h] \in Row
  BY DEF Row

LEMMA StatusNames ==
    /\ "pending" \in Status /\ "running" \in Status /\ "failed" \in Status
    /\ "succeeded" \in Status /\ "superseded" \in Status /\ "cancelled" \in Status
    /\ "absent" \in Status
  BY DEF Status, Active, Acknowledged, Final

LEMMA Ranges ==
    /\ LeaseTicks \in 0 .. LeaseTicks
    /\ RetryTicks \in 0 .. RetryTicks
    /\ 0 \in 0 .. RetryTicks
    /\ 0 \in Attempts
    /\ \A n \in Attempts : Bump(n) \in Attempts
    /\ \A n \in 0 .. RetryTicks : Down(n) \in 0 .. RetryTicks
    /\ \A n \in (0 .. LeaseTicks) \cup {None} : Down(n) \in (0 .. LeaseTicks) \cup {None}
  BY QueueAssumption DEF Attempts, Bump, Down

LEMMA NoRowType == NoRow \in Row
  BY QueueAssumption DEF NoRow, Row, Status, Active, Acknowledged, Final, Attempts

LEMMA PendingType ==
    ASSUME NEW p \in Pulls \cup {None}, NEW h \in Heads \cup {None}
    PROVE  Pending(p, h) \in Row
  <1>1. [NoRow EXCEPT !.status = "pending"] \in Row
    BY NoRowType, SetStatus, StatusNames
  <1>2. [[NoRow EXCEPT !.status = "pending"] EXCEPT !.pull = p, !.head = h] \in Row
    BY <1>1, SetPullHead
  <1> QED
    BY <1>2 DEF Pending

\* A statement that changes one row keeps the type of the table.
LEMMA OneRow ==
    ASSUME TypeOK, NEW j \in Deliveries, NEW r \in Row,
           NEW f, f = [jobs EXCEPT ![j] = r]
    PROVE  f \in [Deliveries -> Row]
  BY DEF TypeOK

LEMMA OrderType ==
    ASSUME TypeOK, NEW j \in Deliveries
    PROVE  /\ AvailableNow(j) \in [Deliveries -> SUBSET Deliveries]
           /\ AvailableAfterRetry(j) \in [Deliveries -> SUBSET Deliveries]
  BY DEF TypeOK, AvailableNow, AvailableAfterRetry

LEMMA InitTypeOK == Init => TypeOK
  <1> SUFFICES ASSUME Init PROVE TypeOK
    OBVIOUS
  <1>1. jobs \in [Deliveries -> Row]
    BY NoRowType DEF Init
  <1> QED
    BY <1>1 DEF Init, TypeOK

LEMMA NextTypeOK == TypeOK /\ [Next]_vars => TypeOK'
  <1> SUFFICES ASSUME TypeOK, [Next]_vars PROVE TypeOK'
    OBVIOUS
  <1> USE QueueAssumption
  <1>0. \A j \in Deliveries : jobs[j] \in Row
    BY DEF TypeOK
  <1>1. ASSUME NEW d \in Deliveries, NEW p \in Pulls, NEW h \in Heads,
               EnqueueReviewJob(d, p, h)
        PROVE  TypeOK'
    <2>1. jobs' \in [Deliveries -> Row]
      <3> SUFFICES ASSUME NEW j \in Deliveries PROVE jobs'[j] \in Row
        BY <1>1 DEF EnqueueReviewJob
      <3>1. [jobs[j] EXCEPT !.status = "superseded"] \in Row
        BY <1>0, SetStatus, StatusNames
      <3> QED
        BY <1>0, <1>1, <3>1, PendingType DEF EnqueueReviewJob
    <2> QED
      BY <1>1, <2>1, OrderType DEF EnqueueReviewJob, TypeOK, runnerVars, history
  <1>2. ASSUME NEW d \in Deliveries, EnqueueUnidentified(d) PROVE TypeOK'
    <2>1. jobs' \in [Deliveries -> Row]
      BY <1>2, PendingType, OneRow DEF EnqueueUnidentified
    <2> QED
      BY <1>2, <2>1, OrderType DEF EnqueueUnidentified, TypeOK, runnerVars, history
  <1>3. ASSUME NEW d \in Deliveries, NEW p \in Pulls, CancelReviewJob(d, p) PROVE TypeOK'
    <2>1. jobs' \in [Deliveries -> Row]
      <3> SUFFICES ASSUME NEW j \in Deliveries PROVE jobs'[j] \in Row
        BY <1>3 DEF CancelReviewJob
      <3>1. [jobs[j] EXCEPT !.status = "cancelled"] \in Row
        BY <1>0, SetStatus, StatusNames
      <3> QED
        BY <1>0, <1>3, <3>1 DEF CancelReviewJob
    <2> QED
      BY <1>3, <2>1 DEF CancelReviewJob, TypeOK, runnerVars, history
  <1>4. ASSUME NEW w \in Workers, NEW j \in Deliveries, WorkerClaim(w, j) PROVE TypeOK'
    <2> DEFINE a == [jobs[j] EXCEPT !.status = "running"]
               b == [a EXCEPT !.locked_by = w]
               c == [b EXCEPT !.locked_for = LeaseTicks]
               e == [c EXCEPT !.attempts = Bump(jobs[j].attempts)]
    <2>1. a \in Row
      BY <1>0, SetStatus, StatusNames
    <2>2. b \in Row
      BY <2>1, SetLockedBy DEF Holders
    <2>3. c \in Row
      BY <2>2, SetLockedFor, Ranges
    <2>4. e \in Row
      BY <1>0, <2>3, SetAttempts, Ranges DEF Row
    <2>5. jobs' = [jobs EXCEPT ![j] = e]
      BY <1>4, <1>0 DEF WorkerClaim, TypeOK
    <2>6. jobs' \in [Deliveries -> Row]
      BY <2>4, <2>5, OneRow
    <2> QED
      BY <1>4, <2>6 DEF WorkerClaim, Lapse, TypeOK, runnerVars
  <1>5. ASSUME NEW w \in Workers, NEW j \in Deliveries, RenewReviewJobLease(w, j)
        PROVE  TypeOK'
    <2>1. jobs' \in [Deliveries -> Row]
      BY <1>0, <1>5, SetLockedFor, Ranges, OneRow DEF RenewReviewJobLease
    <2> QED
      BY <1>5, <2>1 DEF RenewReviewJobLease, TypeOK, runnerVars, history
  <1>6. ASSUME NEW w \in Workers, NEW j \in Deliveries, CompleteReviewJob(w, j)
        PROVE  TypeOK'
    <2> DEFINE a == [jobs[j] EXCEPT !.status = "succeeded"]
               b == [a EXCEPT !.locked_by = None]
               c == [b EXCEPT !.locked_for = None]
    <2>1. c \in Row
      BY <1>0, SetStatus, SetLockedBy, SetLockedFor, StatusNames
    <2>2. jobs' = [jobs EXCEPT ![j] = c]
      BY <1>6, <1>0 DEF CompleteReviewJob, TypeOK
    <2>3. jobs' \in [Deliveries -> Row]
      BY <2>1, <2>2, OneRow
    <2> QED
      BY <1>6, <2>3 DEF CompleteReviewJob, TypeOK, runnerVars, history
  <1>7. ASSUME NEW w \in Workers, NEW j \in Deliveries, FailReviewJob(w, j) PROVE TypeOK'
    <2> DEFINE Unlock(r) == [[r EXCEPT !.locked_by = None] EXCEPT !.locked_for = None]
    <2>0. \A r \in Row : Unlock(r) \in Row
      BY SetLockedBy, SetLockedFor
    <2>1. CASE jobs[j].attempts >= MaxAttempts
      <3> DEFINE a == [jobs[j] EXCEPT !.status = "failed"]
      <3>1. Unlock(a) \in Row
        BY <1>0, <2>0, SetStatus, StatusNames
      <3>0. ~(jobs[j].attempts < MaxAttempts)
        BY <1>0, <2>1 DEF Row, Attempts
      <3>2. jobs' = [jobs EXCEPT ![j] = Unlock(a)] /\ UNCHANGED earlier
        BY <1>7, <1>0, <3>0 DEF FailReviewJob, TypeOK
      <3>3. jobs' \in [Deliveries -> Row]
        BY <3>1, <3>2, OneRow
      <3> QED
        BY <1>7, <3>2, <3>3 DEF FailReviewJob, TypeOK, runnerVars, history
    <2>2. CASE ~(jobs[j].attempts >= MaxAttempts)
      <3> DEFINE a == [jobs[j] EXCEPT !.status = "pending"]
                 b == [a EXCEPT !.available_in = RetryTicks]
      <3>1. b \in Row
        BY <1>0, SetStatus, SetAvailableIn, StatusNames, Ranges
      <3>2. Unlock(b) \in Row
        BY <2>0, <3>1
      <3>3. jobs' = [jobs EXCEPT ![j] = Unlock(b)] /\ earlier' = AvailableAfterRetry(j)
        BY <1>7, <1>0, <2>2 DEF FailReviewJob, TypeOK
      <3>4. jobs' \in [Deliveries -> Row]
        BY <3>2, <3>3, OneRow
      <3> QED
        BY <1>7, <3>3, <3>4, OrderType DEF FailReviewJob, TypeOK, runnerVars, history
    <2> QED
      BY <2>1, <2>2
  <1>8. ASSUME NEW r \in Runners, NEW repos \in SUBSET Repos, PairRunner(r, repos)
        PROVE  TypeOK'
    BY <1>8 DEF PairRunner, TypeOK, queueVars, history
  <1>9. ASSUME NEW r \in Runners, RevokeRunner(r) PROVE TypeOK'
    BY <1>9 DEF RevokeRunner, TypeOK, queueVars, history
  <1>10. ASSUME RunnerSend PROVE TypeOK'
    <2>1. PICK q \in Request : AuthenticateRequest(q)
      BY <1>10 DEF RunnerSend, TypeOK, Request, ClaimRequest, HeartbeatRequest, AckRequest
    <2> QED
      BY <2>1 DEF AuthenticateRequest, TypeOK, queueVars, runnerVars, history
  <1>11. ASSUME NEW q \in inflight, NEW j \in Deliveries, NEW t \in Tokens,
                ClaimJob(q, j, t)
         PROVE  TypeOK'
    <2> DEFINE a == [jobs[j] EXCEPT !.status = "running"]
               b == [a EXCEPT !.locked_by = q.runner]
               c == [b EXCEPT !.lease_token = t]
               e == [c EXCEPT !.locked_for = LeaseTicks]
               f == [e EXCEPT !.attempts = Bump(jobs[j].attempts)]
    <2>0. q.runner \in Runners
      BY <1>11 DEF ClaimJob, ClaimRequest
    <2>1. b \in Row
      BY <1>0, <2>0, SetStatus, SetLockedBy, StatusNames DEF Holders
    <2>2. e \in Row
      BY <2>1, SetLeaseToken, SetLockedFor, Ranges
    <2>3. f \in Row
      BY <1>0, <2>2, SetAttempts, Ranges DEF Row
    <2>4. jobs' = [jobs EXCEPT ![j] = f]
      BY <1>11, <1>0 DEF ClaimJob, TypeOK
    <2>5. jobs' \in [Deliveries -> Row]
      BY <2>3, <2>4, OneRow
    <2>6. leases' \subseteq Lease
      BY <1>11, <2>0 DEF ClaimJob, TypeOK, Lease
    <2> QED
      BY <1>11, <2>5, <2>6 DEF ClaimJob, Lapse, TypeOK, runnerVars
  <1>12. ASSUME NEW q \in inflight, ClaimNoJob(q) \/ RequestFails(q) PROVE TypeOK'
    BY <1>12 DEF ClaimNoJob, RequestFails, TypeOK, queueVars, runnerVars, history
  <1>13. ASSUME NEW q \in inflight, HeartbeatJob(q) PROVE TypeOK'
    <2>0. q.lease.job \in Deliveries
      BY <1>13 DEF HeartbeatJob, HeartbeatRequest, Lease
    <2>1. jobs' \in [Deliveries -> Row]
      BY <1>0, <1>13, <2>0, SetLockedFor, Ranges, OneRow DEF HeartbeatJob, TypeOK
    <2> QED
      BY <1>13, <2>1 DEF HeartbeatJob, TypeOK, runnerVars, history
  <1>14. ASSUME NEW q \in inflight, AcknowledgeJob(q) PROVE TypeOK'
    <2> DEFINE j == q.lease.job
               a == [jobs[j] EXCEPT !.status = q.result]
               b == [a EXCEPT !.locked_for = None]
    <2>0. q.lease \in Lease /\ j \in Deliveries /\ q.result \in Status
      BY <1>14 DEF AcknowledgeJob, AckRequest, Lease, Status
    <2>1. b \in Row
      BY <1>0, <2>0, SetStatus, SetLockedFor
    <2>2. jobs' \in [Deliveries -> Row]
      <3>1. CASE AckReply(q.lease) = "applied"
        <4>1. jobs' = [jobs EXCEPT ![j] = b]
          BY <1>14, <1>0, <2>0, <3>1 DEF AcknowledgeJob, TypeOK
        <4> QED
          BY <2>0, <2>1, <4>1, OneRow
      <3>2. CASE AckReply(q.lease) # "applied"
        BY <1>14, <3>2 DEF AcknowledgeJob, TypeOK
      <3> QED
        BY <3>1, <3>2
    <2>3. landed' \subseteq Lease
      BY <1>14, <2>0 DEF AcknowledgeJob, TypeOK
    <2> QED
      BY <1>14, <2>2, <2>3 DEF AcknowledgeJob, TypeOK, runnerVars
  <1>15. ASSUME NEW j \in Deliveries, RequeueReviewJob(j) PROVE TypeOK'
    <2> DEFINE a == [jobs[j] EXCEPT !.status = "pending"]
               b == [a EXCEPT !.attempts = 0]
               c == [b EXCEPT !.locked_by = None]
               e == [c EXCEPT !.locked_for = None]
               f == [e EXCEPT !.available_in = 0]
    <2>1. c \in Row
      BY <1>0, SetStatus, SetAttempts, SetLockedBy, StatusNames, Ranges
    <2>2. f \in Row
      BY <2>1, SetLockedFor, SetAvailableIn, Ranges
    <2>3. jobs' = [jobs EXCEPT ![j] = f]
      BY <1>15, <1>0 DEF RequeueReviewJob, TypeOK
    <2>4. jobs' \in [Deliveries -> Row]
      BY <2>2, <2>3, OneRow
    <2> QED
      BY <1>15, <2>4, OrderType DEF RequeueReviewJob, TypeOK, runnerVars
  <1>16. ASSUME Tick PROVE TypeOK'
    <2>1. jobs' \in [Deliveries -> Row]
      <3> SUFFICES ASSUME NEW j \in Deliveries PROVE jobs'[j] \in Row
        BY <1>16 DEF Tick
      <3> DEFINE a == [jobs[j] EXCEPT !.available_in = Down(jobs[j].available_in)]
                 b == [a EXCEPT !.locked_for = Down(jobs[j].locked_for)]
      <3>1. Down(jobs[j].available_in) \in 0 .. RetryTicks
        BY <1>0, Ranges DEF Row
      <3>2. Down(jobs[j].locked_for) \in (0 .. LeaseTicks) \cup {None}
        BY <1>0, Ranges DEF Row
      <3>3. b \in Row
        BY <1>0, <3>1, <3>2, SetAvailableIn, SetLockedFor
      <3> QED
        BY <1>16, <3>3, <1>0 DEF Tick
    <2> QED
      BY <1>16, <2>1 DEF Tick, TypeOK, runnerVars, history
  <1>17. CASE UNCHANGED vars
    BY <1>17 DEF vars, TypeOK
  <1> QED
    BY <1>1, <1>2, <1>3, <1>4, <1>5, <1>6, <1>7, <1>8, <1>9, <1>10, <1>11, <1>12,
       <1>13, <1>14, <1>15, <1>16, <1>17
    DEF Next, Webhook, Duplicate, WorkerStep, RunnerAccount, RunnerExecute

\* Type correctness: every column of review_jobs keeps its type, each repository
\* has at most one runner, and only registered runners are revoked.
THEOREM TypeCorrect == Spec => []TypeOK
  <1>1. Init => TypeOK
    BY InitTypeOK
  <1>2. TypeOK /\ [Next]_vars => TypeOK'
    BY NextTypeOK
  <1> QED
    BY <1>1, <1>2, PTL DEF Spec

-----------------------------------------------------------------------------
(* The steps that change more than the clock.                              *)

\* Nothing but timers moves: renewals, heartbeats, ticks, requests on their way,
\* pairing and revocation, and every refused or repeated call.
TimersOnly ==
    /\ UNCHANGED <<deliveries, leases, lapsed, landed, requeued>>
    /\ \A j \in Deliveries :
          /\ jobs'[j].status = jobs[j].status
          /\ jobs'[j].pull = jobs[j].pull
          /\ jobs'[j].head = jobs[j].head
          /\ jobs'[j].attempts = jobs[j].attempts
          /\ jobs'[j].locked_by = jobs[j].locked_by
          /\ jobs'[j].lease_token = jobs[j].lease_token
          /\ jobs'[j].locked_for = None <=> jobs[j].locked_for = None
          /\ jobs[j].locked_for = 0 => jobs'[j].locked_for = 0

AckApplied(q) == q \in inflight /\ AckReply(q.lease) = "applied" /\ AcknowledgeJob(q)

LEMMA StepCases ==
    ASSUME TypeOK, [Next]_vars
    PROVE  \/ TimersOnly
           \/ \E d \in Deliveries, p \in Pulls, h \in Heads : EnqueueReviewJob(d, p, h)
           \/ \E d \in Deliveries : EnqueueUnidentified(d)
           \/ \E d \in Deliveries, p \in Pulls : CancelReviewJob(d, p)
           \/ \E w \in Workers, j \in Deliveries : WorkerClaim(w, j)
           \/ \E w \in Workers, j \in Deliveries : CompleteReviewJob(w, j)
           \/ \E w \in Workers, j \in Deliveries : FailReviewJob(w, j)
           \/ \E q \in inflight, j \in Deliveries, t \in Tokens : ClaimJob(q, j, t)
           \/ \E q \in inflight : AckApplied(q)
           \/ \E j \in Deliveries : RequeueReviewJob(j)
  <1> USE QueueAssumption
  <1>0. \A j \in Deliveries : jobs[j] \in Row
    BY DEF TypeOK
  <1>1. ASSUME jobs' = jobs, UNCHANGED <<deliveries, leases, lapsed, landed, requeued>>
        PROVE  TimersOnly
    BY <1>1 DEF TimersOnly
  <1>2. ASSUME NEW w \in Workers, NEW j \in Deliveries, RenewReviewJobLease(w, j)
        PROVE  TimersOnly
    BY <1>0, <1>2 DEF RenewReviewJobLease, LeaseLive, TimersOnly, TypeOK, Row, history
  <1>3. ASSUME NEW q \in inflight, HeartbeatJob(q) PROVE TimersOnly
    BY <1>0, <1>3
    DEF HeartbeatJob, HeartbeatReply, LeaseLive, TimersOnly, TypeOK, Row, history
  <1>4. ASSUME Tick PROVE TimersOnly
    <2>1. /\ \A n \in (0 .. LeaseTicks) \cup {None} : Down(n) = None <=> n = None
          /\ Down(0) = 0
      BY DEF Down
    <2>2. ASSUME NEW j \in Deliveries
          PROVE  /\ jobs'[j].locked_for = None <=> jobs[j].locked_for = None
                 /\ jobs[j].locked_for = 0 => jobs'[j].locked_for = 0
      BY <1>0, <1>4, <2>1 DEF Tick, Row
    <2> QED
      BY <1>0, <1>4, <2>2 DEF Tick, TimersOnly, Row, history
  <1>5. ASSUME NEW q \in inflight, AcknowledgeJob(q) PROVE TimersOnly \/ AckApplied(q)
    BY <1>1, <1>5 DEF AcknowledgeJob, AckApplied
  <1>6. ASSUME Duplicate(CHOOSE d : TRUE) \/ UNCHANGED vars PROVE TimersOnly
    BY <1>1, <1>6 DEF Duplicate, vars
  <1>7. ASSUME RunnerAccount \/ RunnerSend PROVE TimersOnly
    BY <1>1, <1>7
    DEF RunnerAccount, RunnerSend, PairRunner, RevokeRunner, AuthenticateRequest,
        queueVars, history
  <1>8. ASSUME NEW q \in inflight, ClaimNoJob(q) \/ RequestFails(q) PROVE TimersOnly
    BY <1>1, <1>8 DEF ClaimNoJob, RequestFails, queueVars, history
  <1> QED
    BY <1>1, <1>2, <1>3, <1>4, <1>5, <1>6, <1>7, <1>8
    DEF Next, Webhook, Duplicate, vars, WorkerStep, RunnerExecute

-----------------------------------------------------------------------------
(* The columns of one row.                                                 *)

\* A delivery not yet processed has no row.
RowsHaveDeliveries ==
    \A d \in Deliveries : d \notin deliveries => jobs[d].status = "absent"

RowInv == RowsHaveDeliveries /\ LockMatchesStatus /\ PendingHasAttemptsLeft

LEMMA PendingFields ==
    ASSUME NEW p, NEW h
    PROVE  /\ Pending(p, h).status = "pending" /\ Pending(p, h).attempts = 0
           /\ Pending(p, h).locked_by = None /\ Pending(p, h).locked_for = None
           /\ Pending(p, h).pull = p /\ Pending(p, h).head = h
  BY DEF Pending, NoRow

LEMMA InitRowInv == Init => RowInv
  BY DEF Init, RowInv, RowsHaveDeliveries, LockMatchesStatus, PendingHasAttemptsLeft, NoRow

LEMMA NextRowInv == TypeOK /\ RowInv /\ [Next]_vars => RowInv'
  <1> SUFFICES ASSUME TypeOK, RowInv, [Next]_vars PROVE RowInv'
    OBVIOUS
  <1> USE QueueAssumption DEF RowInv, RowsHaveDeliveries, LockMatchesStatus,
                              PendingHasAttemptsLeft
  <1>0. \A j \in Deliveries : jobs[j] \in Row
    BY DEF TypeOK
  <1>1. CASE TimersOnly
    BY <1>1 DEF TimersOnly
  <1>2. ASSUME NEW d \in Deliveries, NEW p \in Pulls, NEW h \in Heads,
               EnqueueReviewJob(d, p, h)
        PROVE  RowInv'
    BY <1>0, <1>2, PendingFields DEF EnqueueReviewJob, ActiveOn, Active, Row
  <1>3. ASSUME NEW d \in Deliveries, EnqueueUnidentified(d) PROVE RowInv'
    BY <1>0, <1>3, PendingFields DEF EnqueueUnidentified, TypeOK
  <1>4. ASSUME NEW d \in Deliveries, NEW p \in Pulls, CancelReviewJob(d, p) PROVE RowInv'
    BY <1>0, <1>4 DEF CancelReviewJob, ActiveOn, Active, Row
  <1>5. ASSUME NEW w \in Workers, NEW j \in Deliveries, WorkerClaim(w, j) PROVE RowInv'
    BY <1>0, <1>5 DEF WorkerClaim, NextJob, FirstOf, WorkerCandidates, Claimable, TypeOK, Row
  <1>6. ASSUME NEW w \in Workers, NEW j \in Deliveries, CompleteReviewJob(w, j)
        PROVE  RowInv'
    BY <1>0, <1>6 DEF CompleteReviewJob, OwnedByWorker, TypeOK, Row
  <1>7. ASSUME NEW w \in Workers, NEW j \in Deliveries, FailReviewJob(w, j) PROVE RowInv'
    BY <1>0, <1>7 DEF FailReviewJob, OwnedByWorker, TypeOK, Row
  <1>8. ASSUME NEW q \in inflight, NEW j \in Deliveries, NEW t \in Tokens, ClaimJob(q, j, t)
        PROVE  RowInv'
    <2>1. q.runner \in Runners
      BY <1>8 DEF ClaimJob, ClaimRequest
    <2> QED
      BY <1>0, <1>8, <2>1
      DEF ClaimJob, NextJob, FirstOf, RunnerCandidates, Claimable, TypeOK, Row
  <1>9. ASSUME NEW q \in inflight, AckApplied(q) PROVE RowInv'
    <2>1. q.result \in Acknowledged /\ q.lease.job \in Deliveries
      BY <1>9 DEF AckApplied, AcknowledgeJob, AckRequest, Lease
    <2> QED
      BY <1>0, <1>9, <2>1
      DEF AckApplied, AcknowledgeJob, AckReply, LeaseLive, Acknowledged, TypeOK, Row
  <1>10. ASSUME NEW j \in Deliveries, RequeueReviewJob(j) PROVE RowInv'
    BY <1>0, <1>10 DEF RequeueReviewJob, TypeOK, Row
  <1> QED
    BY StepCases, <1>1, <1>2, <1>3, <1>4, <1>5, <1>6, <1>7, <1>8, <1>9, <1>10

-----------------------------------------------------------------------------
(* Leases.  A lapsed lease is refused because the row no longer names it,  *)
(* and a row that names no runner can only come to name one with a token   *)
(* nobody has yet.                                                         *)

LapsedHoldsNothing == \A l \in lapsed : ~Holds(l)

\* A job with a recorded result is finished until an operator requeues it.
LandedIsFinished ==
    \A l \in landed : l.job \in requeued \/ jobs[l.job].status \in Acknowledged

LeaseInv == LapsedHoldsNothing /\ OkMeansLanded /\ LandedIsFinished /\ OneResultPerJob

LEMMA SameLease ==
    ASSUME NEW l \in Lease, NEW m \in Lease,
           l.job = m.job, l.runner = m.runner, l.token = m.token
    PROVE  l = m
  <1>1. /\ l = [job |-> l.job, runner |-> l.runner, token |-> l.token]
        /\ m = [job |-> m.job, runner |-> m.runner, token |-> m.token]
    BY DEF Lease
  <1> QED
    BY <1>1

LEMMA InitLeaseInv == Init => LeaseInv
  BY DEF Init, LeaseInv, LapsedHoldsNothing, OkMeansLanded, LandedIsFinished, OneResultPerJob

LEMMA AlreadyMeans ==
    ASSUME NEW l
    PROVE  AckReply(l) = "already" <=> Holds(l) /\ jobs[l.job].status \in Acknowledged
  BY DEF AckReply

LEMMA AppliedMeans ==
    ASSUME NEW l
    PROVE  AckReply(l) = "applied" => Holds(l) /\ LeaseLive(l.job)
  BY DEF AckReply

\* The parts of LeaseInv spelled out, for the steps below.
LeaseInvOpen ==
    /\ \A l \in lapsed : ~Holds(l)
    /\ \A l \in leases : Holds(l) /\ jobs[l.job].status \in Acknowledged => l \in landed
    /\ \A l \in landed : l.job \in requeued \/ jobs[l.job].status \in Acknowledged
    /\ \A l \in landed : \A m \in landed : l.job = m.job /\ l # m => l.job \in requeued

LEMMA OpenLeaseInv == LeaseInv <=> LeaseInvOpen
  BY AlreadyMeans
  DEF LeaseInv, LeaseInvOpen, LapsedHoldsNothing, OkMeansLanded, LandedIsFinished,
      OneResultPerJob

LEMMA NextLeaseInv == TypeOK /\ RowInv /\ LeaseInvOpen /\ [Next]_vars => LeaseInvOpen'
  <1> SUFFICES ASSUME TypeOK, RowInv, LeaseInvOpen, [Next]_vars PROVE LeaseInvOpen'
    OBVIOUS
  <1> USE QueueAssumption DEF LeaseInvOpen, Holds
  <1>0. /\ \A j \in Deliveries : jobs[j] \in Row
        /\ \A l \in leases : l \in Lease /\ l.job \in Deliveries /\ l.runner \in Runners
        /\ \A l \in landed : l \in Lease /\ l.job \in Deliveries
        /\ lapsed \subseteq leases
        /\ \A l \in leases : l.runner # None /\ l.runner \notin Workers
    BY DEF TypeOK, Lease
  <1>1. CASE TimersOnly
    BY <1>0, <1>1 DEF TimersOnly
  <1>2. ASSUME NEW d \in Deliveries, NEW p \in Pulls, NEW h \in Heads,
               EnqueueReviewJob(d, p, h)
        PROVE  LeaseInvOpen'
    <2>1. \A j \in Deliveries :
              \/ jobs'[j].locked_by = None /\ jobs'[j].status = "pending" /\ j = d
              \/ /\ jobs'[j].locked_by = jobs[j].locked_by
                 /\ jobs'[j].lease_token = jobs[j].lease_token
                 /\ \/ jobs'[j].status = jobs[j].status
                    \/ jobs'[j].status = "superseded" /\ jobs[j].status \in Active
      BY <1>0, <1>2, PendingFields DEF EnqueueReviewJob, ActiveOn, Row
    <2>2. jobs[d].status = "absent"
      BY <1>2 DEF EnqueueReviewJob, RowInv, RowsHaveDeliveries
    <2> QED
      BY <1>0, <1>2, <2>1, <2>2 DEF EnqueueReviewJob, history, Active, Acknowledged
  <1>3. ASSUME NEW d \in Deliveries, EnqueueUnidentified(d) PROVE LeaseInvOpen'
    <2>1. jobs[d].status = "absent"
      BY <1>3 DEF EnqueueUnidentified, RowInv, RowsHaveDeliveries
    <2>2. \A j \in Deliveries :
              IF j = d THEN jobs'[j].locked_by = None /\ jobs'[j].status = "pending"
              ELSE jobs'[j] = jobs[j]
      BY <1>0, <1>3, PendingFields DEF EnqueueUnidentified, TypeOK
    <2> QED
      BY <1>0, <1>3, <2>1, <2>2 DEF EnqueueUnidentified, history, Acknowledged
  <1>4. ASSUME NEW d \in Deliveries, NEW p \in Pulls, CancelReviewJob(d, p)
        PROVE  LeaseInvOpen'
    <2>1. \A j \in Deliveries :
              /\ jobs'[j].locked_by = jobs[j].locked_by
              /\ jobs'[j].lease_token = jobs[j].lease_token
              /\ \/ jobs'[j].status = jobs[j].status
                 \/ jobs'[j].status = "cancelled" /\ jobs[j].status \in Active
      BY <1>0, <1>4 DEF CancelReviewJob, ActiveOn, Row
    <2> QED
      BY <1>0, <1>4, <2>1 DEF CancelReviewJob, history, Active, Acknowledged
  <1>5. ASSUME NEW w \in Workers, NEW j \in Deliveries, WorkerClaim(w, j)
        PROVE  LeaseInvOpen'
    <2>1. /\ jobs'[j].locked_by = w /\ jobs'[j].status = "running"
          /\ jobs[j].status \in Active
          /\ \A k \in Deliveries : k # j => jobs'[k] = jobs[k]
      BY <1>0, <1>5
      DEF WorkerClaim, NextJob, FirstOf, WorkerCandidates, Claimable, Active, TypeOK, Row
    <2>2. /\ lapsed' = lapsed \cup {l \in leases : l.job = j}
          /\ UNCHANGED <<leases, landed, requeued>>
      BY <1>5 DEF WorkerClaim, Lapse
    <2>3. \A l \in lapsed' : ~Holds(l)'
      BY <1>0, <2>1, <2>2
    <2>4. \A l \in landed : l.job \in requeued \/ l.job # j
      BY <2>1 DEF Active, Acknowledged
    <2> QED
      BY <1>0, <2>1, <2>2, <2>3, <2>4 DEF Acknowledged
  <1>6. ASSUME NEW w \in Workers, NEW j \in Deliveries,
               CompleteReviewJob(w, j) \/ FailReviewJob(w, j)
        PROVE  LeaseInvOpen'
    <2>1. /\ jobs'[j].locked_by = None /\ jobs[j].status = "running"
          /\ \A k \in Deliveries : k # j => jobs'[k] = jobs[k]
      BY <1>0, <1>6 DEF CompleteReviewJob, FailReviewJob, OwnedByWorker, TypeOK, Row
    <2>2. UNCHANGED <<leases, lapsed, landed, requeued>>
      BY <1>6 DEF CompleteReviewJob, FailReviewJob, history
    <2> QED
      BY <1>0, <2>1, <2>2 DEF Acknowledged
  <1>7. ASSUME NEW q \in inflight, NEW j \in Deliveries, NEW t \in Tokens, ClaimJob(q, j, t)
        PROVE  LeaseInvOpen'
    <2>1. /\ jobs'[j].lease_token = t /\ jobs'[j].status = "running"
          /\ jobs[j].status \in Active
          /\ \A k \in Deliveries : k # j => jobs'[k] = jobs[k]
      BY <1>0, <1>7
      DEF ClaimJob, NextJob, FirstOf, RunnerCandidates, Claimable, Active, TypeOK, Row
    <2>2. /\ \A l \in leases : l.token # t
          /\ lapsed' = lapsed \cup {l \in leases : l.job = j}
          /\ leases' = leases \cup {[job |-> j, runner |-> q.runner, token |-> t]}
          /\ UNCHANGED <<landed, requeued>>
      BY <1>7 DEF ClaimJob, Lapse
    <2> QED
      BY <1>0, <2>1, <2>2 DEF Active, Acknowledged
  <1>8. ASSUME NEW q \in inflight, AckApplied(q) PROVE LeaseInvOpen'
    <2> DEFINE l0 == q.lease
    <2>1. /\ q.result \in Acknowledged /\ l0 \in Lease /\ l0.job \in Deliveries
          /\ Holds(l0) /\ jobs[l0.job].status = "running"
      BY <1>8, AppliedMeans DEF AckApplied, AcknowledgeJob, AckRequest, Lease, LeaseLive
    <2>2. /\ jobs'[l0.job].status = q.result
          /\ jobs'[l0.job].locked_by = jobs[l0.job].locked_by
          /\ jobs'[l0.job].lease_token = jobs[l0.job].lease_token
          /\ \A k \in Deliveries : k # l0.job => jobs'[k] = jobs[k]
      BY <1>0, <1>8, <2>1 DEF AckApplied, AcknowledgeJob, TypeOK, Row
    <2>3. landed' = landed \cup {l0} /\ UNCHANGED <<leases, lapsed, requeued>>
      BY <1>8 DEF AckApplied, AcknowledgeJob
    <2>4. \A l \in leases : l.job = l0.job /\ Holds(l) => l = l0
      BY <1>0, <2>1, SameLease
    <2>5. \A l \in landed : l.job = l0.job => l.job \in requeued
      BY <1>0, <2>1 DEF Acknowledged
    <2> QED
      BY <1>0, <2>1, <2>2, <2>3, <2>4, <2>5
  <1>9. ASSUME NEW j \in Deliveries, RequeueReviewJob(j) PROVE LeaseInvOpen'
    <2>1. /\ jobs'[j].locked_by = None
          /\ \A k \in Deliveries : k # j => jobs'[k] = jobs[k]
          /\ requeued' = requeued \cup {j} /\ UNCHANGED <<leases, lapsed, landed>>
      BY <1>0, <1>9 DEF RequeueReviewJob, TypeOK, Row
    <2> QED
      BY <1>0, <2>1
  <1> QED
    BY StepCases, <1>1, <1>2, <1>3, <1>4, <1>5, <1>6, <1>7, <1>8, <1>9

-----------------------------------------------------------------------------
(* Active rows of one pull request.                                        *)

ActiveInv == OneActivePerHead /\ OneActiveUnlessRequeued

\* Two active rows of the pull request of j.
Rivals(j, k) ==
    /\ j # k
    /\ jobs[j].status \in Active
    /\ jobs[j].pull # None
    /\ jobs[k].pull = jobs[j].pull
    /\ jobs[k].status \in Active

LEMMA OpenActiveInv ==
    ActiveInv <=> \A j \in Deliveries, k \in Deliveries :
                     Rivals(j, k) => /\ jobs[j].head # jobs[k].head
                                     /\ j \in requeued \/ k \in requeued
  BY DEF ActiveInv, OneActivePerHead, OneActiveUnlessRequeued, ActiveOn, Rivals

LEMMA NextActiveInv == TypeOK /\ ActiveInv /\ [Next]_vars => ActiveInv'
  <1> SUFFICES ASSUME TypeOK, ActiveInv, [Next]_vars,
                      NEW j \in Deliveries, NEW k \in Deliveries, Rivals(j, k)'
               PROVE  /\ (jobs[j].head # jobs[k].head)'
                      /\ (j \in requeued \/ k \in requeued)'
    BY DEF ActiveInv, OneActivePerHead, OneActiveUnlessRequeued, ActiveOn, Rivals
  <1> USE QueueAssumption DEF Rivals
  <1> DEFINE Kept(i) == /\ jobs'[i].pull = jobs[i].pull
                        /\ jobs'[i].head = jobs[i].head
                        /\ jobs'[i].status \in Active => jobs[i].status \in Active
  <1>0. \A i \in Deliveries : jobs[i] \in Row
    BY DEF TypeOK
  <1>1. ASSUME Kept(j), Kept(k), requeued \subseteq requeued'
        PROVE  /\ (jobs[j].head # jobs[k].head)'
               /\ (j \in requeued \/ k \in requeued)'
    <2>1. Rivals(j, k)
      BY <1>1
    <2> QED
      BY <1>1, <2>1, OpenActiveInv
  <1>2. CASE TimersOnly
    BY <1>1, <1>2 DEF TimersOnly
  <1>3. ASSUME NEW d \in Deliveries, NEW p \in Pulls, NEW h \in Heads,
               EnqueueReviewJob(d, p, h)
        PROVE  /\ (jobs[j].head # jobs[k].head)'
               /\ (j \in requeued \/ k \in requeued)'
    <2>1. \A i \in Deliveries :
              \/ i = d /\ jobs'[i].pull = p
              \/ Kept(i) /\ (jobs'[i].status \in Active => jobs'[i].pull # p)
      <3> SUFFICES ASSUME NEW i \in Deliveries, i # d
                   PROVE  Kept(i) /\ (jobs'[i].status \in Active => jobs'[i].pull # p)
        BY <1>3, PendingFields DEF EnqueueReviewJob
      <3>1. CASE ActiveOn(i, p)
        <4>1. jobs'[i] = [jobs[i] EXCEPT !.status = "superseded"]
          BY <1>3, <3>1 DEF EnqueueReviewJob
        <4> QED
          BY <1>0, <4>1 DEF Row, Active
      <3>2. CASE ~ActiveOn(i, p)
        BY <1>3, <3>2 DEF EnqueueReviewJob, ActiveOn
      <3> QED
        BY <3>1, <3>2
    <2>2. Kept(j) /\ Kept(k)
      BY <2>1
    <2> QED
      BY <1>1, <1>3, <2>2 DEF EnqueueReviewJob, history
  <1>4. ASSUME NEW d \in Deliveries, EnqueueUnidentified(d)
        PROVE  /\ (jobs[j].head # jobs[k].head)'
               /\ (j \in requeued \/ k \in requeued)'
    <2>1. \A i \in Deliveries : IF i = d THEN jobs'[i].pull = None ELSE Kept(i)
      BY <1>0, <1>4, PendingFields DEF EnqueueUnidentified, TypeOK
    <2> QED
      BY <1>1, <1>4, <2>1 DEF EnqueueUnidentified, history
  <1>5. ASSUME NEW d \in Deliveries, NEW p \in Pulls, CancelReviewJob(d, p)
        PROVE  /\ (jobs[j].head # jobs[k].head)'
               /\ (j \in requeued \/ k \in requeued)'
    <2>1. \A i \in Deliveries : Kept(i)
      BY <1>0, <1>5 DEF CancelReviewJob, ActiveOn, Active, Row
    <2> QED
      BY <1>1, <1>5, <2>1 DEF CancelReviewJob, history
  <1>6. ASSUME NEW w \in Workers, NEW i \in Deliveries, WorkerClaim(w, i)
        PROVE  /\ (jobs[j].head # jobs[k].head)'
               /\ (j \in requeued \/ k \in requeued)'
    <2>1. \A n \in Deliveries : Kept(n)
      BY <1>0, <1>6
      DEF WorkerClaim, NextJob, FirstOf, WorkerCandidates, Claimable, Active, TypeOK, Row
    <2> QED
      BY <1>1, <1>6, <2>1 DEF WorkerClaim
  <1>7. ASSUME NEW w \in Workers, NEW i \in Deliveries,
               CompleteReviewJob(w, i) \/ FailReviewJob(w, i)
        PROVE  /\ (jobs[j].head # jobs[k].head)'
               /\ (j \in requeued \/ k \in requeued)'
    <2>1. \A n \in Deliveries : Kept(n)
      BY <1>0, <1>7 DEF CompleteReviewJob, FailReviewJob, OwnedByWorker, Active, TypeOK, Row
    <2> QED
      BY <1>1, <1>7, <2>1 DEF CompleteReviewJob, FailReviewJob, history
  <1>8. ASSUME NEW q \in inflight, NEW i \in Deliveries, NEW t \in Tokens, ClaimJob(q, i, t)
        PROVE  /\ (jobs[j].head # jobs[k].head)'
               /\ (j \in requeued \/ k \in requeued)'
    <2>1. \A n \in Deliveries : Kept(n)
      BY <1>0, <1>8
      DEF ClaimJob, NextJob, FirstOf, RunnerCandidates, Claimable, Active, TypeOK, Row
    <2> QED
      BY <1>1, <1>8, <2>1 DEF ClaimJob
  <1>9. ASSUME NEW q \in inflight, AckApplied(q)
        PROVE  /\ (jobs[j].head # jobs[k].head)'
               /\ (j \in requeued \/ k \in requeued)'
    <2>1. \A n \in Deliveries : Kept(n)
      BY <1>0, <1>9
      DEF AckApplied, AcknowledgeJob, AckRequest, Acknowledged, Active, TypeOK, Row
    <2> QED
      BY <1>1, <1>9, <2>1 DEF AckApplied, AcknowledgeJob
  <1>10. ASSUME NEW i \in Deliveries, RequeueReviewJob(i)
         PROVE  /\ (jobs[j].head # jobs[k].head)'
                /\ (j \in requeued \/ k \in requeued)'
    <2>1. /\ \A n \in Deliveries \ {i} : jobs'[n] = jobs[n]
          /\ jobs'[i].pull = jobs[i].pull /\ jobs'[i].head = jobs[i].head
          /\ requeued' = requeued \cup {i}
      BY <1>0, <1>10 DEF RequeueReviewJob, TypeOK, Row
    <2>2. CASE j = i \/ k = i
      BY <1>10, <2>1, <2>2 DEF RequeueReviewJob, HeadTaken, ActiveOn
    <2>3. CASE j # i /\ k # i
      BY <1>1, <2>1, <2>3
    <2> QED
      BY <2>2, <2>3
  <1> QED
    BY StepCases, <1>2, <1>3, <1>4, <1>5, <1>6, <1>7, <1>8, <1>9, <1>10

-----------------------------------------------------------------------------
(* The theorems.                                                           *)

IInv == TypeOK /\ RowInv /\ LeaseInv /\ ActiveInv

LEMMA Inductive == Spec => []IInv
  <1>1. Init => IInv
    <2>1. Init => ActiveInv
      BY DEF Init, NoRow, ActiveInv, OneActivePerHead, OneActiveUnlessRequeued, ActiveOn, Active
    <2> QED
      BY <2>1, InitTypeOK, InitRowInv, InitLeaseInv DEF IInv
  <1>2. IInv /\ [Next]_vars => IInv'
    <2>1. IInv /\ [Next]_vars => LeaseInvOpen'
      BY NextLeaseInv, OpenLeaseInv DEF IInv
    <2>2. LeaseInvOpen' => LeaseInv'
      BY OpenLeaseInv, PTL
    <2> QED
      BY <2>1, <2>2, NextTypeOK, NextRowInv, NextActiveInv DEF IInv
  <1> QED
    BY <1>1, <1>2, PTL DEF Spec

\* A running row always names a holder and a deadline, a pending row neither.
THEOREM LocksMatch == Spec => []LockMatchesStatus
  BY Inductive, PTL DEF IInv, RowInv

\* No row waits for a claim with its attempts used up.
THEOREM AttemptsLeft == Spec => []PendingHasAttemptsLeft
  BY Inductive, PTL DEF IInv, RowInv

\* No lease works after the job has been claimed again.
THEOREM StaleLeases == Spec => []StaleLeaseIsDead
  <1>1. IInv => StaleLeaseIsDead
    BY DEF IInv, LeaseInv, LapsedHoldsNothing, StaleLeaseIsDead, HeartbeatReply, AckReply
  <1> QED
    BY <1>1, Inductive, PTL

\* "ok" is only ever said about the runner's own recorded result.
THEOREM OkIsOwnResult == Spec => []OkMeansLanded
  BY Inductive, PTL DEF IInv, LeaseInv

\* One recorded result per job and requeue.
THEOREM OneResult == Spec => []OneResultPerJob
  BY Inductive, PTL DEF IInv, LeaseInv

\* One active row per pull request and head.
THEOREM ActivePerHead == Spec => []OneActivePerHead
  BY Inductive, PTL DEF IInv, ActiveInv

\* One active row per pull request, but for the rows an operator revived.
THEOREM ActivePerPull == Spec => []OneActiveUnlessRequeued
  BY Inductive, PTL DEF IInv, ActiveInv

LEMMA FinalStep ==
    ASSUME TypeOK, RowInv, [Next]_vars, NEW j \in Deliveries
    PROVE  /\ jobs[j].status \in Final => jobs'[j].status = jobs[j].status
           /\ jobs[j].status = "failed" => jobs'[j].status \in {"failed", "pending"}
  <1> USE DEF Final
  <1>0. \A i \in Deliveries : jobs[i] \in Row
    BY DEF TypeOK
  <1>1. CASE TimersOnly
    BY <1>1 DEF TimersOnly
  <1>2. CASE \/ \E d \in Deliveries, p \in Pulls, h \in Heads : EnqueueReviewJob(d, p, h)
             \/ \E d \in Deliveries : EnqueueUnidentified(d)
             \/ \E d \in Deliveries, p \in Pulls : CancelReviewJob(d, p)
    BY <1>0, <1>2
    DEF EnqueueReviewJob, EnqueueUnidentified, CancelReviewJob, ActiveOn, Active, RowInv,
        RowsHaveDeliveries, TypeOK, Row
  <1>3. CASE \E w \in Workers, i \in Deliveries : WorkerClaim(w, i)
    BY <1>0, <1>3
    DEF WorkerClaim, NextJob, FirstOf, WorkerCandidates, Claimable, TypeOK, Row
  <1>4. CASE \E w \in Workers, i \in Deliveries :
                CompleteReviewJob(w, i) \/ FailReviewJob(w, i)
    BY <1>0, <1>4 DEF CompleteReviewJob, FailReviewJob, OwnedByWorker, TypeOK, Row
  <1>5. CASE \E q \in inflight, i \in Deliveries, t \in Tokens : ClaimJob(q, i, t)
    BY <1>0, <1>5
    DEF ClaimJob, NextJob, FirstOf, RunnerCandidates, Claimable, TypeOK, Row
  <1>6. CASE \E q \in inflight : AckApplied(q)
    <2>1. PICK q \in inflight : AckApplied(q)
      BY <1>6
    <2>2. q.lease.job \in Deliveries /\ jobs[q.lease.job].status = "running"
      BY <2>1, AppliedMeans DEF AckApplied, AcknowledgeJob, AckRequest, Lease, LeaseLive
    <2> QED
      BY <1>0, <2>1, <2>2 DEF AckApplied, AcknowledgeJob, TypeOK, Row
  <1>7. CASE \E i \in Deliveries : RequeueReviewJob(i)
    BY <1>0, <1>7 DEF RequeueReviewJob, TypeOK, Row
  <1> QED
    BY StepCases, <1>1, <1>2, <1>3, <1>4, <1>5, <1>6, <1>7

\* Final states are final, and only a requeue leaves "failed".
THEOREM FinalForever == Spec => FinalStays
  <1>1. IInv /\ [Next]_vars =>
          [\A j \in Deliveries :
              /\ jobs[j].status \in Final => jobs'[j].status = jobs[j].status
              /\ jobs[j].status = "failed" => jobs'[j].status \in {"failed", "pending"}]_vars
    BY FinalStep DEF IInv
  <1> QED
    BY <1>1, Inductive, PTL DEF Spec, FinalStays

-----------------------------------------------------------------------------
(* The refinement of JobLifecycle.  The state of a job is its status, the  *)
(* holder whose report would be accepted, and the two histories.           *)

Given(j) == {l \in leases : l.job = j}
Results(j) == {l \in landed : l.job = j}

\* A state of JobLifecycle, by its columns.
JobState(phase, reporters, given, results) ==
    [phase |-> phase, reporters |-> reporters, given |-> given, results |-> results]

Allowed(s, t) == t = s \/ Promise!JobStep(s, t)

LEMMA AppliedIff ==
    ASSUME NEW l
    PROVE  AckReply(l) = "applied" <=> Holds(l) /\ LeaseLive(l.job)
  BY DEF AckReply, LeaseLive, Acknowledged

\* The workers' half and the runners' half of Reporters.
LEMMA ReportersAre ==
    ASSUME NEW j \in Deliveries
    PROVE  Reporters(j) =
               {w \in Workers : jobs[j].status = "running" /\ jobs[j].locked_by = w}
                 \cup {l \in leases : l.job = j /\ Holds(l) /\ LeaseLive(j)}
  BY AppliedIff DEF Reporters, OwnedByWorker

LEMMA JobOfIs ==
    ASSUME NEW j PROVE JobOf(j) = JobState(jobs[j].status, Reporters(j), Given(j), Results(j))
  BY DEF JobOf, JobState, Given, Results

LEMMA NobodyReports ==
    ASSUME NEW j \in Deliveries, jobs[j].status # "running" PROVE Reporters(j) = {}
  BY ReportersAre DEF LeaseLive

\* Leases are records and worker ids are text: a report comes from one or the other.
LEMMA WorkersAreNoLeases == Workers \cap Lease = {}
  BY QueueAssumption DEF Lease

LEMMA ReportersType ==
    ASSUME TypeOK, NEW j \in Deliveries
    PROVE  /\ Reporters(j) \subseteq Workers \cup Lease
           /\ Reporters(j) \cap Lease = {l \in leases : l.job = j /\ Holds(l) /\ LeaseLive(j)}
           /\ Reporters(j) \ Lease =
                 {w \in Workers : jobs[j].status = "running" /\ jobs[j].locked_by = w}
  BY ReportersAre, WorkersAreNoLeases DEF TypeOK

LEMMA JobOfType ==
    TypeOK => [j \in Deliveries |-> JobOf(j)] \in [Deliveries -> Promise!State]
  <1> SUFFICES ASSUME TypeOK, NEW j \in Deliveries PROVE JobOf(j) \in Promise!State
    OBVIOUS
  <1>1. jobs[j].status \in Status
    BY DEF TypeOK, Row
  <1>2. /\ Reporters(j) \subseteq Workers \cup Lease
        /\ Given(j) \subseteq Lease
        /\ Results(j) \subseteq Lease
    BY ReportersType DEF TypeOK, Given, Results
  <1> QED
    BY <1>1, <1>2, JobOfIs
    DEF Promise!State, JobState, Status, Active, Acknowledged, Final

\* What JobLifecycle allows, column by column.
LEMMA Moves ==
    ASSUME NEW r, NEW g, NEW s
    PROVE  /\ Allowed(JobState("absent", r, g, s), JobState("pending", r, g, s))
           /\ Allowed(JobState("failed", r, g, s), JobState("pending", r, g, s))
           /\ \A p \in {"pending", "running"}, f \in {"superseded", "cancelled"} :
                 Allowed(JobState(p, r, g, s), JobState(f, {}, g, s))
           /\ Allowed(JobState("running", r, g, s), JobState("running", r \ Lease, g, s))
  <1> DEFINE from(p) == JobState(p, r, g, s)
  <1>1. Promise!Queued(from("absent"), from("pending"))
    BY DEF JobState, Promise!Queued
  <1>2. Promise!Requeued(from("failed"), from("pending"))
    BY DEF JobState, Promise!Requeued
  <1>3. ASSUME NEW p \in {"pending", "running"}, NEW f \in {"superseded", "cancelled"}
        PROVE  Promise!Retired(from(p), JobState(f, {}, g, s))
    <2>1. PICK old : old = from(p)
      OBVIOUS
    <2>2. [old EXCEPT !.phase = f] = JobState(f, r, g, s) /\ old.phase = p
      BY <2>1 DEF JobState
    <2>3. [JobState(f, r, g, s) EXCEPT !.reporters = {}] = JobState(f, {}, g, s)
      BY DEF JobState
    <2>4. [old EXCEPT !.phase = f, !.reporters = {}] = JobState(f, {}, g, s)
      BY <2>2, <2>3
    <2>5. Promise!Retired(old, JobState(f, {}, g, s))
      BY <2>2, <2>4 DEF Promise!Retired
    <2> QED
      BY <2>1, <2>5
  <1>4. Promise!LeaseRunsOut(from("running"), JobState("running", r \ Lease, g, s))
    BY DEF JobState, Promise!LeaseRunsOut
  <1> QED
    BY <1>1, <1>2, <1>3, <1>4 DEF Allowed, Promise!JobStep

\* The state holds no good lease, so it may be claimed.
Unleased(p, r) == p = "pending" \/ (p = "running" /\ r \cap Lease = {})

LEMMA WorkerClaimMove ==
    ASSUME NEW p, NEW r, NEW g, NEW s, NEW w \in Workers, Unleased(p, r)
    PROVE  Allowed(JobState(p, r, g, s), JobState("running", {w}, g, s))
  <1>1. PICK from : from = JobState(p, r, g, s)
    OBVIOUS
  <1>2. [from EXCEPT !.phase = "running"] = JobState("running", r, g, s)
    BY <1>1 DEF JobState
  <1>3. Promise!Free(from)
    BY <1>1 DEF JobState, Unleased, Promise!Free
  <1>4. [JobState("running", r, g, s) EXCEPT !.reporters = {w}] = JobState("running", {w}, g, s)
    BY DEF JobState
  <1>5. [from EXCEPT !.phase = "running", !.reporters = {w}] = JobState("running", {w}, g, s)
    BY <1>2, <1>4
  <1>6. Promise!ClaimedByWorker(from, JobState("running", {w}, g, s))
    BY <1>3, <1>5 DEF Promise!ClaimedByWorker
  <1> QED
    BY <1>1, <1>6 DEF Allowed, Promise!JobStep

LEMMA RunnerClaimMove ==
    ASSUME NEW p, NEW r, NEW g, NEW s, NEW l \in Lease, l \notin g, Unleased(p, r)
    PROVE  Allowed(JobState(p, r, g, s), JobState("running", {l}, g \cup {l}, s))
  <1>1. PICK from : from = JobState(p, r, g, s)
    OBVIOUS
  <1>2. [from EXCEPT !.phase = "running"] = JobState("running", r, g, s)
    BY <1>1 DEF JobState
  <1>3. Promise!Free(from) /\ from.given = g
    BY <1>1 DEF JobState, Unleased, Promise!Free
  <1>4. [JobState("running", r, g, s) EXCEPT !.reporters = {l}] = JobState("running", {l}, g, s)
    BY DEF JobState
  <1>5. [JobState("running", {l}, g, s) EXCEPT !.given = g \cup {l}]
            = JobState("running", {l}, g \cup {l}, s)
    BY DEF JobState
  <1>6. [from EXCEPT !.phase = "running", !.reporters = {l}, !.given = g \cup {l}]
            = JobState("running", {l}, g \cup {l}, s)
    BY <1>2, <1>4, <1>5
  <1>7. Promise!ClaimedByRunner(from, JobState("running", {l}, g \cup {l}, s))
    BY <1>3, <1>6 DEF Promise!ClaimedByRunner
  <1> QED
    BY <1>1, <1>7 DEF Allowed, Promise!JobStep

LEMMA ReportMoves ==
    ASSUME NEW r, NEW g, NEW s
    PROVE  /\ \A f \in {"succeeded", "failed", "pending"} :
                 r \cap Workers # {} =>
                     Allowed(JobState("running", r, g, s), JobState(f, {}, g, s))
           /\ \A l \in r \cap Lease, f \in {"succeeded", "failed"} :
                 Allowed(JobState("running", r, g, s), JobState(f, {}, g, s \cup {l}))
  <1>1. PICK from : from = JobState("running", r, g, s)
    OBVIOUS
  <1>2. from.phase = "running" /\ from.reporters = r /\ from.results = s
    BY <1>1 DEF JobState
  <1>3. ASSUME NEW f PROVE [from EXCEPT !.phase = f, !.reporters = {}] = JobState(f, {}, g, s)
    <2>1. [from EXCEPT !.phase = f] = JobState(f, r, g, s)
      BY <1>1 DEF JobState
    <2>2. [JobState(f, r, g, s) EXCEPT !.reporters = {}] = JobState(f, {}, g, s)
      BY DEF JobState
    <2> QED
      BY <2>1, <2>2
  <1>4. ASSUME NEW f \in {"succeeded", "failed", "pending"}, r \cap Workers # {}
        PROVE  Promise!ReportedByWorker(from, JobState(f, {}, g, s))
    BY <1>2, <1>3, <1>4 DEF Promise!ReportedByWorker
  <1>5. ASSUME NEW l \in r \cap Lease, NEW f \in {"succeeded", "failed"}
        PROVE  Promise!ReportedByRunner(from, JobState(f, {}, g, s \cup {l}))
    <2>1. [JobState(f, {}, g, s) EXCEPT !.results = s \cup {l}] = JobState(f, {}, g, s \cup {l})
      BY DEF JobState
    <2>2. [from EXCEPT !.phase = f, !.reporters = {}, !.results = s \cup {l}]
              = JobState(f, {}, g, s \cup {l})
      BY <1>3, <2>1
    <2> QED
      BY <1>2, <2>2 DEF Promise!ReportedByRunner
  <1> QED
    BY <1>1, <1>4, <1>5 DEF Allowed, Promise!JobStep

\* The same of the state after a step.
LEMMA AfterStep ==
    ASSUME NEW j \in Deliveries
    PROVE  /\ JobOf(j)' = JobState(jobs'[j].status, Reporters(j)', Given(j)', Results(j)')
           /\ Reporters(j)' =
                 {w \in Workers : jobs'[j].status = "running" /\ jobs'[j].locked_by = w}
                   \cup {l \in leases' : l.job = j /\ Holds(l)' /\ LeaseLive(j)'}
           /\ jobs'[j].status # "running" => Reporters(j)' = {}
  <1>1. JobOf(j)' = JobState(jobs'[j].status, Reporters(j)', Given(j)', Results(j)')
    BY DEF JobOf, JobState, Given, Results
  <1>2. \A l : (AckReply(l) = "applied")' <=> Holds(l)' /\ LeaseLive(l.job)'
    BY DEF AckReply, LeaseLive, Acknowledged, Holds
  <1>3. Reporters(j)' =
            {w \in Workers : jobs'[j].status = "running" /\ jobs'[j].locked_by = w}
              \cup {l \in leases' : l.job = j /\ Holds(l)' /\ LeaseLive(j)'}
    BY <1>2 DEF Reporters, OwnedByWorker
  <1>4. jobs'[j].status # "running" => ~LeaseLive(j)'
    BY DEF LeaseLive
  <1> QED
    BY <1>1, <1>3, <1>4

\* A row that stays as it is, together with its histories.
LEMMA RowStays ==
    ASSUME NEW k \in Deliveries, jobs'[k] = jobs[k],
           Given(k)' = Given(k), Results(k)' = Results(k)
    PROVE  JobOf(k)' = JobOf(k)
  <1>1. Reporters(k)' = Reporters(k)
    <2>1. \A l \in Given(k) : Holds(l)' <=> Holds(l)
      BY DEF Given, Holds
    <2>2. LeaseLive(k)' <=> LeaseLive(k)
      BY DEF LeaseLive
    <2>3. {l \in leases : l.job = k /\ Holds(l) /\ LeaseLive(k)}'
              = {l \in leases : l.job = k /\ Holds(l) /\ LeaseLive(k)}
      BY <2>1, <2>2 DEF Given
    <2> QED
      BY <2>3, ReportersAre, AfterStep
  <1> QED
    BY <1>1, JobOfIs, AfterStep

\* A heartbeat or an acknowledgement on its way carries a lease that claim_job
\* returned.
InflightLeases == \A q \in inflight : q.op # "claim" => q.lease \in leases

LEMMA NextInflight == TypeOK /\ InflightLeases /\ [Next]_vars => InflightLeases'
  <1> SUFFICES ASSUME TypeOK, InflightLeases, [Next]_vars PROVE InflightLeases'
    OBVIOUS
  <1>1. ASSUME inflight' \subseteq inflight, leases \subseteq leases' PROVE InflightLeases'
    BY <1>1 DEF InflightLeases
  <1>2. ASSUME NEW q, AuthenticateRequest(q) PROVE InflightLeases'
    BY <1>2 DEF InflightLeases, AuthenticateRequest, history
  <1>3. CASE UNCHANGED vars
    BY <1>1, <1>3 DEF vars
  <1>4. CASE Webhook
    BY <1>1, <1>4
    DEF Webhook, Duplicate, EnqueueReviewJob, EnqueueUnidentified, CancelReviewJob, vars, history
  <1>5. CASE WorkerStep
    BY <1>1, <1>5
    DEF WorkerStep, WorkerClaim, RenewReviewJobLease, CompleteReviewJob, FailReviewJob, history
  <1>6. CASE RunnerAccount
    BY <1>1, <1>6 DEF RunnerAccount, PairRunner, RevokeRunner, history
  <1>7. CASE RunnerSend
    BY <1>2, <1>7 DEF RunnerSend
  <1>8. CASE RunnerExecute
    <2>1. PICK q \in inflight : \/ \E j \in Deliveries, t \in Tokens : ClaimJob(q, j, t)
                                \/ ClaimNoJob(q) \/ HeartbeatJob(q)
                                \/ AcknowledgeJob(q) \/ RequestFails(q)
      BY <1>8 DEF RunnerExecute
    <2>2. inflight' = inflight \ {q} /\ leases \subseteq leases'
      BY <2>1 DEF ClaimJob, ClaimNoJob, HeartbeatJob, AcknowledgeJob, RequestFails, history
    <2> QED
      BY <1>1, <2>2
  <1>9. CASE (\E j \in Deliveries : RequeueReviewJob(j)) \/ Tick
    BY <1>1, <1>9 DEF RequeueReviewJob, Tick, history
  <1> QED
    BY <1>3, <1>4, <1>5, <1>6, <1>7, <1>8, <1>9 DEF Next

\* The clock: a lease runs out, or nothing happens to the job.
LEMMA TimersAllowed ==
    ASSUME TypeOK, TimersOnly, NEW j \in Deliveries
    PROVE  Allowed(JobOf(j), JobOf(j)')
  <1>0. jobs[j] \in Row
    BY DEF TypeOK
  <1>1. /\ jobs'[j].status = jobs[j].status
        /\ jobs'[j].locked_by = jobs[j].locked_by
        /\ leases' = leases /\ Given(j)' = Given(j) /\ Results(j)' = Results(j)
    BY DEF TimersOnly, Given, Results
  <1>2. \A l \in leases : l.job = j => (Holds(l)' <=> Holds(l))
    BY DEF TimersOnly, Holds
  <1>3. LeaseLive(j)' => LeaseLive(j)
    BY <1>0, QueueAssumption DEF LeaseLive, TimersOnly, Row
  <1>4. CASE LeaseLive(j)' <=> LeaseLive(j)
    <2>1. Reporters(j)' = Reporters(j)
      BY <1>1, <1>2, <1>4, ReportersAre, AfterStep
    <2> QED
      BY <1>1, <2>1, JobOfIs, AfterStep DEF Allowed
  <1>5. CASE LeaseLive(j) /\ ~LeaseLive(j)'
    <2>1. Reporters(j)' = Reporters(j) \ Lease
      BY <1>1, <1>5, AfterStep, ReportersType
    <2>2. jobs[j].status = "running"
      BY <1>5 DEF LeaseLive
    <2> QED
      BY <1>1, <2>1, <2>2, JobOfIs, AfterStep, Moves
  <1> QED
    BY <1>3, <1>4, <1>5

\* A push, an unidentified event and a close: the new row is queued, the active
\* rows of the pull request are retired.
LEMMA WebhookAllowed ==
    ASSUME TypeOK, RowInv, NEW j \in Deliveries,
           \/ \E d \in Deliveries, p \in Pulls, h \in Heads : EnqueueReviewJob(d, p, h)
           \/ \E d \in Deliveries : EnqueueUnidentified(d)
           \/ \E d \in Deliveries, p \in Pulls : CancelReviewJob(d, p)
    PROVE  Allowed(JobOf(j), JobOf(j)')
  <1>0. jobs[j] \in Row
    BY DEF TypeOK
  <1>1. Given(j)' = Given(j) /\ Results(j)' = Results(j)
    BY DEF EnqueueReviewJob, EnqueueUnidentified, CancelReviewJob, history, Given, Results
  <1>2. \/ jobs'[j] = jobs[j]
        \/ jobs[j].status = "absent" /\ jobs'[j].status = "pending"
        \/ jobs[j].status \in Active /\ jobs'[j].status \in {"superseded", "cancelled"}
    BY <1>0, PendingFields
    DEF EnqueueReviewJob, EnqueueUnidentified, CancelReviewJob, ActiveOn, RowInv,
        RowsHaveDeliveries, TypeOK, Row
  <1>3. CASE jobs'[j] = jobs[j]
    BY <1>1, <1>3, RowStays DEF Allowed
  <1>4. CASE jobs[j].status = "absent" /\ jobs'[j].status = "pending"
    <2>1. Reporters(j) = {} /\ Reporters(j)' = {}
      BY <1>4, NobodyReports, AfterStep
    <2>2. /\ JobOf(j) = JobState("absent", {}, Given(j), Results(j))
          /\ JobOf(j)' = JobState("pending", {}, Given(j), Results(j))
      BY <1>1, <1>4, <2>1, JobOfIs, AfterStep
    <2>3. Allowed(JobState("absent", {}, Given(j), Results(j)),
                  JobState("pending", {}, Given(j), Results(j)))
      BY Moves
    <2> QED
      BY <2>2, <2>3
  <1>5. CASE jobs[j].status \in Active /\ jobs'[j].status \in {"superseded", "cancelled"}
    <2>1. Reporters(j)' = {}
      BY <1>5, NobodyReports, AfterStep
    <2>2. /\ JobOf(j) = JobState(jobs[j].status, Reporters(j), Given(j), Results(j))
          /\ JobOf(j)' = JobState(jobs'[j].status, {}, Given(j), Results(j))
      BY <1>1, <2>1, JobOfIs, AfterStep
    <2>3. Allowed(JobState(jobs[j].status, Reporters(j), Given(j), Results(j)),
                  JobState(jobs'[j].status, {}, Given(j), Results(j)))
      BY <1>5, Moves DEF Active
    <2> QED
      BY <2>2, <2>3
  <1> QED
    BY <1>2, <1>3, <1>4, <1>5

\* A row that can be claimed has no good lease.
LEMMA ClaimableIsFree ==
    ASSUME TypeOK, NEW j \in Deliveries, Claimable(j)
    PROVE  Unleased(jobs[j].status, Reporters(j))
  BY ReportersType DEF Claimable, LeaseLive, Unleased

LEMMA WorkerClaimAllowed ==
    ASSUME TypeOK, NEW w \in Workers, NEW i \in Deliveries, WorkerClaim(w, i),
           NEW j \in Deliveries
    PROVE  Allowed(JobOf(j), JobOf(j)')
  <1> USE QueueAssumption
  <1>1. Given(j)' = Given(j) /\ Results(j)' = Results(j)
    BY DEF WorkerClaim, Given, Results
  <1>2. CASE j # i
    BY <1>1, <1>2, RowStays DEF WorkerClaim, TypeOK, Allowed
  <1>3. CASE j = i
    <2>0. jobs[j] \in Row
      BY DEF TypeOK
    <2>1. jobs'[j].status = "running" /\ jobs'[j].locked_by = w
      BY <1>3, <2>0 DEF WorkerClaim, TypeOK, Row
    <2>2. Reporters(j)' = {w}
      <3>1. \A l \in leases' : l.job = j => ~Holds(l)'
        BY <2>1 DEF WorkerClaim, Holds, TypeOK, Lease
      <3> QED
        BY <2>1, <3>1, ReportersAre, AfterStep
    <2>3. Claimable(j)
      BY <1>3 DEF WorkerClaim, NextJob, FirstOf, WorkerCandidates
    <2>4. JobOf(j) = JobState(jobs[j].status, Reporters(j), Given(j), Results(j))
      BY JobOfIs, AfterStep
    <2>5. JobOf(j)' = JobState("running", {w}, Given(j), Results(j))
      BY <1>1, <2>1, <2>2, JobOfIs, AfterStep
    <2>6. Allowed(JobState(jobs[j].status, Reporters(j), Given(j), Results(j)),
                  JobState("running", {w}, Given(j), Results(j)))
      BY <2>3, ClaimableIsFree, WorkerClaimMove
    <2> QED
      BY <2>4, <2>5, <2>6
  <1> QED
    BY <1>2, <1>3

LEMMA WorkerReportAllowed ==
    ASSUME TypeOK, NEW w \in Workers, NEW i \in Deliveries,
           CompleteReviewJob(w, i) \/ FailReviewJob(w, i), NEW j \in Deliveries
    PROVE  Allowed(JobOf(j), JobOf(j)')
  <1>1. Given(j)' = Given(j) /\ Results(j)' = Results(j)
    BY DEF CompleteReviewJob, FailReviewJob, history, Given, Results
  <1>2. CASE j # i
    BY <1>1, <1>2, RowStays DEF CompleteReviewJob, FailReviewJob, TypeOK, Allowed
  <1>3. CASE j = i
    <2>0. jobs[j] \in Row
      BY DEF TypeOK
    <2>1. /\ jobs[j].status = "running" /\ jobs[j].locked_by = w
          /\ jobs'[j].status \in {"succeeded", "failed", "pending"}
      BY <1>3, <2>0 DEF CompleteReviewJob, FailReviewJob, OwnedByWorker, TypeOK, Row
    <2>2. Reporters(j)' = {} /\ w \in Reporters(j)
      BY <2>1, ReportersAre, AfterStep
    <2>3. /\ JobOf(j) = JobState("running", Reporters(j), Given(j), Results(j))
          /\ JobOf(j)' = JobState(jobs'[j].status, {}, Given(j), Results(j))
      BY <1>1, <2>1, <2>2, JobOfIs, AfterStep
    <2>4. Allowed(JobState("running", Reporters(j), Given(j), Results(j)),
                  JobState(jobs'[j].status, {}, Given(j), Results(j)))
      BY <2>1, <2>2, ReportMoves
    <2> QED
      BY <2>3, <2>4
  <1> QED
    BY <1>2, <1>3

\* The lease is new because its token is.
LEMMA RunnerClaimAllowed ==
    ASSUME TypeOK, NEW q \in inflight, NEW i \in Deliveries, NEW t \in Tokens,
           ClaimJob(q, i, t), NEW j \in Deliveries
    PROVE  Allowed(JobOf(j), JobOf(j)')
  <1> USE QueueAssumption
  <1>0. PICK l \in Lease : l = [job |-> i, runner |-> q.runner, token |-> t]
    BY DEF ClaimJob, ClaimRequest, Lease
  <1>1. /\ l.job = i /\ l.token = t /\ l.runner = q.runner /\ l.runner \in Runners
        /\ leases' = leases \cup {l}
        /\ \A m \in leases : m.token # t
    BY <1>0 DEF ClaimJob, Lease
  <1>2. Results(j)' = Results(j)
    BY DEF ClaimJob, Results
  <1>3. CASE j # i
    <2>1. Given(j)' = Given(j)
      BY <1>1, <1>3 DEF Given
    <2> QED
      BY <1>2, <1>3, <2>1, RowStays DEF ClaimJob, TypeOK, Allowed
  <1>4. CASE j = i
    <2>0. jobs[j] \in Row
      BY DEF TypeOK
    <2>1. /\ jobs'[j].status = "running" /\ jobs'[j].locked_by = l.runner
          /\ jobs'[j].lease_token = t /\ jobs'[j].locked_for = LeaseTicks
      BY <1>1, <1>4, <2>0 DEF ClaimJob, TypeOK, Row
    <2>2. Given(j)' = Given(j) \cup {l} /\ l \notin Given(j)
      BY <1>1, <1>4 DEF Given
    <2>3. Reporters(j)' = {l}
      <3>1. LeaseLive(j)'
        BY <2>1 DEF LeaseLive
      <3>2. \A m \in leases' : m.job = j /\ Holds(m)' <=> m = l
        BY <1>1, <1>4, <2>1 DEF Holds
      <3> QED
        BY <1>1, <2>1, <3>1, <3>2, ReportersAre, AfterStep
    <2>4. Claimable(j)
      BY <1>4 DEF ClaimJob, NextJob, FirstOf, RunnerCandidates
    <2>5. JobOf(j) = JobState(jobs[j].status, Reporters(j), Given(j), Results(j))
      BY JobOfIs, AfterStep
    <2>6. JobOf(j)' = JobState("running", {l}, Given(j) \cup {l}, Results(j))
      BY <1>2, <2>1, <2>2, <2>3, JobOfIs, AfterStep
    <2>7. Allowed(JobState(jobs[j].status, Reporters(j), Given(j), Results(j)),
                  JobState("running", {l}, Given(j) \cup {l}, Results(j)))
      BY <2>2, <2>4, ClaimableIsFree, RunnerClaimMove
    <2> QED
      BY <2>5, <2>6, <2>7
  <1> QED
    BY <1>3, <1>4

LEMMA RunnerReportAllowed ==
    ASSUME TypeOK, InflightLeases, NEW q \in inflight, AckApplied(q), NEW j \in Deliveries
    PROVE  Allowed(JobOf(j), JobOf(j)')
  <1>0. PICK l \in leases : l = q.lease
    BY DEF InflightLeases, AckApplied, AcknowledgeJob, AckRequest
  <1>1. /\ l.job \in Deliveries /\ q.result \in Acknowledged
        /\ leases' = leases /\ landed' = landed \cup {l}
        /\ Holds(l) /\ LeaseLive(l.job) /\ l \in Lease
        /\ jobs' = [jobs EXCEPT ![l.job].status = q.result, ![l.job].locked_for = None]
    BY <1>0, AppliedIff DEF AckApplied, AcknowledgeJob, AckRequest, Lease, TypeOK
  <1>2. Given(j)' = Given(j)
    BY <1>1 DEF Given
  <1>3. CASE j # l.job
    <2>1. Results(j)' = Results(j) /\ jobs'[j] = jobs[j]
      BY <1>1, <1>3 DEF Results, TypeOK
    <2> QED
      BY <1>2, <2>1, RowStays DEF Allowed
  <1>4. CASE j = l.job
    <2>0. jobs[j] \in Row
      BY DEF TypeOK
    <2>1. /\ jobs[j].status = "running" /\ jobs'[j].status = q.result
          /\ q.result \in {"succeeded", "failed"}
      BY <1>1, <1>4, <2>0 DEF LeaseLive, TypeOK, Row, Acknowledged
    <2>2. Reporters(j)' = {} /\ l \in Reporters(j)
      BY <1>1, <1>4, <2>1, NobodyReports, AfterStep, ReportersAre, AfterStep
    <2>3. Results(j)' = Results(j) \cup {l}
      BY <1>1, <1>4 DEF Results
    <2>4. /\ JobOf(j) = JobState("running", Reporters(j), Given(j), Results(j))
          /\ JobOf(j)' = JobState(q.result, {}, Given(j), Results(j) \cup {l})
      BY <1>2, <2>1, <2>2, <2>3, JobOfIs, AfterStep
    <2>5. Allowed(JobState("running", Reporters(j), Given(j), Results(j)),
                  JobState(q.result, {}, Given(j), Results(j) \cup {l}))
      BY <1>1, <2>1, <2>2, ReportMoves
    <2> QED
      BY <2>4, <2>5
  <1> QED
    BY <1>3, <1>4

LEMMA RequeueAllowed ==
    ASSUME TypeOK, NEW i \in Deliveries, RequeueReviewJob(i), NEW j \in Deliveries
    PROVE  Allowed(JobOf(j), JobOf(j)')
  <1>1. Given(j)' = Given(j) /\ Results(j)' = Results(j)
    BY DEF RequeueReviewJob, Given, Results
  <1>2. CASE j # i
    BY <1>1, <1>2, RowStays DEF RequeueReviewJob, TypeOK, Allowed
  <1>3. CASE j = i
    <2>0. jobs[j] \in Row
      BY DEF TypeOK
    <2>1. jobs[j].status = "failed" /\ jobs'[j].status = "pending"
      BY <1>3, <2>0 DEF RequeueReviewJob, TypeOK, Row
    <2>2. Reporters(j) = {} /\ Reporters(j)' = {}
      BY <2>1, NobodyReports, AfterStep
    <2>3. /\ JobOf(j) = JobState("failed", {}, Given(j), Results(j))
          /\ JobOf(j)' = JobState("pending", {}, Given(j), Results(j))
      BY <1>1, <2>1, <2>2, JobOfIs, AfterStep
    <2>4. Allowed(JobState("failed", {}, Given(j), Results(j)),
                  JobState("pending", {}, Given(j), Results(j)))
      BY Moves
    <2> QED
      BY <2>3, <2>4
  <1> QED
    BY <1>2, <1>3

LEMMA NextAllowed ==
    IInv /\ InflightLeases /\ [Next]_vars => \A j \in Deliveries : Allowed(JobOf(j), JobOf(j)')
  <1> SUFFICES ASSUME IInv, InflightLeases, [Next]_vars, NEW j \in Deliveries
               PROVE  Allowed(JobOf(j), JobOf(j)')
    OBVIOUS
  <1>1. TypeOK /\ RowInv
    BY DEF IInv
  <1> QED
    BY <1>1, StepCases, TimersAllowed, WebhookAllowed, WorkerClaimAllowed,
       WorkerReportAllowed, RunnerClaimAllowed, RunnerReportAllowed, RequeueAllowed

\* The queue implements JobLifecycle, job by job: under every interleaving of
\* webhooks, workers, runners and operators a job moves only as promised.
THEOREM QueueKeepsThePromise == Spec => KeepsThePromise
  <1> DEFINE jobStates == [j \in Deliveries |-> JobOf(j)]
  <1>1. Init => Promise!JobInit
    <2> SUFFICES ASSUME Init, NEW j \in Deliveries PROVE JobOf(j) = Promise!Absent
      BY DEF Promise!JobInit
    <2>1. /\ jobs[j].status = "absent" /\ Reporters(j) = {}
          /\ Given(j) = {} /\ Results(j) = {}
      BY NobodyReports DEF Init, NoRow, Given, Results
    <2> QED
      BY <2>1, JobOfIs DEF JobState, Promise!Absent
  <1>2. IInv /\ InflightLeases /\ IInv' /\ [Next]_vars => [Promise!JobNext]_jobStates
    <2> SUFFICES ASSUME IInv, InflightLeases, IInv', [Next]_vars PROVE Promise!JobNext
      OBVIOUS
    <2>1. TypeOK' => ([j \in Deliveries |-> JobOf(j)] \in [Deliveries -> Promise!State])'
      BY JobOfType, PTL
    <2>2. jobStates' \in [Deliveries -> Promise!State]
      BY <2>1 DEF IInv
    <2>3. \A j \in Deliveries :
             jobStates'[j] = jobStates[j] \/ Promise!JobStep(jobStates[j], jobStates'[j])
      BY NextAllowed DEF Allowed
    <2> QED
      BY <2>2, <2>3 DEF IInv, Promise!JobNext
  <1>3. Spec => []InflightLeases
    <2>1. Init => InflightLeases
      BY DEF Init, InflightLeases
    <2>2. TypeOK /\ InflightLeases /\ [Next]_vars => InflightLeases'
      BY NextInflight
    <2> QED
      BY <2>1, <2>2, TypeCorrect, PTL DEF Spec
  <1> QED
    BY <1>1, <1>2, <1>3, Inductive, PTL DEF Spec, KeepsThePromise, Promise!JobSpec

=============================================================================
