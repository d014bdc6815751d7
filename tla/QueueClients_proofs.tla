------------------------ MODULE QueueClients_proofs ------------------------
(***************************************************************************)
(* Proofs about the two kinds of process that work the queue, for any      *)
(* number of them.  Hosted workers only ever take steps of the queue, and  *)
(* whatever worker ids they share two processes wait for the same job only *)
(* after its lease ran out under one of them.  Daemons, too, only take steps of the queue; a       *)
(* result is only sent for the job it was computed for, a daemon which has *)
(* been told it is revoked reviews nothing, a review holds its lease until *)
(* time runs out, and only lost jobs are given up.  Everything proved of   *)
(* ReviewQueue therefore holds of both.                                    *)
(***************************************************************************)
EXTENDS HostedWorker, RunnerDaemon, ReviewQueue_proofs

-----------------------------------------------------------------------------
(* Types, and the threads of a process.                                    *)

LEMMA WInitType == WInit => WorkerTypeOK
  BY WorkerAssumption DEF WInit, WorkerTypeOK

LEMMA LeaveType ==
    ASSUME WorkerTypeOK, NEW p \in Processes, NEW where \in {"down", "idle"},
           Leave(p, where), stopping' \subseteq Processes
    PROVE  WorkerTypeOK'
  BY WorkerAssumption DEF WorkerTypeOK, Leave

LEMMA WNextType == WorkerTypeOK /\ [WNext]_wvars => WorkerTypeOK'
  <1> SUFFICES ASSUME WorkerTypeOK, [WNext]_wvars PROVE WorkerTypeOK'
    OBVIOUS
  <1> USE WorkerAssumption
  <1>1. ASSUME NEW p \in Processes, StartProcess(p) \/ KillProcess(p) \/ OverrunEnds(p)
        PROVE  WorkerTypeOK'
    BY <1>1, LeaveType DEF StartProcess, KillProcess, OverrunEnds, WorkerTypeOK
  <1>2. ASSUME NEW p \in Processes, StopSignal(p) PROVE WorkerTypeOK'
    <2>1. stopping' \subseteq Processes
      BY <1>2 DEF StopSignal, WorkerTypeOK
    <2>2. CASE Leave(p, "down")
      BY <2>1, <2>2, LeaveType
    <2>3. CASE UNCHANGED <<pc, job, renewing, outlived>>
      BY <2>1, <2>3 DEF WorkerTypeOK
    <2> QED
      BY <1>2, <2>2, <2>3 DEF StopSignal
  <1>3. ASSUME NEW p \in Processes, NEW j \in Deliveries, ClaimAndRun(p, j)
        PROVE  WorkerTypeOK'
    BY <1>3 DEF ClaimAndRun, WorkerTypeOK
  <1>4. ASSUME NEW p \in Processes, RenewalRound(p) PROVE WorkerTypeOK'
    BY <1>4 DEF RenewalRound, WorkerTypeOK
  <1>5. ASSUME NEW p \in Processes, JobReturns(p) \/ JobRaises(p) PROVE WorkerTypeOK'
    <2>1. stopping' \subseteq Processes
      BY <1>5 DEF JobReturns, JobRaises, DiesOfLostLease, WorkerTypeOK
    <2>2. Leave(p, "down") \/ Leave(p, "idle")
      BY <1>5 DEF JobReturns, JobRaises, DiesOfLostLease
    <2> QED
      BY <2>1, <2>2, LeaveType
  <1>6. ASSUME NEW p \in Processes, ShutdownDeadline(p) PROVE WorkerTypeOK'
    BY <1>6 DEF ShutdownDeadline, WorkerTypeOK
  <1>7. ASSUME WorkerTick PROVE WorkerTypeOK'
    BY <1>7 DEF WorkerTick, WorkerTypeOK
  <1>8. ASSUME UNCHANGED workerVars PROVE WorkerTypeOK'
    BY <1>8 DEF workerVars, WorkerTypeOK
  <1> QED
    BY <1>1, <1>2, <1>3, <1>4, <1>5, <1>6, <1>7, <1>8 DEF WNext, wvars

\* The types hold, a job thread exists exactly while a job is worked on, and no
\* renewal thread outlives the wait for its job, in any number of processes that
\* are started, stopped and killed at any time.
THEOREM WorkerTypeCorrect == WSpec => []WorkerTypeOK
  BY WInitType, WNextType, PTL DEF WSpec

-----------------------------------------------------------------------------
(* The processes refine the queue.                                         *)

LEMMA BusyHasJob ==
    ASSUME WorkerTypeOK, NEW p \in Processes, pc[p] = "busy"
    PROVE  job[p] \in Deliveries /\ WorkerId[p] \in Workers
  BY WorkerAssumption DEF WorkerTypeOK

\* What a step of one process does to the queue.
LEMMA ProcessOnQueue ==
    ASSUME WorkerTypeOK, NEW p \in Processes,
           \/ StartProcess(p) \/ StopSignal(p) \/ KillProcess(p) \/ OverrunEnds(p)
           \/ RenewalRound(p) \/ JobReturns(p) \/ JobRaises(p) \/ ShutdownDeadline(p)
           \/ \E j \in Deliveries : ClaimAndRun(p, j)
    PROVE  \/ UNCHANGED vars
           \/ \E j \in Deliveries : pc[p] = "idle" /\ WorkerClaim(WorkerId[p], j)
           \/ /\ pc[p] = "busy"
              /\ \/ RenewReviewJobLease(WorkerId[p], job[p])
                 \/ CompleteReviewJob(WorkerId[p], job[p])
                 \/ FailReviewJob(WorkerId[p], job[p])
  BY DEF StartProcess, StopSignal, KillProcess, OverrunEnds, RenewalRound, JobReturns,
         JobRaises, ShutdownDeadline, DiesOfLostLease, ClaimAndRun

LEMMA StepRefines == WorkerTypeOK /\ [WNext]_wvars => [Next]_vars
  <1> SUFFICES ASSUME WorkerTypeOK, [WNext]_wvars PROVE [Next]_vars
    OBVIOUS
  <1>1. ASSUME NEW p \in Processes,
               \/ StartProcess(p) \/ StopSignal(p) \/ KillProcess(p) \/ OverrunEnds(p)
               \/ RenewalRound(p) \/ JobReturns(p) \/ JobRaises(p) \/ ShutdownDeadline(p)
               \/ \E j \in Deliveries : ClaimAndRun(p, j)
        PROVE  [Next]_vars
    <2>1. WorkerId[p] \in Workers
      BY WorkerAssumption
    <2>2. UNCHANGED vars \/ WorkerStep
      BY <1>1, <2>1, ProcessOnQueue, BusyHasJob DEF WorkerStep
    <2> QED
      BY <2>2 DEF Next
  <1>2. CASE Webhook \/ (\E j \in Deliveries : RequeueReviewJob(j)) \/ WorkerTick
    BY <1>2 DEF Next, WorkerTick
  <1>3. CASE UNCHANGED wvars
    BY <1>3 DEF wvars
  <1> QED
    BY <1>1, <1>2, <1>3 DEF WNext

\* Worker processes implement the queue: whatever threads, signals and crashes do,
\* the tables only change by the statements ReviewQueue describes.
THEOREM WorkersImplementQueue == WSpec => Spec
  <1>1. WInit => Init
    BY DEF WInit
  <1> QED
    BY <1>1, StepRefines, WorkerTypeCorrect, PTL DEF WSpec, Spec

\* So a row a process finished, or a webhook retired, is final for every process,
\* however late it reports.
THEOREM WorkersKeepFinal == WSpec => FinalStays
  BY WorkersImplementQueue, FinalForever, PTL

\* And each job moves as JobLifecycle promises, whatever the processes, their signals
\* and their kills do to it (worker/main.py).
THEOREM WorkersKeepThePromise == WSpec => KeepsThePromise
  BY WorkersImplementQueue, QueueKeepsThePromise, PTL

-----------------------------------------------------------------------------
(* Exclusion.  A row a process waits for under a live lease is running, so  *)
(* it is not claimable; and it is the only process that waits for it, so    *)
(* that no other one's statement names the row, not even under one id.      *)

WInv == TypeOK /\ RowInv /\ WorkerTypeOK /\ ExclusiveWhileBusy /\ BusyUnderLease

LEMMA WInitInv == WInit => WInv
  <1> SUFFICES ASSUME WInit PROVE WInv
    OBVIOUS
  <1>1. TypeOK /\ RowInv /\ WorkerTypeOK
    BY InitTypeOK, InitRowInv, WInitType DEF WInit
  <1> QED
    BY <1>1 DEF WInv, WInit, ExclusiveWhileBusy, BusyUnderLease, Waits

\* A process that stays busy on its job, with the lease it had, keeps its claim
\* through every change to the row that the others can make.
LEMMA RowOfBusy ==
    ASSUME WInv, NEW p \in Processes, NEW q \in Processes, p # q,
           pc[p] = "busy", job[p] \notin outlived,
           \/ RenewReviewJobLease(WorkerId[q], job[q])
           \/ CompleteReviewJob(WorkerId[q], job[q])
           \/ FailReviewJob(WorkerId[q], job[q]),
           pc[q] = "busy"
    PROVE  jobs'[job[p]] = jobs[job[p]]
  <1>1. job[p] \in Deliveries /\ job[q] \in Deliveries
    BY BusyHasJob DEF WInv
  <1>2. job[p] # job[q]
    BY <1>1 DEF WInv, ExclusiveWhileBusy, Waits
  <1> QED
    BY <1>1, <1>2 DEF RenewReviewJobLease, CompleteReviewJob, FailReviewJob, WInv, TypeOK

\* Nobody can claim it.
LEMMA BusyNotClaimable ==
    ASSUME WInv, NEW p \in Processes, pc[p] = "busy", job[p] \notin outlived
    PROVE  ~Claimable(job[p])
  BY DEF WInv, BusyUnderLease, Claimable, Owns, OwnedByWorker

\* A step that leaves a busy process busy under its lease, and its row under its
\* lease or retired, keeps BusyUnderLease.
LEMMA KeptRow ==
    ASSUME WInv, NEW p \in Processes,
           pc[p] = "busy", job[p] \notin outlived, job'[p] = job[p],
           \/ jobs'[job[p]] = jobs[job[p]]
           \/ jobs'[job[p]].status \in {"superseded", "cancelled"}
    PROVE  \/ OwnedByWorker(WorkerId[p], job[p])' /\ jobs'[job'[p]].locked_for # 0
           \/ jobs'[job'[p]].status \in {"superseded", "cancelled"}
  BY DEF WInv, BusyUnderLease, Owns, OwnedByWorker

\* The processes other than p whose step it is not stay as they are.
LEMMA OthersStay ==
    ASSUME WorkerTypeOK, NEW p \in Processes, NEW q \in Processes, p # q,
           \/ StartProcess(q) \/ StopSignal(q) \/ KillProcess(q) \/ OverrunEnds(q)
           \/ RenewalRound(q) \/ JobReturns(q) \/ JobRaises(q) \/ ShutdownDeadline(q)
           \/ \E j \in Deliveries : ClaimAndRun(q, j)
    PROVE  /\ pc'[p] = pc[p] /\ job'[p] = job[p]
           /\ pc[p] = "busy" => (job[p] \in outlived' <=> job[p] \in outlived)
  BY DEF StartProcess, StopSignal, KillProcess, OverrunEnds, RenewalRound, JobReturns,
         JobRaises, ShutdownDeadline, DiesOfLostLease, ClaimAndRun, Leave, WorkerTypeOK,
         Waits

\* The row that is claimed is not the row of a process under a live lease.
LEMMA ClaimSparesBusy ==
    ASSUME WInv, NEW p \in Processes, pc[p] = "busy", job[p] \notin outlived,
           NEW w \in Workers, NEW j \in Deliveries, WorkerClaim(w, j)
    PROVE  job[p] # j /\ jobs'[job[p]] = jobs[job[p]]
  <1>1. Claimable(j)
    BY DEF WorkerClaim, NextJob, FirstOf, WorkerCandidates
  <1>2. job[p] # j
    BY <1>1, BusyNotClaimable
  <1>3. job[p] \in Deliveries
    BY BusyHasJob DEF WInv
  <1> QED
    BY <1>2, <1>3 DEF WorkerClaim, WInv, TypeOK

\* A webhook or an operator leaves the row of a busy process alone or retires it.
LEMMA OutsideSparesBusy ==
    ASSUME WInv, NEW p \in Processes, pc[p] = "busy", job[p] \notin outlived,
           Webhook \/ \E j \in Deliveries : RequeueReviewJob(j)
    PROVE  \/ jobs'[job[p]] = jobs[job[p]]
           \/ jobs'[job[p]].status \in {"superseded", "cancelled"}
  <1>1. job[p] \in Deliveries
    BY BusyHasJob DEF WInv
  <1>2. jobs[job[p]].status \in {"running", "superseded", "cancelled"}
    BY DEF WInv, BusyUnderLease, Owns, OwnedByWorker
  <1>3. job[p] \in deliveries
    BY <1>1, <1>2 DEF WInv, RowInv, RowsHaveDeliveries
  <1>4. jobs[job[p]] \in Row
    BY <1>1 DEF WInv, TypeOK
  <1>5. CASE \E d \in Deliveries, q \in Pulls, h \in Heads : EnqueueReviewJob(d, q, h)
    BY <1>1, <1>3, <1>4, <1>5 DEF EnqueueReviewJob, Row
  <1>6. CASE \E d \in Deliveries, q \in Pulls : CancelReviewJob(d, q)
    BY <1>1, <1>4, <1>6 DEF CancelReviewJob, Row
  <1>7. CASE \E d \in Deliveries : EnqueueUnidentified(d)
    BY <1>1, <1>3, <1>7 DEF EnqueueUnidentified, WInv, TypeOK
  <1>8. CASE \E d \in Deliveries : Duplicate(d)
    BY <1>8 DEF Duplicate, vars
  <1>9. CASE \E j \in Deliveries : RequeueReviewJob(j)
    BY <1>1, <1>2, <1>9 DEF RequeueReviewJob, WInv, TypeOK
  <1> QED
    BY <1>5, <1>6, <1>7, <1>8, <1>9 DEF Webhook

LEMMA NextBusyUnderLease ==
    ASSUME WInv, [WNext]_wvars
    PROVE  BusyUnderLease'
  <1> SUFFICES ASSUME NEW p \in Processes, pc'[p] = "busy", job'[p] \notin outlived'
               PROVE  \/ OwnedByWorker(WorkerId[p], job[p])' /\ jobs'[job'[p]].locked_for # 0
                      \/ jobs'[job'[p]].status \in {"superseded", "cancelled"}
    BY DEF BusyUnderLease, Owns
  <1> DEFINE StepOf(q) ==
               \/ StartProcess(q) \/ StopSignal(q) \/ KillProcess(q) \/ OverrunEnds(q)
               \/ RenewalRound(q) \/ JobReturns(q) \/ JobRaises(q) \/ ShutdownDeadline(q)
               \/ \E j \in Deliveries : ClaimAndRun(q, j)
  <1>0. WorkerTypeOK /\ TypeOK
    BY DEF WInv
  <1>1. CASE UNCHANGED workerVars /\ (UNCHANGED vars \/ Webhook
                                      \/ \E j \in Deliveries : RequeueReviewJob(j))
    <2>1. pc[p] = "busy" /\ job[p] \notin outlived /\ job'[p] = job[p]
      BY <1>1 DEF workerVars
    <2>2. \/ jobs'[job[p]] = jobs[job[p]]
          \/ jobs'[job[p]].status \in {"superseded", "cancelled"}
      BY <1>1, <2>1, OutsideSparesBusy DEF vars
    <2> QED
      BY <2>1, <2>2, KeptRow
  <1>2. CASE WorkerTick
    <2>1. pc[p] = "busy" /\ job[p] \notin outlived /\ job'[p] = job[p]
      BY <1>2 DEF WorkerTick
    <2>2. job[p] \in Deliveries
      BY <1>0, <2>1, BusyHasJob
    <2>3. /\ jobs'[job[p]].status = jobs[job[p]].status
          /\ jobs'[job[p]].locked_by = jobs[job[p]].locked_by
      <3>1. jobs[job[p]] \in Row
        BY <1>0, <2>2 DEF TypeOK
      <3>2. jobs'[job[p]] = [jobs[job[p]] EXCEPT !.available_in = Down(jobs[job[p]].available_in),
                                                 !.locked_for = Down(jobs[job[p]].locked_for)]
        BY <1>2, <2>2 DEF WorkerTick, Tick
      <3> QED
        BY <3>1, <3>2 DEF Row
    <2>4. jobs'[job[p]].status = "running" => jobs'[job[p]].locked_for # 0
      BY <1>2, <2>1, <2>2 DEF WorkerTick, Waits
    <2>5. Owns(p) \/ jobs[job[p]].status \in {"superseded", "cancelled"}
      BY <2>1 DEF WInv, BusyUnderLease
    <2> QED
      BY <2>1, <2>3, <2>4, <2>5 DEF Owns, OwnedByWorker
  <1>3. ASSUME NEW q \in Processes, q # p, StepOf(q)
        PROVE  \/ OwnedByWorker(WorkerId[p], job[p])' /\ jobs'[job'[p]].locked_for # 0
               \/ jobs'[job'[p]].status \in {"superseded", "cancelled"}
    <2>1. pc[p] = "busy" /\ job[p] \notin outlived /\ job'[p] = job[p]
      BY <1>0, <1>3, OthersStay
    <2>2. WorkerId[q] \in Workers
      BY WorkerAssumption
    <2>3. jobs'[job[p]] = jobs[job[p]]
      BY <1>0, <1>3, <2>1, <2>2, ProcessOnQueue, RowOfBusy, ClaimSparesBusy DEF vars
    <2> QED
      BY <2>1, <2>3, KeptRow
  <1>4. ASSUME NEW j \in Deliveries, ClaimAndRun(p, j)
        PROVE  OwnedByWorker(WorkerId[p], job[p])' /\ jobs'[job'[p]].locked_for # 0
    <2>1. job'[p] = j
      BY <1>0, <1>4 DEF ClaimAndRun, WorkerTypeOK
    <2>2. jobs[j] \in Row
      BY <1>0 DEF TypeOK
    <2>3. /\ jobs'[j].status = "running" /\ jobs'[j].locked_by = WorkerId[p]
          /\ jobs'[j].locked_for = LeaseTicks
      BY <1>0, <1>4, <2>2 DEF ClaimAndRun, WorkerClaim, TypeOK, Row
    <2> QED
      BY <2>1, <2>3, QueueAssumption DEF OwnedByWorker
  <1>5. CASE RenewalRound(p)
    <2>1. pc[p] = "busy" /\ job[p] \notin outlived /\ job'[p] = job[p]
      BY <1>5 DEF RenewalRound
    <2>2. job[p] \in Deliveries
      BY <1>0, <2>1, BusyHasJob
    <2>3. CASE RenewReviewJobLease(WorkerId[p], job[p])
      <3>1. jobs[job[p]] \in Row
        BY <1>0, <2>2 DEF TypeOK
      <3>2. /\ jobs'[job[p]].status = "running" /\ jobs'[job[p]].locked_by = WorkerId[p]
            /\ jobs'[job[p]].locked_for = LeaseTicks
        BY <1>0, <2>2, <2>3, <3>1 DEF RenewReviewJobLease, OwnedByWorker, TypeOK, Row
      <3> QED
        BY <2>1, <3>2, QueueAssumption DEF OwnedByWorker
    <2>4. CASE UNCHANGED vars
      BY <2>1, <2>4, KeptRow DEF vars
    <2> QED
      BY <1>5, <2>3, <2>4 DEF RenewalRound
  <1>6. CASE StopSignal(p)
    <2>1. pc[p] = "busy" /\ job[p] \notin outlived /\ job'[p] = job[p] /\ jobs' = jobs
      BY <1>0, <1>6 DEF StopSignal, Leave, WorkerTypeOK, vars
    <2> QED
      BY <2>1, KeptRow
  <1>7. CASE \/ StartProcess(p) \/ KillProcess(p) \/ OverrunEnds(p)
             \/ JobReturns(p) \/ JobRaises(p) \/ ShutdownDeadline(p)
    BY <1>0, <1>7
    DEF StartProcess, KillProcess, OverrunEnds, JobReturns, JobRaises, ShutdownDeadline,
        DiesOfLostLease, Leave, WorkerTypeOK
  <1> QED
    BY <1>1, <1>2, <1>3, <1>4, <1>5, <1>6, <1>7 DEF WNext, wvars

LEMMA NextExclusive ==
    ASSUME WInv, [WNext]_wvars
    PROVE  ExclusiveWhileBusy'
  <1> SUFFICES ASSUME NEW p \in Processes, NEW q \in Processes, NEW j \in Deliveries, p # q,
                      pc'[p] = "busy", pc'[q] = "busy", job'[p] = j, job'[q] = j,
                      j \notin outlived'
               PROVE  FALSE
    BY DEF ExclusiveWhileBusy, Waits
  <1>0. WorkerTypeOK
    BY DEF WInv
  <1>1. ASSUME /\ pc[p] = "busy" /\ job[p] = j /\ j \notin outlived
               /\ pc[q] = "busy" /\ job[q] = j
        PROVE  FALSE
    BY <1>1 DEF WInv, ExclusiveWhileBusy, Waits
  <1>2. CASE UNCHANGED workerVars
    BY <1>1, <1>2 DEF workerVars
  <1>3. CASE WorkerTick
    BY <1>1, <1>3 DEF WorkerTick
  <1>4. ASSUME NEW r \in Processes,
               \/ StartProcess(r) \/ StopSignal(r) \/ KillProcess(r) \/ OverrunEnds(r)
               \/ RenewalRound(r) \/ JobReturns(r) \/ JobRaises(r) \/ ShutdownDeadline(r)
        PROVE  FALSE
    BY <1>0, <1>1, <1>4
    DEF StartProcess, StopSignal, KillProcess, OverrunEnds, RenewalRound, JobReturns,
        JobRaises, ShutdownDeadline, DiesOfLostLease, Leave, WorkerTypeOK
  <1>5. ASSUME NEW r \in Processes, NEW i \in Deliveries, ClaimAndRun(r, i)
        PROVE  FALSE
    <2>1. WorkerClaim(WorkerId[r], i) /\ WorkerId[r] \in Workers /\ job'[r] = i
      BY <1>0, <1>5, WorkerAssumption DEF ClaimAndRun, WorkerTypeOK
    <2>2. ASSUME NEW s \in Processes, s # r
          PROVE  pc'[s] = pc[s] /\ job'[s] = job[s]
      BY <1>0, <1>5, <2>2 DEF ClaimAndRun, WorkerTypeOK
    <2>3. ASSUME NEW s \in Processes, s # r, pc'[s] = "busy", job'[s] = j
          PROVE  pc[s] = "busy" /\ job[s] = j /\ j \notin outlived /\ j # i
      <3>1. pc[s] = "busy" /\ job[s] = j
        BY <2>2, <2>3
      <3>2. j \notin outlived
        BY <1>5, <3>1 DEF ClaimAndRun, Waits
      <3> QED
        BY <2>1, <3>1, <3>2, ClaimSparesBusy
    <2>4. CASE p # r /\ q # r
      BY <1>1, <2>3, <2>4
    <2>5. CASE p = r \/ q = r
      BY <2>1, <2>3, <2>5
    <2> QED
      BY <2>4, <2>5
  <1> QED
    BY <1>2, <1>3, <1>4, <1>5 DEF WNext, wvars

LEMMA WInductive == WSpec => []WInv
  <1>1. WInv /\ [WNext]_wvars => WInv'
    <2> SUFFICES ASSUME WInv, [WNext]_wvars PROVE WInv'
      OBVIOUS
    <2>1. [Next]_vars
      BY StepRefines DEF WInv
    <2>2. TypeOK' /\ RowInv'
      BY <2>1, NextTypeOK, NextRowInv DEF WInv
    <2>3. WorkerTypeOK'
      BY WNextType DEF WInv
    <2> QED
      BY <2>2, <2>3, NextBusyUnderLease, NextExclusive DEF WInv
  <1> QED
    BY <1>1, WInitInv, PTL DEF WSpec

\* Whatever ids the processes share, two of them wait for one job only after its lease
\* ran out under one of them: between the claim and the end of the lease no kill,
\* restart, signal, webhook, requeue or statement of another process gives the row away.
THEOREM Exclusion == WSpec => []ExclusiveWhileBusy
  BY WInductive, PTL DEF WInv

\* And the process that waits owns the row, or a webhook retired it.
THEOREM BusyOwns == WSpec => []BusyOwnsItsRow
  <1>1. WInv => BusyOwnsItsRow
    BY DEF WInv, BusyUnderLease, BusyOwnsItsRow
  <1> QED
    BY <1>1, WInductive, PTL

-----------------------------------------------------------------------------
(* The inductive invariant.                                                *)

Phases == {"down", "recover", "replay", "poll", "raised"}
Steps == {"next", "review"} \cup Calls

\* The types alone.
DaemonTypes ==
    /\ local \in [Runners -> [Deliveries -> LocalJob]]
    /\ unacked \in [Runners -> SUBSET Entry]
    /\ phase \in [Runners -> Phases]
    /\ step \in [Runners -> Steps]
    /\ todo \in [Runners -> SUBSET (Deliveries \cup Entry)]
    /\ work \in [Runners -> Work]
    /\ reply \in [Runners -> Reply]
    /\ sent \cup gate \cup overtime \subseteq Runners
    /\ produced \subseteq Result

\* record_claimed has run for the job.
InStore(r, j) == j \in Deliveries /\ local[r][j].status # "none"

\* What daemon r has at hand at each point: a job in its store with its lease
\* outside the head of the loops, a result from the end of the review on, a job
\* and a token in the answer to a claim; and what its lists are about is stored.
AtHand(r) ==
    /\ r \in sent \/ reply[r].kind # "none" => step[r] \in Calls
    /\ r \in sent => reply[r].kind = "none"
    /\ phase[r] \in {"down", "raised"} => step[r] = "next"
    /\ step[r] \notin {"next", "claim"} => work[r].job # None /\ work[r].token # None
    /\ step[r] \in {"ack", "land_claim", "land_ack"} => work[r].result # None
    /\ work[r].job # None => InStore(r, work[r].job)
    /\ reply[r].kind = "job" => reply[r].job # None /\ reply[r].token # None
    /\ \A e \in unacked[r] : InStore(r, e.job)
    /\ phase[r] = "recover" => \A j \in todo[r] : InStore(r, j)
    /\ phase[r] = "replay" => \A e \in todo[r] : e \in Entry /\ InStore(r, e.job)

StoredTokens ==
    \A r \in Runners, j \in Deliveries : local[r][j].status # "none" => local[r][j].token # None

DInv == DaemonTypes /\ StoredTokens /\ \A r \in Runners : AtHand(r)

LEMMA DInvMeans == DInv /\ stale \subseteq Runners => DaemonTypeOK
  BY DEF DInv, DaemonTypes, StoredTokens, AtHand, DaemonTypeOK, Phases, Steps

LEMMA BlankTypes ==
    /\ [status |-> "none", token |-> None] \in LocalJob
    /\ NoWork \in Work /\ NoWork.job = None /\ NoWork.token = None /\ NoWork.result = None
    /\ Silence \in Reply /\ Silence.kind = "none" /\ Silence.job = None
  BY DEF LocalJob, Work, NoWork, Reply, Silence, Answer

LEMMA DInitInv == DInit => DInv
  <1> SUFFICES ASSUME DInit PROVE DInv
    OBVIOUS
  <1>1. DaemonTypes
    BY BlankTypes DEF DInit, DaemonTypes, Phases, Steps
  <1>2. StoredTokens
    BY DEF DInit, StoredTokens
  <1>3. ASSUME NEW r \in Runners PROVE AtHand(r)
    BY BlankTypes DEF DInit, AtHand, InStore
  <1> QED
    BY <1>1, <1>2, <1>3 DEF DInv

-----------------------------------------------------------------------------
(* The store.                                                              *)

\* The store changes, if at all, by rows that are added or change their status.
StoreGrows ==
    /\ local' \in [Runners -> [Deliveries -> LocalJob]]
    /\ \A r \in Runners, j \in Deliveries :
          /\ local[r][j].status # "none" => local'[r][j].status # "none"
          /\ local'[r][j].status # "none" => local'[r][j].token # None

LEMMA StoreKept ==
    ASSUME DInv, UNCHANGED local
    PROVE  StoreGrows
  BY DEF DInv, DaemonTypes, StoredTokens, StoreGrows

\* One row of one store gets a new value.
LEMMA StoreRow ==
    ASSUME DInv, NEW r \in Runners, NEW j \in Deliveries, NEW v \in LocalJob,
           v.status # "none", v.token # None,
           local' = [local EXCEPT ![r] = [local[r] EXCEPT ![j] = v]]
    PROVE  StoreGrows /\ local'[r][j].status # "none"
  <1>1. ASSUME NEW x \in Runners, NEW k \in Deliveries
        PROVE  local'[x][k] = IF x = r /\ k = j THEN v ELSE local[x][k]
    BY DEF DInv, DaemonTypes
  <1> QED
    BY <1>1 DEF DInv, DaemonTypes, StoredTokens, StoreGrows

\* update ... set status = ... where job_id = ?, of a row that exists.
LEMMA StoreStatus ==
    ASSUME DInv, NEW r \in Runners, NEW j, InStore(r, j),
           NEW s \in {"completed", "abandoned"}, SetLocal(r, j, s)
    PROVE  StoreGrows
  <1>1. j \in Deliveries /\ local[r][j] \in LocalJob /\ local[r][j].token # None
    BY DEF InStore, DInv, DaemonTypes, StoredTokens
  <1>2. /\ [local[r][j] EXCEPT !.status = s] \in LocalJob
        /\ [local[r][j] EXCEPT !.status = s].status = s
        /\ [local[r][j] EXCEPT !.status = s].token = local[r][j].token
    BY <1>1 DEF LocalJob
  <1>3. local' = [local EXCEPT ![r] = [local[r] EXCEPT ![j] = [local[r][j] EXCEPT !.status = s]]]
    BY DEF SetLocal
  <1> QED
    BY <1>1, <1>2, <1>3, StoreRow

LEMMA StoreCompleted ==
    ASSUME DInv, NEW r \in Runners, NEW j \in Deliveries, MarkCompleted(r, j)
    PROVE  StoreGrows
  <1>1. CASE local[r][j].status = "none"
    BY <1>1, StoreKept DEF MarkCompleted
  <1>2. CASE local[r][j].status # "none"
    BY <1>2, StoreStatus DEF MarkCompleted, InStore
  <1> QED
    BY <1>1, <1>2

LEMMA StoreClaimed ==
    ASSUME DInv, NEW r \in Runners, NEW j \in Deliveries, NEW t \in Tokens,
           RecordClaimed(r, j, t)
    PROVE  StoreGrows /\ local'[r][j].status # "none"
  <1>1. CASE local[r][j].status = "none"
    <2>1. /\ [status |-> "claimed", token |-> t] \in LocalJob
          /\ t # None
      BY QueueAssumption DEF LocalJob
    <2>2. local' = [local EXCEPT ![r] = [local[r] EXCEPT ![j] = [status |-> "claimed", token |-> t]]]
      BY <1>1 DEF RecordClaimed
    <2> QED
      BY <2>1, <2>2, StoreRow
  <1>2. CASE local[r][j].status # "none"
    BY <1>2, StoreKept DEF RecordClaimed
  <1> QED
    BY <1>1, <1>2

-----------------------------------------------------------------------------
(* A step of daemon r leaves the other daemons alone.                      *)

OthersKept(r) ==
    \A x \in Runners \ {r} :
        /\ phase'[x] = phase[x]
        /\ step'[x] = step[x]
        /\ todo'[x] = todo[x]
        /\ work'[x] = work[x]
        /\ reply'[x] = reply[x]
        /\ unacked'[x] = unacked[x]
        /\ x \in sent' => x \in sent

LEMMA OneDaemon ==
    ASSUME DInv, NEW r \in Runners, DaemonTypes', StoreGrows, OthersKept(r), AtHand(r)'
    PROVE  DInv'
  <1>1. ASSUME NEW x \in Runners, x # r PROVE AtHand(x)'
    <2>1. AtHand(x) /\ work[x].job \in Deliveries \cup {None}
      BY DEF DInv, DaemonTypes, Work
    <2>2. ASSUME NEW j, InStore(x, j) PROVE InStore(x, j)'
      BY <2>2 DEF InStore, StoreGrows
    <2> QED
      BY <1>1, <2>1, <2>2 DEF OthersKept, AtHand
  <1> QED
    BY <1>1 DEF DInv, StoredTokens, StoreGrows

\* The stored results after a step of daemon r.
ResultsFit(r) ==
    /\ unacked' \in [Runners -> SUBSET Entry]
    /\ \A x \in Runners \ {r} : unacked'[x] = unacked[x]
    /\ \A e \in unacked'[r] : InStore(r, e.job)

LEMMA ResultsKept ==
    ASSUME DInv, NEW r \in Runners, UNCHANGED unacked
    PROVE  ResultsFit(r)
  BY DEF DInv, DaemonTypes, AtHand, ResultsFit

LEMMA ResultsRemoved ==
    ASSUME DInv, NEW r \in Runners, NEW S, S \subseteq unacked[r],
           unacked' = [unacked EXCEPT ![r] = S]
    PROVE  ResultsFit(r)
  BY DEF DInv, DaemonTypes, AtHand, ResultsFit

LEMMA ResultRecorded ==
    ASSUME DInv, NEW r \in Runners, step[r] = "ack",
           NEW why \in {"invalid_or_expired", "network_unreachable"}, RecordPending(r, why)
    PROVE  ResultsFit(r)
  <1>1. AtHand(r) /\ work[r] \in Work
    BY DEF DInv, DaemonTypes
  <1>2. work[r].job # None /\ work[r].token # None /\ work[r].result # None
    BY <1>1 DEF AtHand
  <1>3. EntryOf(r, why) \in Entry /\ EntryOf(r, why).job = work[r].job
    BY <1>1, <1>2 DEF EntryOf, Entry, Work
  <1>4. InStore(r, work[r].job)
    BY <1>1, <1>2 DEF AtHand
  <1> QED
    BY <1>1, <1>3, <1>4 DEF RecordPending, DInv, DaemonTypes, AtHand, ResultsFit

\* A handler that ends its round.
LEMMA RoundEnds ==
    ASSUME DInv, NEW r \in Runners, reply[r].kind # "none", NextRound(r),
           StoreGrows, ResultsFit(r), gate' \subseteq Runners
    PROVE  DInv'
  <1>1. /\ phase' = phase /\ todo' = todo /\ sent' = sent
        /\ overtime' = overtime /\ produced' = produced
        /\ step' = [step EXCEPT ![r] = "next"]
        /\ work' = [work EXCEPT ![r] = NoWork]
        /\ reply' = [reply EXCEPT ![r] = Silence]
    BY DEF NextRound, Go
  <1>2. DaemonTypes'
    BY <1>1, BlankTypes DEF DInv, DaemonTypes, StoreGrows, ResultsFit, Steps
  <1>3. OthersKept(r)
    BY <1>1 DEF DInv, DaemonTypes, OthersKept, ResultsFit
  <1>4. /\ step'[r] = "next" /\ work'[r] = NoWork /\ reply'[r] = Silence
        /\ phase'[r] = phase[r] /\ todo'[r] = todo[r] /\ r \notin sent'
    BY <1>1 DEF DInv, DaemonTypes, AtHand
  <1>5. ASSUME NEW j, InStore(r, j) PROVE InStore(r, j)'
    BY <1>5 DEF InStore, StoreGrows
  <1>6. AtHand(r)'
    BY <1>4, <1>5, BlankTypes DEF DInv, AtHand, ResultsFit
  <1> QED
    BY <1>2, <1>3, <1>6, OneDaemon

\* An exception nobody catches.
LEMMA RaiseEnds ==
    ASSUME DInv, NEW r \in Runners, r \notin sent, Raise(r), UNCHANGED local, ResultsFit(r)
    PROVE  DInv'
  <1>1. /\ work' = work /\ sent' = sent /\ gate' = gate
        /\ overtime' = overtime /\ produced' = produced
        /\ phase' = [phase EXCEPT ![r] = "raised"]
        /\ step' = [step EXCEPT ![r] = "next"]
        /\ reply' = [reply EXCEPT ![r] = Silence]
        /\ todo' = [todo EXCEPT ![r] = {}]
    BY DEF Raise
  <1>2. DaemonTypes'
    BY <1>1, BlankTypes DEF DInv, DaemonTypes, ResultsFit, Steps, Phases
  <1>3. OthersKept(r)
    BY <1>1 DEF DInv, DaemonTypes, OthersKept, ResultsFit
  <1>4. /\ step'[r] = "next" /\ work'[r] = work[r] /\ reply'[r] = Silence
        /\ phase'[r] = "raised" /\ r \notin sent'
    BY <1>1 DEF DInv, DaemonTypes
  <1>5. AtHand(r)'
    BY <1>4, BlankTypes DEF DInv, AtHand, ResultsFit, InStore
  <1> QED
    BY <1>2, <1>3, <1>5, OneDaemon, StoreKept

\* A handler that goes on with the job at hand.
LEMMA GoesOn ==
    ASSUME DInv, NEW r \in Runners, r \notin sent,
           NEW s \in {"review", "land_claim", "land_ack"}, Go(r, s),
           NEW w \in Work, work' = [work EXCEPT ![r] = w],
           w.job # None, w.token # None, InStore(r, w.job)',
           s # "review" => w.result # None,
           phase[r] \notin {"down", "raised"},
           StoreGrows, ResultsFit(r), UNCHANGED gate
    PROVE  DInv'
  <1>1. /\ phase' = phase /\ todo' = todo /\ sent' = sent
        /\ overtime' = overtime /\ produced' = produced
        /\ step' = [step EXCEPT ![r] = s]
        /\ reply' = [reply EXCEPT ![r] = Silence]
    BY DEF Go
  <1>2. DaemonTypes'
    BY <1>1, BlankTypes DEF DInv, DaemonTypes, StoreGrows, ResultsFit, Steps, Calls
  <1>3. OthersKept(r)
    BY <1>1 DEF DInv, DaemonTypes, OthersKept, ResultsFit
  <1>4. /\ step'[r] = s /\ work'[r] = w /\ reply'[r] = Silence
        /\ phase'[r] = phase[r] /\ todo'[r] = todo[r] /\ r \notin sent'
    BY <1>1 DEF DInv, DaemonTypes
  <1>5. ASSUME NEW j, InStore(r, j) PROVE InStore(r, j)'
    BY <1>5 DEF InStore, StoreGrows
  <1>6. AtHand(r)'
    BY <1>4, <1>5, BlankTypes DEF DInv, AtHand, ResultsFit
  <1> QED
    BY <1>2, <1>3, <1>6, OneDaemon

-----------------------------------------------------------------------------
(* The handlers.                                                           *)

LEMMA Answered ==
    ASSUME DInv, NEW r \in Runners, reply[r].kind # "none" \/ step[r] = "review"
    PROVE  r \notin sent /\ phase[r] \notin {"down", "raised"}
  BY DEF DInv, AtHand, Calls

LEMMA RecoverAnsweredInv ==
    ASSUME DInv, NEW r \in Runners, RecoverAnswered(r)
    PROVE  DInv'
  <1>1. reply[r].kind # "none" /\ gate' \subseteq Runners
    BY DEF RecoverAnswered, Told, OnlyControl, Raise, DInv, DaemonTypes
  <1>2. ResultsFit(r)
    BY ResultsKept DEF RecoverAnswered, OnlyControl, storeVars
  <1>3. work[r] \in Work /\ work[r].job # None /\ work[r].token # None /\ InStore(r, work[r].job)
    BY DEF RecoverAnswered, DInv, DaemonTypes, AtHand
  <1>4. CASE NextRound(r) /\ UNCHANGED local
    BY <1>1, <1>2, <1>4, StoreKept, RoundEnds
  <1>5. CASE NextRound(r) /\ SetLocal(r, work[r].job, "abandoned")
    BY <1>1, <1>2, <1>3, <1>5, StoreStatus, RoundEnds
  <1>6. CASE Go(r, "review") /\ OnlyControl /\ UNCHANGED work
    <2>1. work' = [work EXCEPT ![r] = work[r]]
      BY <1>6 DEF DInv, DaemonTypes
    <2>2. InStore(r, work[r].job)'
      BY <1>3, <1>6 DEF OnlyControl, storeVars, InStore
    <2>3. UNCHANGED <<local, gate>>
      BY <1>6 DEF OnlyControl, storeVars
    <2> QED
      BY <1>1, <1>2, <1>3, <1>6, <2>1, <2>2, <2>3, Answered, StoreKept, GoesOn DEF InStore
  <1>7. CASE Raise(r) /\ OnlyControl
    BY <1>1, <1>2, <1>7, Answered, RaiseEnds DEF OnlyControl, storeVars
  <1> QED
    BY <1>4, <1>5, <1>6, <1>7 DEF RecoverAnswered, OnlyControl, storeVars

LEMMA ReviewRaisesInv ==
    ASSUME DInv, NEW r \in Runners, ReviewRaises(r)
    PROVE  DInv'
  BY Answered, ResultsKept, RaiseEnds DEF ReviewRaises, OnlyControl, storeVars

LEMMA CompleteAnsweredInv ==
    ASSUME DInv, NEW r \in Runners, CompleteAnswered(r)
    PROVE  DInv'
  <1>1. reply[r].kind # "none" /\ step[r] = "ack" /\ gate' \subseteq Runners
    BY DEF CompleteAnswered, Told, OnlyControl, Raise, DInv, DaemonTypes
  <1>2. /\ work[r] \in Work /\ work[r].job # None /\ work[r].token # None
        /\ work[r].result # None /\ InStore(r, work[r].job) /\ work[r].job \in Deliveries
    BY <1>1 DEF DInv, DaemonTypes, AtHand, InStore
  <1>3. CASE MarkCompleted(r, work[r].job) /\ NextRound(r) /\ UNCHANGED <<unacked, gate>>
    BY <1>1, <1>2, <1>3, StoreCompleted, ResultsKept, RoundEnds
  <1>4. CASE /\ RecordPending(r, "invalid_or_expired")
             /\ Go(r, "land_claim")
             /\ UNCHANGED <<local, work, gate>>
    <2>1. work' = [work EXCEPT ![r] = work[r]]
      BY <1>4 DEF DInv, DaemonTypes
    <2>2. ResultsFit(r)
      BY <1>1, <1>4, ResultRecorded
    <2> QED
      BY <1>1, <1>2, <1>4, <2>1, <2>2, Answered, StoreKept, GoesOn DEF InStore
  <1>5. CASE RecordPending(r, "network_unreachable") /\ Raise(r) /\ UNCHANGED <<local, gate>>
    BY <1>1, <1>5, Answered, ResultRecorded, RaiseEnds
  <1>6. CASE Raise(r) /\ OnlyControl
    BY <1>1, <1>6, Answered, ResultsKept, RaiseEnds DEF OnlyControl, storeVars
  <1> QED
    BY <1>3, <1>4, <1>5, <1>6 DEF CompleteAnswered

LEMMA ReplayAnsweredInv ==
    ASSUME DInv, NEW r \in Runners, ReplayAnswered(r)
    PROVE  DInv'
  <1>1. reply[r].kind # "none" /\ step[r] = "ack" /\ gate' \subseteq Runners
    BY DEF ReplayAnswered, Told, OnlyControl, Raise, DInv, DaemonTypes
  <1>2. work[r].job \in Deliveries
    BY <1>1 DEF DInv, DaemonTypes, AtHand, InStore
  <1>3. CASE /\ unacked' = [unacked EXCEPT ![r] = @ \ {EntryOf(r, "network_unreachable")}]
             /\ MarkCompleted(r, work[r].job)
             /\ NextRound(r)
    <2>1. ResultsFit(r)
      BY <1>3, ResultsRemoved
    <2> QED
      BY <1>1, <1>2, <1>3, <2>1, StoreCompleted, RoundEnds
  <1>4. CASE NextRound(r) /\ UNCHANGED storeVars
    BY <1>1, <1>4, StoreKept, ResultsKept, RoundEnds DEF storeVars
  <1>5. CASE Raise(r) /\ OnlyControl
    BY <1>1, <1>5, Answered, ResultsKept, RaiseEnds DEF OnlyControl, storeVars
  <1> QED
    BY <1>3, <1>4, <1>5 DEF ReplayAnswered, storeVars

LEMMA Terminal ==
    ASSUME DInv, NEW r \in Runners, NEW j \in Deliveries, MarkPendingTerminal(r, j)
    PROVE  StoreGrows /\ ResultsFit(r)
  <1>1. {e \in unacked[r] : e.job # j} \subseteq unacked[r]
    OBVIOUS
  <1>2. unacked' = [unacked EXCEPT ![r] = {e \in unacked[r] : e.job # j}]
    BY DEF MarkPendingTerminal
  <1> QED
    BY <1>1, <1>2, ResultsRemoved, StoreCompleted DEF MarkPendingTerminal

LEMMA LandAckAnsweredInv ==
    ASSUME DInv, NEW r \in Runners, LandAckAnswered(r)
    PROVE  DInv'
  <1>1. reply[r].kind # "none" /\ step[r] = "land_ack" /\ gate' \subseteq Runners
    BY DEF LandAckAnswered, Told, OnlyControl, Raise, DInv, DaemonTypes
  <1>2. work[r].job \in Deliveries
    BY <1>1 DEF DInv, DaemonTypes, AtHand, InStore
  <1>3. CASE MarkPendingTerminal(r, work[r].job) /\ NextRound(r)
    BY <1>1, <1>2, <1>3, Terminal, RoundEnds
  <1>4. CASE NextRound(r) /\ UNCHANGED storeVars
    BY <1>1, <1>4, StoreKept, ResultsKept, RoundEnds DEF storeVars
  <1>5. CASE Raise(r) /\ OnlyControl
    BY <1>1, <1>5, Answered, ResultsKept, RaiseEnds DEF OnlyControl, storeVars
  <1> QED
    BY <1>3, <1>4, <1>5 DEF LandAckAnswered, storeVars

\* The two rows _land_pending_result changes when another job came back.
LEMMA StoreLanding ==
    ASSUME DInv, NEW r \in Runners, NEW j, InStore(r, j), NEW k \in Deliveries, k # j,
           NEW t \in Tokens, NEW kept,
           kept = [local EXCEPT ![r][j].status = "completed"],
           local' = IF local[r][k].status = "none"
                    THEN [kept EXCEPT ![r][k] = [status |-> "claimed", token |-> t]]
                    ELSE kept
    PROVE  StoreGrows
  <1>1. j \in Deliveries /\ local[r][j] \in LocalJob /\ local[r][j].token # None
    BY DEF InStore, DInv, DaemonTypes, StoredTokens
  <1> DEFINE done == [local[r][j] EXCEPT !.status = "completed"]
             new == [status |-> "claimed", token |-> t]
  <1>2. /\ done \in LocalJob /\ done.status = "completed" /\ done.token = local[r][j].token
        /\ new \in LocalJob /\ new.status = "claimed" /\ new.token # None
    BY <1>1, QueueAssumption DEF LocalJob
  <1>3. kept = [local EXCEPT ![r] = [local[r] EXCEPT ![j] = done]]
    OBVIOUS
  <1> HIDE DEF done, new
  <1>4. ASSUME NEW x \in Runners, NEW i \in Deliveries
        PROVE  kept[x][i] = IF x = r /\ i = j THEN done ELSE local[x][i]
    BY <1>1, <1>3 DEF DInv, DaemonTypes
  <1>5. kept \in [Runners -> [Deliveries -> LocalJob]]
    <2>1. local[r] \in [Deliveries -> LocalJob] /\ local \in [Runners -> [Deliveries -> LocalJob]]
      BY DEF DInv, DaemonTypes
    <2>2. [local[r] EXCEPT ![j] = done] \in [Deliveries -> LocalJob]
      BY <1>2, <2>1
    <2> QED
      BY <1>3, <2>1, <2>2
  <1>6. CASE local[r][k].status # "none"
    BY <1>1, <1>2, <1>4, <1>5, <1>6 DEF DInv, StoredTokens, StoreGrows
  <1>7. CASE local[r][k].status = "none"
    <2>1. local' = [kept EXCEPT ![r] = [kept[r] EXCEPT ![k] = new]]
      BY <1>7 DEF new
    <2>2. ASSUME NEW x \in Runners, NEW i \in Deliveries
          PROVE  local'[x][i] = IF x = r /\ i = k THEN new ELSE kept[x][i]
      BY <1>5, <2>1
    <2>3. local' \in [Runners -> [Deliveries -> LocalJob]]
      BY <1>2, <1>5, <2>1
    <2> QED
      BY <1>1, <1>2, <1>4, <2>2, <2>3 DEF DInv, StoredTokens, StoreGrows
  <1> QED
    BY <1>6, <1>7

LEMMA ClaimedJob ==
    ASSUME DInv, NEW r \in Runners, reply[r].kind = "job"
    PROVE  reply[r].job \in Deliveries /\ reply[r].token \in Tokens
  BY DEF DInv, DaemonTypes, AtHand, Reply

LEMMA LandClaimAnsweredInv ==
    ASSUME DInv, NEW r \in Runners, LandClaimAnswered(r)
    PROVE  DInv'
  <1>1. reply[r].kind # "none" /\ step[r] = "land_claim" /\ gate' \subseteq Runners
    BY DEF LandClaimAnswered, Told, OnlyControl, Raise, DInv, DaemonTypes
  <1>2. /\ work[r] \in Work /\ work[r].job # None /\ work[r].token # None
        /\ work[r].result # None /\ InStore(r, work[r].job) /\ work[r].job \in Deliveries
    BY <1>1 DEF DInv, DaemonTypes, AtHand, InStore
  <1>3. CASE NextRound(r) /\ OnlyControl
    BY <1>1, <1>3, StoreKept, ResultsKept, RoundEnds DEF OnlyControl, storeVars
  <1>4. CASE MarkPendingTerminal(r, work[r].job) /\ NextRound(r)
    BY <1>1, <1>2, <1>4, Terminal, RoundEnds
  <1>5. CASE /\ Told(r, {"job"})
             /\ work' = [work EXCEPT ![r].token = reply[r].token]
             /\ Go(r, "land_ack")
             /\ OnlyControl
    <2> DEFINE w == [work[r] EXCEPT !.token = reply[r].token]
    <2>1. reply[r].token \in Tokens /\ reply[r].token # None
      BY <1>5, ClaimedJob, QueueAssumption DEF Told
    <2>2. /\ w \in Work /\ w.job = work[r].job /\ w.token # None
          /\ w.result = work[r].result /\ work' = [work EXCEPT ![r] = w]
      BY <1>2, <1>5, <2>1 DEF Work
    <2>3. UNCHANGED <<local, unacked, gate>>
      BY <1>5 DEF OnlyControl, storeVars
    <2>4. w.job \in Deliveries /\ local'[r][w.job].status # "none"
      BY <1>2, <2>2, <2>3 DEF InStore
    <2> HIDE DEF w
    <2>5. StoreGrows /\ ResultsFit(r)
      BY <2>3, StoreKept, ResultsKept
    <2>6. r \notin sent /\ phase[r] \notin {"down", "raised"}
      BY <1>1, Answered
    <2> QED
      BY <1>2, <1>5, <2>2, <2>3, <2>4, <2>5, <2>6, GoesOn DEF InStore
  <1>6. CASE /\ Told(r, {"job"})
             /\ reply[r].job # work[r].job
             /\ LET kept == [local EXCEPT ![r][work[r].job].status = "completed"] IN
                  local' = IF local[r][reply[r].job].status = "none"
                           THEN [kept EXCEPT ![r][reply[r].job] =
                                   [status |-> "claimed", token |-> reply[r].token]]
                           ELSE kept
             /\ unacked' = [unacked EXCEPT ![r] = {e \in @ : e.job # work[r].job}]
             /\ NextRound(r)
    <2>1. reply[r].job \in Deliveries /\ reply[r].token \in Tokens
      BY <1>6, ClaimedJob DEF Told
    <2>2. StoreGrows
      BY <1>2, <1>6, <2>1, StoreLanding
    <2>3. ResultsFit(r)
      <3>1. {e \in unacked[r] : e.job # work[r].job} \subseteq unacked[r]
        OBVIOUS
      <3> QED
        BY <1>6, <3>1, ResultsRemoved
    <2> QED
      BY <1>1, <1>6, <2>2, <2>3, RoundEnds
  <1>7. CASE Raise(r) /\ OnlyControl
    BY <1>1, <1>7, Answered, ResultsKept, RaiseEnds DEF OnlyControl, storeVars
  <1> QED
    BY <1>3, <1>4, <1>5, <1>6, <1>7 DEF LandClaimAnswered

LEMMA PollAnsweredInv ==
    ASSUME DInv, NEW r \in Runners, PollAnswered(r)
    PROVE  DInv'
  <1>1. reply[r].kind # "none" /\ step[r] = "claim" /\ gate' \subseteq Runners
    BY DEF PollAnswered, Told, OnlyControl, Raise, DInv, DaemonTypes
  <1>2. ResultsFit(r)
    BY ResultsKept DEF PollAnswered, OnlyControl, storeVars
  <1>3. CASE NextRound(r) /\ UNCHANGED storeVars
    BY <1>1, <1>2, <1>3, StoreKept, RoundEnds DEF storeVars
  <1>4. CASE /\ Told(r, {"job"})
             /\ RecordClaimed(r, reply[r].job, reply[r].token)
             /\ work' = [work EXCEPT ![r] =
                            [job |-> reply[r].job, token |-> reply[r].token, result |-> None]]
             /\ Go(r, "review")
             /\ UNCHANGED gate
    <2> DEFINE w == [job |-> reply[r].job, token |-> reply[r].token, result |-> None]
    <2>1. reply[r].job \in Deliveries /\ reply[r].token \in Tokens
      BY <1>4, ClaimedJob DEF Told
    <2>2. StoreGrows /\ local'[r][reply[r].job].status # "none"
      BY <1>4, <2>1, StoreClaimed
    <2>3. w \in Work /\ w.job = reply[r].job /\ w.job # None /\ w.token # None
      BY <2>1, QueueAssumption, DaemonAssumption DEF Work
    <2>4. w.job \in Deliveries /\ local'[r][w.job].status # "none"
      BY <2>1, <2>2
    <2>5. r \notin sent /\ phase[r] \notin {"down", "raised"}
      BY <1>1, Answered
    <2>6. work' = [work EXCEPT ![r] = w]
      BY <1>4
    <2> HIDE DEF w
    <2> QED
      BY <1>2, <1>4, <2>2, <2>3, <2>4, <2>5, <2>6, GoesOn DEF InStore
  <1>5. CASE Raise(r) /\ OnlyControl
    BY <1>1, <1>2, <1>5, Answered, RaiseEnds DEF OnlyControl, storeVars
  <1> QED
    BY <1>3, <1>4, <1>5 DEF PollAnswered, OnlyControl, storeVars

-----------------------------------------------------------------------------
(* The heads of the loops.                                                 *)

\* The daemon changes only where it is and what it has at hand.
LEMMA ControlOnly ==
    ASSUME DInv, NEW r \in Runners, UNCHANGED <<local, unacked, sent, reply, gate>>,
           overtime' \subseteq Runners, produced' \subseteq Result,
           NEW ph \in Phases, phase' = [phase EXCEPT ![r] = ph],
           NEW s \in Steps, step' = [step EXCEPT ![r] = s],
           NEW T \in SUBSET (Deliveries \cup Entry), todo' = [todo EXCEPT ![r] = T],
           NEW w \in Work, work' = [work EXCEPT ![r] = w],
           s \notin Calls => r \notin sent /\ reply[r].kind = "none",
           ph \in {"down", "raised"} => s = "next",
           s \notin {"next", "claim"} => w.job # None /\ w.token # None,
           s \in {"ack", "land_claim", "land_ack"} => w.result # None,
           w.job # None => InStore(r, w.job),
           ph = "recover" => \A j \in T : InStore(r, j),
           ph = "replay" => \A e \in T : e \in Entry /\ InStore(r, e.job)
    PROVE  DInv'
  <1>1. DaemonTypes'
    BY DEF DInv, DaemonTypes
  <1>2. OthersKept(r)
    BY DEF DInv, DaemonTypes, OthersKept
  <1>3. phase'[r] = ph /\ step'[r] = s /\ todo'[r] = T /\ work'[r] = w
    BY DEF DInv, DaemonTypes
  <1>4. AtHand(r)'
    BY <1>3 DEF DInv, AtHand, InStore
  <1> QED
    BY <1>1, <1>2, <1>4, OneDaemon, StoreKept

\* EXCEPT with the old value changes nothing.
LEMMA Same ==
    ASSUME DInv, NEW r \in Runners
    PROVE  /\ phase[r] \in Phases /\ phase = [phase EXCEPT ![r] = phase[r]]
           /\ step[r] \in Steps /\ step = [step EXCEPT ![r] = step[r]]
           /\ todo[r] \in SUBSET (Deliveries \cup Entry) /\ todo = [todo EXCEPT ![r] = todo[r]]
           /\ work[r] \in Work /\ work = [work EXCEPT ![r] = work[r]]
           /\ overtime \subseteq Runners /\ produced \subseteq Result
           /\ AtHand(r)
  BY DEF DInv, DaemonTypes

LEMMA RecoverNextInv ==
    ASSUME DInv, NEW r \in Runners, RecoverNext(r)
    PROVE  DInv'
  <1>1. PICK j \in todo[r] :
          /\ todo' = [todo EXCEPT ![r] = @ \ {j}]
          /\ work' = [work EXCEPT ![r] = [NoWork EXCEPT !.job = j, !.token = local[r][j].token]]
    BY DEF RecoverNext
  <1> DEFINE w == [NoWork EXCEPT !.job = j, !.token = local[r][j].token]
  <1>2. /\ phase[r] = "recover" /\ step' = [step EXCEPT ![r] = "heartbeat"]
        /\ UNCHANGED <<local, unacked, sent, reply, gate, phase, overtime, produced>>
    BY DEF RecoverNext, storeVars, dhistory
  <1>3. InStore(r, j) /\ j \in Deliveries /\ local[r][j] \in LocalJob /\ local[r][j].token # None
    BY <1>1, <1>2, Same DEF AtHand, InStore, DInv, DaemonTypes, StoredTokens
  <1>4. w \in Work /\ w.job = j /\ w.job # None /\ w.token # None
    BY <1>3, DaemonAssumption DEF NoWork, Work, LocalJob
  <1>5. work' = [work EXCEPT ![r] = w] /\ todo' = [todo EXCEPT ![r] = todo[r] \ {j}]
    BY <1>1
  <1>6. \A k \in todo[r] \ {j} : InStore(r, k)
    BY <1>2, Same DEF AtHand
  <1> HIDE DEF w
  <1>7. DaemonTypes'
    BY <1>2, <1>4, <1>5, Same DEF DInv, DaemonTypes, Steps, Calls
  <1>8. OthersKept(r)
    BY <1>2, <1>5 DEF DInv, DaemonTypes, OthersKept
  <1>9. /\ phase'[r] = "recover" /\ step'[r] = "heartbeat"
        /\ todo'[r] = todo[r] \ {j} /\ work'[r] = w
    BY <1>2, <1>5 DEF DInv, DaemonTypes
  <1>10. AtHand(r)'
    BY <1>2, <1>3, <1>4, <1>6, <1>9, Same DEF AtHand, InStore, Calls
  <1> QED
    BY <1>2, <1>7, <1>8, <1>10, OneDaemon, StoreKept

LEMMA RecoverDoneInv ==
    ASSUME DInv, NEW r \in Runners, RecoverDone(r)
    PROVE  DInv'
  <1>1. /\ step[r] = "next" /\ phase' = [phase EXCEPT ![r] = "replay"]
        /\ todo' = [todo EXCEPT ![r] = unacked[r]]
        /\ UNCHANGED <<local, unacked, step, work, sent, reply, gate, overtime, produced>>
    BY DEF RecoverDone, storeVars, dhistory
  <1>2. \A e \in unacked[r] : e \in Entry /\ InStore(r, e.job)
    BY Same DEF AtHand, DInv, DaemonTypes
  <1>3. DaemonTypes'
    BY <1>1, <1>2, Same DEF DInv, DaemonTypes, Phases
  <1>4. OthersKept(r)
    BY <1>1 DEF DInv, DaemonTypes, OthersKept
  <1>5. phase'[r] = "replay" /\ todo'[r] = unacked[r]
    BY <1>1 DEF DInv, DaemonTypes
  <1>6. AtHand(r)'
    BY <1>1, <1>2, <1>5, Same DEF AtHand, InStore
  <1> QED
    BY <1>1, <1>3, <1>4, <1>6, OneDaemon, StoreKept

LEMMA ReplayNextInv ==
    ASSUME DInv, NEW r \in Runners, ReplayNext(r)
    PROVE  DInv'
  <1>1. PICK e \in todo[r] :
          /\ todo' = [todo EXCEPT ![r] = @ \ {e}]
          /\ work' = [work EXCEPT ![r] = [job |-> e.job, token |-> e.token, result |-> e.result]]
          /\ step' = [step EXCEPT ![r] =
                         IF e.reason = "invalid_or_expired" THEN "land_claim" ELSE "ack"]
    BY DEF ReplayNext
  <1> DEFINE w == [job |-> e.job, token |-> e.token, result |-> e.result]
             s == IF e.reason = "invalid_or_expired" THEN "land_claim" ELSE "ack"
  <1>2. /\ phase[r] = "replay"
        /\ UNCHANGED <<local, unacked, sent, reply, gate, phase, overtime, produced>>
    BY DEF ReplayNext, storeVars, dhistory
  <1>3. e \in Entry /\ InStore(r, e.job)
    BY <1>1, <1>2, Same DEF AtHand
  <1>4. /\ w \in Work /\ w.job = e.job /\ w.job # None /\ w.token # None /\ w.result # None
    BY <1>3, DaemonAssumption, QueueAssumption DEF Entry, Work
  <1>5. s \in Steps /\ s \in Calls
    BY DEF Steps, Calls
  <1>6. /\ work' = [work EXCEPT ![r] = w] /\ todo' = [todo EXCEPT ![r] = todo[r] \ {e}]
        /\ step' = [step EXCEPT ![r] = s]
    BY <1>1
  <1> HIDE DEF w, s
  <1>7. DaemonTypes'
    BY <1>2, <1>4, <1>5, <1>6 DEF DInv, DaemonTypes
  <1>8. OthersKept(r)
    BY <1>2, <1>6 DEF DInv, DaemonTypes, OthersKept
  <1>9. phase'[r] = "replay" /\ step'[r] = s /\ todo'[r] \subseteq todo[r] /\ work'[r] = w
    BY <1>2, <1>6 DEF DInv, DaemonTypes
  <1>10. AtHand(r)'
    <2>1. InStore(r, w.job) /\ AtHand(r)
      BY <1>3, <1>4, Same
    <2> QED
      BY <1>2, <1>4, <1>5, <1>9, <2>1 DEF AtHand, InStore
  <1> QED
    BY <1>2, <1>7, <1>8, <1>10, OneDaemon, StoreKept

LEMMA ReplayDoneInv ==
    ASSUME DInv, NEW r \in Runners, ReplayDone(r)
    PROVE  DInv'
  <1>1. /\ step[r] = "next" /\ phase' = [phase EXCEPT ![r] = "poll"]
        /\ UNCHANGED <<local, unacked, step, work, todo, sent, reply, gate, overtime, produced>>
    BY DEF ReplayDone, storeVars, dhistory
  <1>2. DaemonTypes'
    BY <1>1 DEF DInv, DaemonTypes, Phases
  <1>3. OthersKept(r)
    BY <1>1 DEF DInv, DaemonTypes, OthersKept
  <1>4. phase'[r] = "poll"
    BY <1>1 DEF DInv, DaemonTypes
  <1>5. AtHand(r)'
    BY <1>1, <1>4, Same DEF AtHand, InStore
  <1> QED
    BY <1>1, <1>2, <1>3, <1>5, OneDaemon, StoreKept

LEMMA PollOnceInv ==
    ASSUME DInv, NEW r \in Runners, PollOnce(r)
    PROVE  DInv'
  <1>1. /\ phase[r] = "poll" /\ step' = [step EXCEPT ![r] = "claim"]
        /\ UNCHANGED <<local, unacked, phase, work, todo, sent, reply, gate, overtime, produced>>
    BY DEF PollOnce, storeVars, dhistory
  <1>2. DaemonTypes'
    BY <1>1 DEF DInv, DaemonTypes, Steps, Calls
  <1>3. OthersKept(r)
    BY <1>1 DEF DInv, DaemonTypes, OthersKept
  <1>4. step'[r] = "claim"
    BY <1>1 DEF DInv, DaemonTypes
  <1>5. AtHand(r)'
    BY <1>1, <1>4, Same DEF AtHand, InStore, Calls
  <1> QED
    BY <1>1, <1>2, <1>3, <1>5, OneDaemon, StoreKept

LEMMA StartDaemonInv ==
    ASSUME DInv, NEW r \in Runners, StartDaemon(r)
    PROVE  DInv'
  <1> DEFINE T == {j \in Deliveries : local[r][j].status = "claimed"}
  <1>1. /\ phase[r] \in {"down", "raised"} /\ phase' = [phase EXCEPT ![r] = "recover"]
        /\ todo' = [todo EXCEPT ![r] = T]
        /\ work' = [work EXCEPT ![r] = NoWork]
        /\ gate' = gate \ {r} /\ overtime' = overtime \ {r}
        /\ UNCHANGED <<local, unacked, step, sent, reply, produced>>
    BY DEF StartDaemon, storeVars
  <1>2. step[r] = "next" /\ r \notin sent /\ reply[r].kind = "none"
    BY <1>1, Same DEF AtHand, Calls
  <1>3. T \in SUBSET (Deliveries \cup Entry) /\ \A j \in T : InStore(r, j)
    BY DEF InStore
  <1> HIDE DEF T
  <1>4. DaemonTypes'
    BY <1>1, <1>3, BlankTypes DEF DInv, DaemonTypes, Phases
  <1>5. OthersKept(r)
    BY <1>1 DEF DInv, DaemonTypes, OthersKept
  <1>6. phase'[r] = "recover" /\ step'[r] = "next" /\ todo'[r] = T /\ work'[r] = NoWork
    BY <1>1, <1>2 DEF DInv, DaemonTypes
  <1>7. AtHand(r)'
    BY <1>1, <1>2, <1>3, <1>6, BlankTypes, Same DEF AtHand, InStore
  <1> QED
    BY <1>1, <1>4, <1>5, <1>7, OneDaemon, StoreKept

LEMMA HaltInv ==
    ASSUME DInv, NEW r \in Runners, Halt(r)
    PROVE  DInv'
  <1>1. /\ phase' = [phase EXCEPT ![r] = "down"]
        /\ step' = [step EXCEPT ![r] = "next"]
        /\ todo' = [todo EXCEPT ![r] = {}]
        /\ work' = [work EXCEPT ![r] = NoWork]
        /\ reply' = [reply EXCEPT ![r] = Silence]
        /\ sent' = sent \ {r} /\ gate' = gate \ {r} /\ overtime' = overtime \ {r}
        /\ UNCHANGED <<local, unacked, produced>>
    BY DEF Halt, storeVars
  <1>2. DaemonTypes'
    BY <1>1, BlankTypes DEF DInv, DaemonTypes, Phases, Steps
  <1>3. OthersKept(r)
    BY <1>1 DEF DInv, DaemonTypes, OthersKept
  <1>4. /\ phase'[r] = "down" /\ step'[r] = "next" /\ work'[r] = NoWork
        /\ reply'[r] = Silence /\ r \notin sent'
    BY <1>1 DEF DInv, DaemonTypes
  <1>5. AtHand(r)'
    BY <1>1, <1>4, BlankTypes, Same DEF AtHand, InStore
  <1> QED
    BY <1>1, <1>2, <1>3, <1>5, OneDaemon, StoreKept

LEMMA ReviewReturnsInv ==
    ASSUME DInv, NEW r \in Runners, NEW s \in Outcomes, ReviewReturns(r, s)
    PROVE  DInv'
  <1> DEFINE w == [work[r] EXCEPT !.result = s]
             new == [runner |-> r, job |-> work[r].job, result |-> s]
  <1>1. /\ step[r] = "review" /\ step' = [step EXCEPT ![r] = "ack"]
        /\ work' = [work EXCEPT ![r] = w]
        /\ produced' = produced \cup {new}
        /\ UNCHANGED <<local, unacked, phase, todo, sent, reply, gate, overtime>>
    BY DEF ReviewReturns, storeVars
  <1>2. /\ work[r] \in Work /\ work[r].job # None /\ work[r].token # None
        /\ InStore(r, work[r].job) /\ work[r].job \in Deliveries
        /\ phase[r] \notin {"down", "raised"}
    BY <1>1, Same DEF AtHand, InStore
  <1>3. s \in Acknowledged /\ s # None
    BY DaemonAssumption
  <1>4. /\ w \in Work /\ w.job = work[r].job /\ w.token = work[r].token /\ w.result = s
    BY <1>2, <1>3 DEF Work
  <1>5. new \in Result
    BY <1>2, <1>3 DEF Result
  <1> HIDE DEF w, new
  <1>6. produced' \subseteq Result
    BY <1>1, <1>5, Same
  <1>7. /\ phase[r] = "recover" => \A j \in todo[r] : InStore(r, j)
        /\ phase[r] = "replay" => \A e \in todo[r] : e \in Entry /\ InStore(r, e.job)
    BY Same DEF AtHand
  <1>8. /\ phase' = [phase EXCEPT ![r] = phase[r]] /\ phase[r] \in Phases
        /\ todo' = [todo EXCEPT ![r] = todo[r]] /\ todo[r] \in SUBSET (Deliveries \cup Entry)
        /\ overtime' \subseteq Runners
    BY <1>1, Same
  <1>9. "ack" \in Steps \cap Calls
    BY DEF Steps, Calls
  <1> QED
    BY <1>1, <1>2, <1>3, <1>4, <1>6, <1>7, <1>8, <1>9, ControlOnly

-----------------------------------------------------------------------------
(* Calls and their answers.                                                *)

\* Only the call of daemon r is affected.
LEMMA CallOnly ==
    ASSUME DInv, NEW r \in Runners,
           UNCHANGED <<local, unacked, phase, step, todo, work, gate, produced>>,
           overtime' \subseteq Runners,
           step[r] \in Calls,
           NEW a \in Reply, reply' = [reply EXCEPT ![r] = a],
           a.kind = "job" => a.job # None /\ a.token # None,
           sent' \subseteq sent \cup {r}, r \in sent' => a.kind = "none"
    PROVE  DInv'
  <1>1. DaemonTypes'
    BY DEF DInv, DaemonTypes
  <1>2. OthersKept(r)
    BY DEF DInv, DaemonTypes, OthersKept
  <1>3. reply'[r] = a
    BY DEF DInv, DaemonTypes
  <1>4. AtHand(r)'
    BY <1>3, Same DEF AtHand, InStore
  <1> QED
    BY <1>1, <1>2, <1>4, OneDaemon, StoreKept

LEMMA AnswerType ==
    ASSUME NEW k \in {"none", "no_job", "active", "cancelled", "invalid_or_expired", "ok",
                      "denied", "revoked_runner", "unknown_credential", "unreachable", "error"}
    PROVE  Answer(k) \in Reply /\ Answer(k).kind = k /\ k # "job"
  BY DEF Answer, Reply

LEMMA SendCallInv ==
    ASSUME DInv, NEW r \in Runners, SendCall(r)
    PROVE  DInv'
  <1>1. /\ step[r] \in Calls /\ reply[r].kind = "none" /\ sent' = sent \cup {r}
        /\ UNCHANGED <<local, unacked, phase, step, todo, work, reply, gate, overtime, produced>>
    BY DEF SendCall, Calling, storeVars, dhistory
  <1>2. reply' = [reply EXCEPT ![r] = reply[r]] /\ reply[r] \in Reply /\ overtime \subseteq Runners
    BY <1>1 DEF DInv, DaemonTypes
  <1> QED
    BY <1>1, <1>2, CallOnly

LEMMA CallRefusedInv ==
    ASSUME DInv, NEW r \in Runners, CallRefused(r)
    PROVE  DInv'
  <1>1. /\ step[r] \in Calls /\ r \notin sent /\ sent' = sent
        /\ \/ reply' = [reply EXCEPT ![r] = Answer("revoked_runner")]
           \/ reply' = [reply EXCEPT ![r] = Answer("unknown_credential")]
        /\ UNCHANGED <<local, unacked, phase, step, todo, work, gate, overtime, produced>>
    BY DEF CallRefused, Calling, storeVars, dhistory
  <1> QED
    BY <1>1, AnswerType, Same, CallOnly

LEMMA CallFailsInv ==
    ASSUME DInv, NEW r \in Runners, CallFails(r)
    PROVE  DInv'
  <1>1. /\ step[r] \in Calls /\ sent' = sent \ {r}
        /\ reply' = [reply EXCEPT ![r] = Answer("unreachable")]
        /\ UNCHANGED <<local, unacked, phase, step, todo, work, gate, overtime, produced>>
    BY DEF CallFails, storeVars, dhistory
  <1> QED
    BY <1>1, AnswerType, Same, CallOnly

LEMMA DeliverInv ==
    ASSUME DInv, NEW q, NEW r \in Runners, NEW a \in Reply,
           a.kind = "job" => a.job # None /\ a.token # None,
           Deliver(q, r, a)
    PROVE  DInv'
  <1>1. /\ UNCHANGED <<local, unacked, phase, step, todo, work, gate, produced>>
        /\ overtime' \subseteq Runners
    BY DEF Deliver, storeVars, DInv, DaemonTypes
  <1>2. CASE Awaited(q, r)
    <2>1. step[r] \in Calls /\ sent' = sent \ {r} /\ reply' = [reply EXCEPT ![r] = a]
      BY <1>2 DEF Awaited, Calling, Deliver
    <2> QED
      BY <1>1, <2>1, CallOnly
  <1>3. CASE ~Awaited(q, r)
    <2>1. UNCHANGED <<sent, reply>>
      BY <1>3 DEF Deliver
    <2>2. DaemonTypes' /\ OthersKept(r) /\ AtHand(r)'
      BY <1>1, <2>1, Same DEF DInv, DaemonTypes, OthersKept, AtHand, InStore
    <2> QED
      BY <1>1, <2>2, OneDaemon, StoreKept
  <1> QED
    BY <1>2, <1>3

LEMMA RequesterType ==
    ASSUME TypeOK, NEW q \in inflight
    PROVE  Requester(q) \in Runners
  BY DEF TypeOK, Request, ClaimRequest, HeartbeatRequest, AckRequest, Lease, Requester

\* A request that is executed has been authenticated: its answer is no 401.
LEMMA ExecutionIsNo401 ==
    ASSUME NEW q, ExecuteCall(q)
    PROVE  \E a : /\ Deliver(q, Requester(q), a)
                  /\ a.kind \notin {"revoked_runner", "unknown_credential"}
  <1> DEFINE r == Requester(q)
             Kinds == {"no_job", "active", "cancelled", "invalid_or_expired", "ok", "denied",
                       "error"}
  <1>1. HeartbeatReply(q.lease) \in {"active", "cancelled", "invalid_or_expired"}
    BY DEF HeartbeatReply
  <1>2. \/ \E j \in Deliveries, t \in Tokens :
              Deliver(q, r, [kind |-> "job", job |-> j, token |-> t])
        \/ \E k \in Kinds : Deliver(q, r, Answer(k))
    BY <1>1 DEF ExecuteCall
  <1>3. CASE \E k \in Kinds : Deliver(q, r, Answer(k))
    <2>1. PICK k \in Kinds : Deliver(q, r, Answer(k))
      BY <1>3
    <2>2. Answer(k).kind \notin {"revoked_runner", "unknown_credential"}
      BY AnswerType
    <2> HIDE DEF r
    <2> QED
      BY <2>1, <2>2 DEF r
  <1>4. CASE \E j \in Deliveries, t \in Tokens :
                Deliver(q, r, [kind |-> "job", job |-> j, token |-> t])
    BY <1>4
  <1> QED
    BY <1>2, <1>3, <1>4

LEMMA ExecuteCallInv ==
    ASSUME TypeOK, DInv, NEW q \in inflight, ExecuteCall(q)
    PROVE  DInv'
  <1> DEFINE r == Requester(q)
  <1>1. r \in Runners
    BY RequesterType
  <1>2. ASSUME NEW j \in Deliveries, NEW t \in Tokens,
               Deliver(q, r, [kind |-> "job", job |-> j, token |-> t])
        PROVE  DInv'
    <2>1. /\ [kind |-> "job", job |-> j, token |-> t] \in Reply
          /\ j # None /\ t # None
      BY QueueAssumption, DaemonAssumption DEF Reply
    <2> QED
      BY <1>1, <1>2, <2>1, DeliverInv
  <1>3. ASSUME NEW k \in {"no_job", "active", "cancelled", "invalid_or_expired", "ok",
                          "denied", "error"},
               Deliver(q, r, Answer(k))
        PROVE  DInv'
    BY <1>1, <1>3, AnswerType, DeliverInv
  <1>4. HeartbeatReply(q.lease) \in {"active", "cancelled", "invalid_or_expired"}
    BY DEF HeartbeatReply
  <1> QED
    BY <1>2, <1>3, <1>4 DEF ExecuteCall

LEMMA DNextInv == TypeOK /\ DInv /\ [DNext]_dvars => DInv'
  <1> SUFFICES ASSUME TypeOK, DInv, [DNext]_dvars PROVE DInv'
    OBVIOUS
  <1>1. ASSUME UNCHANGED <<storeVars, control, produced>>, overtime' \subseteq Runners
        PROVE  DInv'
    BY <1>1 DEF storeVars, control, DInv, DaemonTypes, StoredTokens, AtHand, InStore
  <1>2. ASSUME UNCHANGED <<storeVars, control, dhistory>> PROVE DInv'
    BY <1>1, <1>2 DEF dhistory, DInv, DaemonTypes
  <1>3. ASSUME DaemonTick PROVE DInv'
    BY <1>1, <1>3 DEF DaemonTick, DInv, DaemonTypes
  <1>4. ASSUME NEW q \in inflight, ExecuteCall(q) PROVE DInv'
    BY <1>4, ExecuteCallInv
  <1>5. ASSUME NEW r \in Runners, DaemonStep(r) PROVE DInv'
    BY <1>5, RecoverNextInv, RecoverAnsweredInv, RecoverDoneInv, ReviewReturnsInv,
       CompleteAnsweredInv, ReplayNextInv, ReplayAnsweredInv, ReplayDoneInv,
       LandClaimAnsweredInv, LandAckAnsweredInv, PollAnsweredInv
    DEF DaemonStep
  <1>6. ASSUME NEW r \in Runners, SendCall(r) \/ CallRefused(r) \/ CallFails(r) PROVE DInv'
    BY <1>6, SendCallInv, CallRefusedInv, CallFailsInv
  <1>7. ASSUME NEW r \in Runners, ReviewRaises(r) \/ ReviewHeartbeat(r) PROVE DInv'
    BY <1>2, <1>7, ReviewRaisesInv DEF ReviewHeartbeat
  <1>8. ASSUME NEW r \in Runners,
               StartDaemon(r) \/ Crash(r) \/ PollOnce(r) \/ PollEnds(r)
        PROVE  DInv'
    BY <1>8, StartDaemonInv, HaltInv, PollOnceInv DEF Crash, PollEnds
  <1> QED
    BY <1>2, <1>3, <1>4, <1>5, <1>6, <1>7, <1>8 DEF DNext, dvars, RotateCredential

\* A daemon's own steps can only bring the current credential into its client; only a
\* rotation makes it stale.
LEMMA StaleSteps ==
    ASSUME NEW r \in Runners,
           \/ DaemonStep(r) \/ ReviewRaises(r) \/ ReviewHeartbeat(r) \/ StartDaemon(r)
           \/ Crash(r) \/ PollOnce(r) \/ PollEnds(r)
           \/ SendCall(r) \/ CallRefused(r) \/ CallFails(r)
    PROVE  stale' \in {stale, stale \ {r}}
  <1>1. CASE DaemonStep(r)
    BY <1>1
    DEF DaemonStep, RecoverNext, RecoverAnswered, RecoverDone, ReviewReturns,
        CompleteAnswered, ReplayNext, ReplayAnswered, ReplayDone, LandClaimAnswered,
        LandAckAnswered, PollAnswered, NextRound, Go, Raise, RefreshCredential
  <1>2. CASE ~DaemonStep(r)
    BY <1>2
    DEF ReviewRaises, Raise, ReviewHeartbeat, StartDaemon, Crash, PollOnce, PollEnds, Halt,
        SendCall, CallRefused, CallFails, RefreshCredential
  <1> QED
    BY <1>1, <1>2

LEMMA StaleNext ==
    ASSUME stale \subseteq Runners, [DNext]_dvars
    PROVE  stale' \subseteq Runners
  BY StaleSteps DEF DNext, dvars, RotateCredential, DaemonTick, ExecuteCall, Deliver

-----------------------------------------------------------------------------
(* The daemons implement the queue.                                        *)

\* What a daemon does by itself leaves the hosted database alone.
LEMMA LocalSteps ==
    ASSUME NEW r \in Runners,
           \/ DaemonStep(r) \/ CallRefused(r) \/ CallFails(r) \/ ReviewRaises(r)
           \/ StartDaemon(r) \/ Crash(r) \/ PollOnce(r) \/ PollEnds(r)
    PROVE  UNCHANGED vars
  <1>1. CASE DaemonStep(r)
    BY <1>1
    DEF DaemonStep, RecoverNext, RecoverAnswered, RecoverDone, ReviewReturns,
        CompleteAnswered, ReplayNext, ReplayAnswered, ReplayDone, LandClaimAnswered,
        LandAckAnswered, PollAnswered, NextRound, Go, Raise
  <1> QED
    BY <1>1
    DEF CallRefused, CallFails, ReviewRaises, Raise, StartDaemon, Crash, PollOnce,
        PollEnds, Halt

LEMMA SendRefines ==
    ASSUME DInv, NEW r \in Runners, SendCall(r)
    PROVE  RunnerSend
  <1>1. step[r] \in Calls /\ AuthenticateRequest(CallOf(r))
    BY DEF SendCall, Calling
  <1>2. CASE step[r] \in {"claim", "land_claim"}
    BY <1>1, <1>2 DEF CallOf, RunnerSend
  <1>3. CASE step[r] = "heartbeat"
    <2>1. CallOf(r) = [op |-> "heartbeat", lease |-> LeaseAtHand(r)]
      BY <1>3 DEF CallOf
    <2>2. LeaseAtHand(r) \in leases
      BY <1>1, <2>1 DEF AuthenticateRequest
    <2> QED
      BY <1>1, <2>1, <2>2 DEF RunnerSend
  <1>4. CASE step[r] \in {"ack", "land_ack"}
    <2>1. CallOf(r) = [op |-> "ack", lease |-> LeaseAtHand(r), result |-> work[r].result]
      BY <1>4 DEF CallOf
    <2>2. LeaseAtHand(r) \in leases
      BY <1>1, <2>1 DEF AuthenticateRequest
    <2>3. work[r].result \in Acknowledged
      BY <1>4, Same DEF AtHand, Work
    <2> QED
      BY <1>1, <2>1, <2>2, <2>3 DEF RunnerSend
  <1> QED
    BY <1>1, <1>2, <1>3, <1>4 DEF Calls

LEMMA DStepRefines ==
    ASSUME DInv, [DNext]_dvars
    PROVE  [Next]_vars
  <1>1. ASSUME NEW q \in inflight, ExecuteCall(q) PROVE RunnerExecute
    BY <1>1 DEF ExecuteCall, RunnerExecute
  <1>2. ASSUME NEW r \in Runners, ReviewHeartbeat(r) PROVE RunnerSend
    BY <1>2 DEF ReviewHeartbeat, AuthenticateRequest, RunnerSend
  <1>3. ASSUME NEW r \in Runners, SendCall(r) PROVE RunnerSend
    BY <1>3, SendRefines
  <1>4. ASSUME DaemonTick PROVE Tick
    BY <1>4 DEF DaemonTick
  <1>5. ASSUME UNCHANGED dvars PROVE UNCHANGED vars
    BY <1>5 DEF dvars
  <1> QED
    BY <1>1, <1>2, <1>3, <1>4, <1>5, LocalSteps DEF DNext, Next, RotateCredential

LEMMA DInductive == DSpec => [](TypeOK /\ DInv)
  <1>1. DInit => TypeOK /\ DInv
    BY InitTypeOK, DInitInv DEF DInit
  <1>2. TypeOK /\ DInv /\ [DNext]_dvars => TypeOK' /\ DInv'
    BY NextTypeOK, DNextInv, DStepRefines
  <1> QED
    BY <1>1, <1>2, PTL DEF DSpec

\* The types hold, a call is under way only at a call, a lease is at hand during
\* every review, and every stored job has its lease token (daemon.py:99-222), for
\* any number of daemons, jobs and tokens.
THEOREM DaemonTypeCorrect == DSpec => []DaemonTypeOK
  <1> DEFINE StaleOK == stale \subseteq Runners
  <1>1. DInit => StaleOK
    BY DEF DInit
  <1>2. StaleOK /\ [DNext]_dvars => StaleOK'
    BY StaleNext
  <1>3. DInv /\ StaleOK => DaemonTypeOK
    BY DInvMeans
  <1> HIDE DEF StaleOK
  <1> QED
    BY <1>1, <1>2, <1>3, DInductive, PTL DEF DSpec

\* The daemons implement the queue: whatever is lost, late or repeated, each of
\* their steps is a step of the runner protocol of runner_jobs.py or leaves the
\* hosted database alone.
THEOREM DaemonsImplementQueue == DSpec => Spec
  <1>1. DInit => Init
    BY DEF DInit
  <1>2. DInv /\ [DNext]_dvars => [Next]_vars
    BY DStepRefines
  <1> QED
    BY <1>1, <1>2, DInductive, PTL DEF DSpec, Spec

\* A daemon that replays, lands and reviews again still leaves one result per job
\* unless an operator requeues it (daemon.py:166-216, runner_jobs.py:263-274).
THEOREM DaemonsOneResult == DSpec => []OneResultPerJob
  BY DaemonsImplementQueue, OneResult, PTL

\* And each job moves as JobLifecycle promises, whatever calls of the daemons are lost,
\* late, repeated or given up (runner/daemon.py).
THEOREM DaemonsKeepThePromise == DSpec => KeepsThePromise
  BY DaemonsImplementQueue, QueueKeepsThePromise, PTL

-----------------------------------------------------------------------------
(* Revocation.                                                             *)

\* Only a revoked runner is told so, and a daemon behind the closed gate has
\* no request under way that was authenticated before, so no answer can make it
\* review.
Knows(r) ==
    /\ reply[r].kind = "revoked_runner" => r \in revoked
    /\ r \in gate =>
          /\ r \in revoked
          /\ r \notin sent
          /\ reply[r].kind \notin {"job", "active"}
          /\ step[r] # "review"

GateInv == \A r \in Runners : Knows(r)

LEMMA RevokedForever ==
    ASSUME [Next]_vars
    PROVE  revoked \subseteq revoked'
  <1>1. CASE RunnerAccount
    BY <1>1 DEF RunnerAccount, PairRunner, RevokeRunner
  <1>2. CASE Webhook
    BY <1>2
    DEF Webhook, Duplicate, EnqueueReviewJob, EnqueueUnidentified, CancelReviewJob,
        runnerVars, vars
  <1>3. CASE WorkerStep
    BY <1>3
    DEF WorkerStep, WorkerClaim, RenewReviewJobLease, CompleteReviewJob, FailReviewJob,
        runnerVars
  <1>4. CASE RunnerExecute
    <2>1. ASSUME NEW q, NEW j, NEW t, ClaimJob(q, j, t) PROVE revoked' = revoked
      BY <2>1 DEF ClaimJob, runnerVars
    <2>2. ASSUME NEW q, ClaimNoJob(q) \/ HeartbeatJob(q) \/ AcknowledgeJob(q) \/ RequestFails(q)
          PROVE  revoked' = revoked
      <3>1. UNCHANGED runnerVars
        BY <2>2 DEF ClaimNoJob, HeartbeatJob, AcknowledgeJob, RequestFails
      <3> QED
        BY <3>1 DEF runnerVars
    <2> QED
      BY <1>4, <2>1, <2>2 DEF RunnerExecute
  <1>6. CASE RunnerSend
    <2>1. ASSUME NEW q, AuthenticateRequest(q) PROVE revoked' = revoked
      BY <2>1 DEF AuthenticateRequest, runnerVars
    <2> QED
      BY <1>6, <2>1 DEF RunnerSend
  <1>5. CASE Tick \/ (\E j \in Deliveries : RequeueReviewJob(j)) \/ UNCHANGED vars
    BY <1>5 DEF Tick, RequeueReviewJob, runnerVars, vars
  <1> QED
    BY <1>1, <1>2, <1>3, <1>4, <1>5, <1>6 DEF Next

\* What the handlers of daemon r do to the parts Knows speaks of.
LEMMA RoundKnows ==
    ASSUME DInv, NEW r \in Runners, NextRound(r) \/ Raise(r) \/ Halt(r), GateInv,
           revoked \subseteq revoked',
           gate' \subseteq gate \cup {r}, r \in gate' \ gate => r \in revoked /\ r \notin sent,
           NEW x \in Runners
    PROVE  Knows(x)'
  <1>1. /\ step' = [step EXCEPT ![r] = "next"] /\ reply' = [reply EXCEPT ![r] = Silence]
        /\ sent' \subseteq sent
    BY DEF NextRound, Go, Raise, Halt
  <1>2. /\ step'[x] = IF x = r THEN "next" ELSE step[x]
        /\ reply'[x] = IF x = r THEN Silence ELSE reply[x]
    BY <1>1 DEF DInv, DaemonTypes
  <1> QED
    BY <1>1, <1>2, BlankTypes DEF GateInv, Knows

LEMMA GoKnows ==
    ASSUME DInv, NEW r \in Runners, NEW s, Go(r, s), GateInv, revoked \subseteq revoked',
           UNCHANGED gate, s = "review" => r \notin gate, NEW x \in Runners
    PROVE  Knows(x)'
  <1>1. /\ step'[x] = IF x = r THEN s ELSE step[x]
        /\ reply'[x] = IF x = r THEN Silence ELSE reply[x]
        /\ sent' = sent
    BY DEF Go, DInv, DaemonTypes
  <1> QED
    BY <1>1, BlankTypes DEF GateInv, Knows

LEMMA HandlersKnow ==
    ASSUME DInv, NEW r \in Runners, GateInv, revoked \subseteq revoked', NEW x \in Runners,
           \/ RecoverAnswered(r) \/ CompleteAnswered(r) \/ ReplayAnswered(r)
           \/ LandClaimAnswered(r) \/ LandAckAnswered(r) \/ PollAnswered(r)
           \/ ReviewRaises(r) \/ Crash(r) \/ PollEnds(r)
    PROVE  Knows(x)'
  <1>0. reply[r].kind # "none" => r \notin sent
    BY DEF DInv, AtHand
  <1>1. CASE RecoverAnswered(r)
    <2>1. CASE Go(r, "review") /\ UNCHANGED gate /\ Told(r, {"active"})
      BY <2>1, GoKnows DEF GateInv, Knows, Told
    <2> QED
      BY <1>1, <2>1, RoundKnows DEF RecoverAnswered, OnlyControl, Raise
  <1>2. CASE CompleteAnswered(r)
    BY <1>2, RoundKnows, GoKnows DEF CompleteAnswered, OnlyControl, Raise
  <1>3. CASE ReplayAnswered(r) \/ LandAckAnswered(r) \/ ReviewRaises(r)
    BY <1>3, RoundKnows DEF ReplayAnswered, LandAckAnswered, ReviewRaises, OnlyControl, Raise
  <1>4. CASE LandClaimAnswered(r)
    <2>1. CASE Told(r, {"revoked_runner"}) /\ gate' = gate \cup {r} /\ NextRound(r)
      BY <1>0, <2>1, RoundKnows DEF Told, GateInv, Knows
    <2>2. CASE Go(r, "land_ack") /\ UNCHANGED gate
      BY <2>2, GoKnows
    <2>3. CASE (NextRound(r) \/ Raise(r)) /\ UNCHANGED gate
      BY <2>3, RoundKnows
    <2> QED
      BY <1>4, <2>1, <2>2, <2>3 DEF LandClaimAnswered, OnlyControl, Raise
  <1>5. CASE PollAnswered(r)
    <2>1. CASE Told(r, {"revoked_runner"}) /\ gate' = gate \cup {r} /\ NextRound(r)
      BY <1>0, <2>1, RoundKnows DEF Told, GateInv, Knows
    <2>2. CASE Go(r, "review") /\ UNCHANGED gate /\ Told(r, {"job"})
      BY <2>2, GoKnows DEF GateInv, Knows, Told
    <2>3. CASE (NextRound(r) \/ Raise(r)) /\ UNCHANGED gate
      BY <2>3, RoundKnows
    <2> QED
      BY <1>5, <2>1, <2>2, <2>3 DEF PollAnswered, OnlyControl, Raise
  <1>6. CASE Crash(r) \/ PollEnds(r)
    BY <1>6, RoundKnows DEF Crash, PollEnds, Halt
  <1> QED
    BY <1>1, <1>2, <1>3, <1>4, <1>5, <1>6

LEMMA CallsKnow ==
    ASSUME TypeOK, DInv, GateInv, revoked \subseteq revoked', NEW x \in Runners,
           \/ \E r \in Runners : SendCall(r) \/ CallRefused(r) \/ CallFails(r)
           \/ \E q \in inflight : ExecuteCall(q)
    PROVE  Knows(x)'
  <1>1. ASSUME NEW r \in Runners, SendCall(r) PROVE Knows(x)'
    <2>1. Requester(CallOf(r)) = r
      BY <1>1 DEF SendCall, Calling, Calls, CallOf, Requester, LeaseAtHand
    <2>2. r \notin revoked /\ sent' = sent \cup {r} /\ UNCHANGED <<step, reply, gate>>
      BY <1>1, <2>1 DEF SendCall, AuthenticateRequest
    <2> QED
      BY <2>2 DEF GateInv, Knows
  <1>2. ASSUME NEW r \in Runners, CallRefused(r) \/ CallFails(r) PROVE Knows(x)'
    <2>1. PICK k \in {"revoked_runner", "unknown_credential", "unreachable"} :
            /\ reply' = [reply EXCEPT ![r] = Answer(k)]
            /\ k = "revoked_runner" => r \in revoked
      BY <1>2 DEF CallRefused, CallFails
    <2>2. UNCHANGED <<step, gate>> /\ sent' \subseteq sent
      BY <1>2 DEF CallRefused, CallFails
    <2>3. reply'[x].kind = IF x = r THEN k ELSE reply[x].kind
      BY <2>1, AnswerType DEF DInv, DaemonTypes
    <2> QED
      BY <2>1, <2>2, <2>3 DEF GateInv, Knows
  <1>3. ASSUME NEW q \in inflight, ExecuteCall(q) PROVE Knows(x)'
    <2> DEFINE r == Requester(q)
    <2>1. PICK a : Deliver(q, r, a) /\ a.kind # "revoked_runner"
      BY <1>3, ExecutionIsNo401
    <2>2. r \in Runners /\ UNCHANGED <<step, gate>> /\ sent' \subseteq sent
      BY <2>1, RequesterType DEF Deliver
    <2>3. reply'[x] = reply[x] \/ (x = r /\ x \in sent /\ reply'[x] = a)
      BY <2>1, <2>2 DEF Deliver, Awaited, DInv, DaemonTypes
    <2> QED
      BY <2>1, <2>2, <2>3 DEF GateInv, Knows
  <1> QED
    BY <1>1, <1>2, <1>3

LEMMA NextGateInv ==
    ASSUME TypeOK, DInv, GateInv, [DNext]_dvars
    PROVE  GateInv'
  <1> SUFFICES ASSUME NEW x \in Runners PROVE Knows(x)'
    BY DEF GateInv
  <1>0. revoked \subseteq revoked'
    BY DStepRefines, RevokedForever
  <1>1. ASSUME UNCHANGED <<step, sent, reply, gate>> PROVE Knows(x)'
    BY <1>0, <1>1 DEF GateInv, Knows
  <1>2. ASSUME NEW r \in Runners, NEW s, s # "review", step' = [step EXCEPT ![r] = s],
               UNCHANGED <<sent, reply>>, gate' \subseteq gate
        PROVE  Knows(x)'
    <2>1. step'[x] = IF x = r THEN s ELSE step[x]
      BY <1>2 DEF DInv, DaemonTypes
    <2> QED
      BY <1>0, <1>2, <2>1 DEF GateInv, Knows
  <1>3. ASSUME NEW r \in Runners, RecoverDone(r) \/ ReplayDone(r) \/ ReviewHeartbeat(r)
        PROVE  Knows(x)'
    BY <1>1, <1>3 DEF RecoverDone, ReplayDone, ReviewHeartbeat, control
  <1>4. ASSUME NEW r \in Runners,
               RecoverNext(r) \/ PollOnce(r) \/ \E s \in Outcomes : ReviewReturns(r, s)
        PROVE  Knows(x)'
    BY <1>2, <1>4 DEF RecoverNext, PollOnce, ReviewReturns
  <1>5. ASSUME NEW r \in Runners, ReplayNext(r) PROVE Knows(x)'
    BY <1>2, <1>5 DEF ReplayNext
  <1>6. ASSUME NEW r \in Runners, StartDaemon(r) PROVE Knows(x)'
    BY <1>0, <1>6 DEF StartDaemon, GateInv, Knows
  <1>7. ASSUME DaemonTick \/ UNCHANGED <<storeVars, control, dhistory>> PROVE Knows(x)'
    BY <1>1, <1>7 DEF DaemonTick, control
  <1> QED
    BY <1>0, <1>3, <1>4, <1>5, <1>6, <1>7, HandlersKnow, CallsKnow
    DEF DNext, DaemonStep, dvars, RotateCredential

\* A daemon that has been told it is revoked reviews nothing, on any path
\* (revocation.py:3-7): no answer to an earlier request of its own reaches it.
THEOREM RevokedIdle == DSpec => []RevokedReviewsNothing
  <1>1. DInit => GateInv
    BY BlankTypes DEF DInit, GateInv, Knows
  <1>2. GateInv => RevokedReviewsNothing \/ ~DInv
    BY DEF GateInv, Knows, RevokedReviewsNothing, DInv, DaemonTypes
  <1>3. TypeOK /\ DInv /\ GateInv /\ [DNext]_dvars => GateInv'
    BY NextGateInv
  <1> QED
    BY <1>1, <1>2, <1>3, DInductive, PTL DEF DSpec

-----------------------------------------------------------------------------
(* Results.                                                                *)

Own(r, j, s) == [runner |-> r, job |-> j, result |-> s] \in produced

\* Every result daemon r has at hand, has stored or is about to replay is one it
\* computed for the job it is kept with.
OwnResults(r) ==
    /\ work[r].result # None => Own(r, work[r].job, work[r].result)
    /\ \A e \in unacked[r] : Own(r, e.job, e.result)
    /\ phase[r] = "replay" => \A e \in todo[r] : Own(r, e.job, e.result)

ResultInv == OwnResultOnly /\ \A r \in Runners : OwnResults(r)

\* What is in flight after a step: nothing new, a heartbeat, or the call of a daemon.
LEMMA FlightCases ==
    ASSUME [DNext]_dvars
    PROVE  \/ inflight' \subseteq inflight
           \/ \E r \in Runners : ReviewHeartbeat(r) \/ SendCall(r)
  <1>1. CASE Webhook
    BY <1>1
    DEF Webhook, Duplicate, EnqueueReviewJob, EnqueueUnidentified, CancelReviewJob, vars
  <1>2. CASE WorkerStep
    BY <1>2
    DEF WorkerStep, WorkerClaim, RenewReviewJobLease, CompleteReviewJob, FailReviewJob
  <1>3. CASE RunnerAccount
    BY <1>3 DEF RunnerAccount, PairRunner, RevokeRunner
  <1>4. CASE DaemonTick \/ (\E j \in Deliveries : RequeueReviewJob(j)) \/ UNCHANGED dvars
    BY <1>4 DEF DaemonTick, Tick, RequeueReviewJob, dvars, vars
  <1>5. ASSUME NEW q \in inflight, ExecuteCall(q) PROVE inflight' \subseteq inflight
    <2>1. inflight' = inflight \ {q}
      BY <1>5
      DEF ExecuteCall, ClaimJob, ClaimNoJob, HeartbeatJob, AcknowledgeJob, RequestFails
    <2> QED
      BY <2>1
  <1>6. ASSUME UNCHANGED vars PROVE inflight' \subseteq inflight
    BY <1>6 DEF vars
  <1> QED
    BY <1>1, <1>2, <1>3, <1>4, <1>5, <1>6, LocalSteps DEF DNext, RotateCredential

LEMMA NextOwnResultOnly ==
    ASSUME DInv, ResultInv, [DNext]_dvars, produced \subseteq produced'
    PROVE  OwnResultOnly'
  <1>1. CASE inflight' \subseteq inflight
    BY <1>1 DEF ResultInv, OwnResultOnly
  <1>2. ASSUME NEW r \in Runners, ReviewHeartbeat(r) PROVE OwnResultOnly'
    <2>1. [op |-> "heartbeat", lease |-> LeaseAtHand(r)] \notin AckRequest
      BY DEF AckRequest
    <2>2. inflight' = inflight \cup {[op |-> "heartbeat", lease |-> LeaseAtHand(r)]}
      BY <1>2 DEF ReviewHeartbeat, AuthenticateRequest
    <2> QED
      BY <2>1, <2>2 DEF ResultInv, OwnResultOnly
  <1>3. ASSUME NEW r \in Runners, SendCall(r) PROVE OwnResultOnly'
    <2>1. step[r] \in Calls /\ inflight' = inflight \cup {CallOf(r)}
      BY <1>3 DEF SendCall, Calling, AuthenticateRequest
    <2>2. CASE step[r] \in {"ack", "land_ack"}
      <3>1. CallOf(r) = [op |-> "ack", lease |-> LeaseAtHand(r), result |-> work[r].result]
        BY <2>2 DEF CallOf
      <3>2. /\ CallOf(r).lease.runner = r /\ CallOf(r).lease.job = work[r].job
            /\ CallOf(r).result = work[r].result
        BY <3>1 DEF LeaseAtHand
      <3>3. Own(r, work[r].job, work[r].result)
        BY <2>2, Same DEF AtHand, ResultInv, OwnResults
      <3> QED
        BY <2>1, <3>2, <3>3 DEF ResultInv, OwnResultOnly, Own
    <2>3. CASE step[r] \notin {"ack", "land_ack"}
      <3>1. CallOf(r) \notin AckRequest
        BY <2>1, <2>3 DEF CallOf, AckRequest, Calls
      <3> QED
        BY <2>1, <3>1 DEF ResultInv, OwnResultOnly
    <2> QED
      BY <2>2, <2>3
  <1> QED
    BY <1>1, <1>2, <1>3, FlightCases

\* The other daemons, and the parts a step of daemon r leaves alone.
LEMMA OwnKept ==
    ASSUME ResultInv, produced \subseteq produced', NEW x \in Runners,
           work'[x] = work[x] \/ work'[x].result = None,
           unacked'[x] \subseteq unacked[x],
           phase'[x] = "replay" => phase[x] = "replay" /\ todo'[x] \subseteq todo[x]
    PROVE  OwnResults(x)'
  BY DEF ResultInv, OwnResults, Own

LEMMA HandlersOwn ==
    ASSUME DInv, ResultInv, NEW r \in Runners, NEW x \in Runners,
           \/ RecoverAnswered(r) \/ CompleteAnswered(r) \/ ReplayAnswered(r)
           \/ LandClaimAnswered(r) \/ LandAckAnswered(r) \/ PollAnswered(r)
           \/ ReviewRaises(r) \/ Crash(r) \/ PollEnds(r)
    PROVE  OwnResults(x)'
  <1>1. ASSUME NextRound(r) \/ Raise(r) \/ Halt(r), unacked'[x] \subseteq unacked[x]
        PROVE  OwnResults(x)'
    <2>1. /\ work'[x] = work[x] \/ work'[x].result = None
          /\ phase'[x] = "replay" => phase[x] = "replay" /\ todo'[x] = todo[x]
          /\ produced' = produced
      BY <1>1, BlankTypes DEF NextRound, Go, Raise, Halt, DInv, DaemonTypes
    <2> QED
      BY <1>1, <2>1, OwnKept
  <1>2. ASSUME NEW s, Go(r, s), UNCHANGED <<work, unacked>> PROVE OwnResults(x)'
    BY <1>2, OwnKept DEF Go
  <1>3. ASSUME NEW S, unacked' = [unacked EXCEPT ![r] = S], S \subseteq unacked[r]
        PROVE  unacked'[x] \subseteq unacked[x]
    BY <1>3 DEF DInv, DaemonTypes
  <1>4. CASE RecoverAnswered(r)
    BY <1>1, <1>2, <1>4 DEF RecoverAnswered, OnlyControl, storeVars
  <1>5. CASE CompleteAnswered(r)
    <2>1. ASSUME NEW why, RecordPending(r, why), UNCHANGED <<work, produced>>,
                 phase'[x] = "replay" => phase[x] = "replay" /\ todo'[x] = todo[x]
          PROVE  OwnResults(x)'
      <3>1. /\ EntryOf(r, why).job = work[r].job /\ EntryOf(r, why).result = work[r].result
        BY DEF EntryOf
      <3>2. Own(r, work[r].job, work[r].result)
        BY <1>5, Same DEF CompleteAnswered, AtHand, ResultInv, OwnResults
      <3>3. unacked'[x] = IF x = r THEN unacked[r] \cup {EntryOf(r, why)} ELSE unacked[x]
        BY <2>1 DEF RecordPending, DInv, DaemonTypes
      <3> QED
        BY <2>1, <3>1, <3>2, <3>3 DEF ResultInv, OwnResults, Own
    <2>2. CASE RecordPending(r, "invalid_or_expired") /\ Go(r, "land_claim") /\ UNCHANGED work
      BY <2>1, <2>2 DEF Go
    <2>3. CASE RecordPending(r, "network_unreachable") /\ Raise(r)
      BY <2>1, <2>3 DEF Raise, DInv, DaemonTypes
    <2>4. CASE (NextRound(r) \/ Raise(r)) /\ UNCHANGED unacked
      BY <1>1, <2>4
    <2> QED
      BY <1>5, <2>2, <2>3, <2>4 DEF CompleteAnswered, OnlyControl, storeVars
  <1>6. CASE ReplayAnswered(r)
    <2>1. CASE unacked' = [unacked EXCEPT ![r] = @ \ {EntryOf(r, "network_unreachable")}]
      BY <1>1, <1>3, <1>6, <2>1 DEF ReplayAnswered
    <2>2. CASE UNCHANGED unacked
      BY <1>1, <1>6, <2>2 DEF ReplayAnswered
    <2> QED
      BY <1>6, <2>1, <2>2 DEF ReplayAnswered, OnlyControl, storeVars
  <1>7. ASSUME unacked' = [unacked EXCEPT ![r] = {e \in @ : e.job # work[r].job}]
        PROVE  unacked'[x] \subseteq unacked[x]
    BY <1>7 DEF DInv, DaemonTypes
  <1>8. CASE LandAckAnswered(r)
    BY <1>1, <1>7, <1>8 DEF LandAckAnswered, MarkPendingTerminal, OnlyControl, storeVars
  <1>9. CASE LandClaimAnswered(r)
    <2>1. CASE /\ work' = [work EXCEPT ![r].token = reply[r].token]
               /\ Go(r, "land_ack") /\ OnlyControl
      <3>1. work'[x].result = work[x].result /\ work'[x].job = work[x].job
        BY <2>1, Same DEF DInv, DaemonTypes, Work
      <3>2. UNCHANGED <<unacked, phase, todo, produced>>
        BY <2>1 DEF Go, OnlyControl, storeVars
      <3> QED
        BY <3>1, <3>2 DEF ResultInv, OwnResults, Own
    <2>2. CASE (NextRound(r) \/ Raise(r)) /\ unacked'[x] \subseteq unacked[x]
      BY <1>1, <2>2
    <2> QED
      BY <1>7, <1>9, <2>1, <2>2
      DEF LandClaimAnswered, MarkPendingTerminal, OnlyControl, storeVars
  <1>10. CASE PollAnswered(r)
    <2>1. CASE /\ work' = [work EXCEPT ![r] =
                      [job |-> reply[r].job, token |-> reply[r].token, result |-> None]]
               /\ Go(r, "review") /\ UNCHANGED unacked
      <3>1. work'[x] = work[x] \/ work'[x].result = None
        BY <2>1 DEF DInv, DaemonTypes
      <3> QED
        BY <2>1, <3>1, OwnKept DEF Go
    <2>2. CASE (NextRound(r) \/ Raise(r)) /\ UNCHANGED unacked
      BY <1>1, <2>2
    <2> QED
      BY <1>10, <2>1, <2>2 DEF PollAnswered, OnlyControl, storeVars
  <1>11. CASE ReviewRaises(r) \/ Crash(r) \/ PollEnds(r)
    BY <1>1, <1>11 DEF ReviewRaises, Crash, PollEnds, Halt, OnlyControl, storeVars
  <1> QED
    BY <1>4, <1>5, <1>6, <1>8, <1>9, <1>10, <1>11

LEMMA NextResultInv ==
    ASSUME DInv, ResultInv, [DNext]_dvars
    PROVE  ResultInv'
  <1>1. ASSUME UNCHANGED <<work, unacked, phase, todo>>, produced' = produced
        PROVE  produced \subseteq produced' /\ \A x \in Runners : OwnResults(x)'
    BY <1>1, OwnKept
  <1>2. ASSUME NEW r \in Runners, SendCall(r) \/ CallRefused(r) \/ CallFails(r)
                                  \/ ReviewHeartbeat(r) \/ PollOnce(r)
        PROVE  produced \subseteq produced' /\ \A x \in Runners : OwnResults(x)'
    BY <1>1, <1>2 DEF SendCall, CallRefused, CallFails, ReviewHeartbeat, PollOnce,
                      control, dhistory, storeVars
  <1>3. ASSUME NEW q \in inflight, ExecuteCall(q)
        PROVE  produced \subseteq produced' /\ \A x \in Runners : OwnResults(x)'
    BY <1>1, <1>3 DEF ExecuteCall, Deliver, storeVars
  <1>4. ASSUME DaemonTick \/ UNCHANGED <<storeVars, control, dhistory>>
        PROVE  produced \subseteq produced' /\ \A x \in Runners : OwnResults(x)'
    BY <1>1, <1>4 DEF DaemonTick, control, dhistory, storeVars
  <1>5. ASSUME NEW r \in Runners,
               \/ RecoverAnswered(r) \/ CompleteAnswered(r) \/ ReplayAnswered(r)
               \/ LandClaimAnswered(r) \/ LandAckAnswered(r) \/ PollAnswered(r)
               \/ ReviewRaises(r) \/ Crash(r) \/ PollEnds(r)
        PROVE  produced \subseteq produced' /\ \A x \in Runners : OwnResults(x)'
    <2>1. produced' = produced
      BY <1>5 DEF RecoverAnswered, CompleteAnswered, ReplayAnswered, LandClaimAnswered,
                  LandAckAnswered, PollAnswered, ReviewRaises, Crash, PollEnds,
                  NextRound, Go, Raise, Halt
    <2> QED
      BY <1>5, <2>1, HandlersOwn
  <1>6. ASSUME NEW r \in Runners, NEW s \in Outcomes, ReviewReturns(r, s)
        PROVE  produced \subseteq produced' /\ \A x \in Runners : OwnResults(x)'
    <2>1. produced' = produced \cup {[runner |-> r, job |-> work[r].job, result |-> s]}
      BY <1>6 DEF ReviewReturns
    <2>2. UNCHANGED <<unacked, phase, todo>>
      BY <1>6 DEF ReviewReturns, storeVars
    <2>3. ASSUME NEW x \in Runners, x # r PROVE work'[x] = work[x]
      BY <1>6, <2>3 DEF ReviewReturns, DInv, DaemonTypes
    <2>4. work'[r].job = work[r].job /\ work'[r].result = s
      BY <1>6 DEF ReviewReturns, DInv, DaemonTypes, Work
    <2>5. OwnResults(r)'
      BY <2>1, <2>2, <2>4 DEF ResultInv, OwnResults, Own
    <2> QED
      BY <2>1, <2>2, <2>3, <2>5, OwnKept
  <1>7. ASSUME NEW r \in Runners, RecoverNext(r) \/ StartDaemon(r)
        PROVE  produced \subseteq produced' /\ \A x \in Runners : OwnResults(x)'
    <2>1. produced' = produced /\ unacked' = unacked
      BY <1>7 DEF RecoverNext, StartDaemon, dhistory, storeVars
    <2>2. PICK w : work' = [work EXCEPT ![r] = w] /\ w.result = None
      <3>1. CASE StartDaemon(r)
        BY <3>1, BlankTypes DEF StartDaemon
      <3>2. CASE RecoverNext(r)
        <4>1. PICK j \in todo[r] :
                work' = [work EXCEPT ![r] = [NoWork EXCEPT !.job = j, !.token = local[r][j].token]]
          BY <3>2 DEF RecoverNext
        <4>2. [NoWork EXCEPT !.job = j, !.token = local[r][j].token].result = None
          BY DEF NoWork
        <4> QED
          BY <4>1, <4>2
      <3> QED
        BY <1>7, <3>1, <3>2
    <2>3. ASSUME NEW x \in Runners
          PROVE  /\ work'[x] = work[x] \/ work'[x].result = None
                 /\ phase'[x] = "replay" => phase[x] = "replay" /\ todo'[x] \subseteq todo[x]
      BY <1>7, <2>2 DEF RecoverNext, StartDaemon, DInv, DaemonTypes
    <2> QED
      BY <2>1, <2>3, OwnKept
  <1>8. ASSUME NEW r \in Runners, ReplayNext(r)
        PROVE  produced \subseteq produced' /\ \A x \in Runners : OwnResults(x)'
    <2>1. /\ UNCHANGED <<produced, unacked, phase>> /\ phase[r] = "replay"
      BY <1>8 DEF ReplayNext, dhistory, storeVars
    <2>2. PICK e \in todo[r] :
            /\ todo' = [todo EXCEPT ![r] = @ \ {e}]
            /\ work' = [work EXCEPT ![r] =
                           [job |-> e.job, token |-> e.token, result |-> e.result]]
      BY <1>8 DEF ReplayNext
    <2>3. ASSUME NEW x \in Runners PROVE todo'[x] \subseteq todo[x]
      BY <2>2 DEF DInv, DaemonTypes
    <2>4. ASSUME NEW x \in Runners, x # r PROVE work'[x] = work[x]
      BY <2>2, <2>4 DEF DInv, DaemonTypes
    <2>5. work'[r].job = e.job /\ work'[r].result = e.result /\ Own(r, e.job, e.result)
      BY <2>1, <2>2 DEF DInv, DaemonTypes, ResultInv, OwnResults
    <2>6. OwnResults(r)'
      BY <2>1, <2>3, <2>5 DEF ResultInv, OwnResults, Own
    <2> QED
      BY <2>1, <2>3, <2>4, <2>6, OwnKept
  <1>9. ASSUME NEW r \in Runners, RecoverDone(r) \/ ReplayDone(r)
        PROVE  produced \subseteq produced' /\ \A x \in Runners : OwnResults(x)'
    <2>1. UNCHANGED <<produced, unacked, work>>
      BY <1>9 DEF RecoverDone, ReplayDone, dhistory, storeVars
    <2>2. ASSUME NEW x \in Runners
          PROVE  /\ phase'[x] = "replay" =>
                       \/ phase[x] = "replay" /\ todo'[x] = todo[x]
                       \/ todo'[x] = unacked[x]
      BY <1>9 DEF RecoverDone, ReplayDone, DInv, DaemonTypes
    <2> QED
      BY <2>1, <2>2 DEF ResultInv, OwnResults, Own
  <1>10. produced \subseteq produced' /\ \A x \in Runners : OwnResults(x)'
    BY <1>2, <1>3, <1>4, <1>5, <1>6, <1>7, <1>8, <1>9
    DEF DNext, DaemonStep, dvars, RotateCredential
  <1> QED
    BY <1>10, NextOwnResultOnly DEF ResultInv

\* Whatever job a claim under way returns, a result is only sent for the job it was
\* computed for, by the runner that computed it (daemon.py:207-209): on the first
\* acknowledgement, on a replay after a restart, and on a landing.
THEOREM SendsOwnResults == DSpec => []OwnResultOnly
  <1>1. DInit => ResultInv
    BY BlankTypes DEF DInit, Init, ResultInv, OwnResultOnly, OwnResults
  <1>2. DInv /\ ResultInv /\ [DNext]_dvars => ResultInv'
    BY NextResultInv
  <1>3. ResultInv => OwnResultOnly
    BY DEF ResultInv
  <1> QED
    BY <1>1, <1>2, <1>3, DInductive, PTL DEF DSpec

-----------------------------------------------------------------------------
(* Leases at hand.                                                         *)

\* The lease an answer to a claim names.
Named(r) == [job |-> reply[r].job, runner |-> r, token |-> reply[r].token]

\* The row is held under lease l, which has not run out, or a webhook has retired
\* it, or an acknowledgement under l has arrived.
StillMine(l) ==
    \/ l \in landed
    \/ /\ Holds(l)
       /\ jobs[l.job].status \in {"running", "superseded", "cancelled"}
       /\ jobs[l.job].status = "running" => jobs[l.job].locked_for # 0

\* Lease l was handed out and is no longer accepted.
Lost(l) == l \in leases /\ ~(Holds(l) /\ LeaseLive(l.job))

\* What daemon r was told of a lease is still so: a lease refused stays refused, and
\* a lease granted or renewed stays with it until the clock says otherwise.
Verdict(r) ==
    /\ reply[r].kind \in {"active", "cancelled", "invalid_or_expired"} => step[r] = "heartbeat"
    /\ step[r] = "heartbeat" => work[r].token = local[r][work[r].job].token
    /\ reply[r].kind \in {"cancelled", "invalid_or_expired"} => Lost(LeaseAtHand(r))
    /\ r \notin overtime =>
          /\ step[r] = "review" \/ reply[r].kind = "active" => StillMine(LeaseAtHand(r))
          /\ reply[r].kind = "job" => StillMine(Named(r))

VerdictInv == \A r \in Runners : Verdict(r)

\* A row keeps its columns but the timers.
SameHolder(j) ==
    /\ jobs'[j].status = jobs[j].status
    /\ jobs'[j].locked_by = jobs[j].locked_by
    /\ jobs'[j].lease_token = jobs[j].lease_token

\* A lease that is refused is refused for good: the row can come to name its runner
\* again only with a token nobody has had before.
LEMMA LostForever ==
    ASSUME TypeOK, [Next]_vars, NEW l, Lost(l)
    PROVE  Lost(l)'
  <1> USE QueueAssumption
  <1> DEFINE j == l.job
  <1>0. l \in Lease /\ j \in Deliveries /\ l.runner \in Runners /\ l.token \in Tokens
        /\ jobs[j] \in Row
    BY DEF Lost, TypeOK, Lease
  <1>1. ASSUME l \in leases', jobs'[j].status # "running" PROVE Lost(l)'
    BY <1>1 DEF Lost, LeaseLive
  <1>2. ASSUME l \in leases', ~Holds(l)' PROVE Lost(l)'
    BY <1>2 DEF Lost
  <1>3. ASSUME l \in leases', SameHolder(j),
               jobs[j].locked_for = 0 => jobs'[j].locked_for = 0,
               jobs[j].locked_for = None => jobs'[j].locked_for = None
        PROVE  Lost(l)'
    <2>1. Holds(l)' => Holds(l)
      BY <1>3 DEF Holds, SameHolder
    <2>2. LeaseLive(j)' => LeaseLive(j)
      BY <1>0, <1>3 DEF LeaseLive, SameHolder, Row
    <2> QED
      BY <1>3, <2>1, <2>2 DEF Lost
  <1>4. ASSUME l \in leases', jobs'[j] = jobs[j] PROVE Lost(l)'
    BY <1>3, <1>4 DEF SameHolder
  <1>5. CASE TimersOnly
    BY <1>0, <1>3, <1>5 DEF TimersOnly, SameHolder, Lost
  <1>6. ASSUME NEW d \in Deliveries, NEW p \in Pulls, NEW h \in Heads,
               EnqueueReviewJob(d, p, h)
        PROVE  Lost(l)'
    <2>1. jobs'[j] = jobs[j] \/ jobs'[j].status \in {"pending", "superseded"}
      BY <1>0, <1>6, PendingFields DEF EnqueueReviewJob, Row
    <2> QED
      BY <1>1, <1>4, <1>6, <2>1 DEF EnqueueReviewJob, history, Lost
  <1>7. ASSUME NEW d \in Deliveries, EnqueueUnidentified(d) PROVE Lost(l)'
    <2>1. jobs'[j] = jobs[j] \/ jobs'[j].status = "pending"
      BY <1>0, <1>7, PendingFields DEF EnqueueUnidentified, TypeOK
    <2> QED
      BY <1>1, <1>4, <1>7, <2>1 DEF EnqueueUnidentified, history, Lost
  <1>8. ASSUME NEW d \in Deliveries, NEW p \in Pulls, CancelReviewJob(d, p) PROVE Lost(l)'
    <2>1. jobs'[j] = jobs[j] \/ jobs'[j].status = "cancelled"
      BY <1>0, <1>8 DEF CancelReviewJob, Row
    <2> QED
      BY <1>1, <1>4, <1>8, <2>1 DEF CancelReviewJob, history, Lost
  <1>9. ASSUME NEW w \in Workers, NEW k \in Deliveries, WorkerClaim(w, k) PROVE Lost(l)'
    <2>1. jobs'[j] = jobs[j] \/ jobs'[j].locked_by = w
      BY <1>0, <1>9 DEF WorkerClaim, TypeOK, Row
    <2> QED
      BY <1>0, <1>2, <1>4, <1>9, <2>1 DEF WorkerClaim, Lost, Holds
  <1>10. ASSUME NEW w \in Workers, NEW k \in Deliveries,
                CompleteReviewJob(w, k) \/ FailReviewJob(w, k)
         PROVE  Lost(l)'
    <2>1. jobs'[j] = jobs[j] \/ jobs'[j].status \in {"succeeded", "failed", "pending"}
      BY <1>0, <1>10 DEF CompleteReviewJob, FailReviewJob, TypeOK, Row
    <2> QED
      BY <1>1, <1>4, <1>10, <2>1 DEF CompleteReviewJob, FailReviewJob, history, Lost
  <1>11. ASSUME NEW q \in inflight, NEW k \in Deliveries, NEW t \in Tokens, ClaimJob(q, k, t)
         PROVE  Lost(l)'
    <2>1. jobs'[j] = jobs[j] \/ jobs'[j].lease_token = t
      BY <1>0, <1>11 DEF ClaimJob, TypeOK, Row
    <2>2. l.token # t /\ l \in leases'
      BY <1>11 DEF ClaimJob, Lost
    <2> QED
      BY <1>2, <1>4, <2>1, <2>2 DEF Holds
  <1>12. ASSUME NEW q \in inflight, AckApplied(q) PROVE Lost(l)'
    <2>1. q.lease.job \in Deliveries /\ q.result \in {"succeeded", "failed"}
      BY <1>12 DEF AckApplied, AcknowledgeJob, AckRequest, Lease, Acknowledged
    <2>2. jobs'[j] = jobs[j] \/ jobs'[j].status \in {"succeeded", "failed"}
      BY <1>0, <1>12, <2>1 DEF AckApplied, AcknowledgeJob, TypeOK, Row
    <2> QED
      BY <1>1, <1>4, <1>12, <2>2 DEF AckApplied, AcknowledgeJob, Lost
  <1>13. ASSUME NEW k \in Deliveries, RequeueReviewJob(k) PROVE Lost(l)'
    <2>1. jobs'[j] = jobs[j] \/ jobs'[j].status = "pending"
      BY <1>0, <1>13 DEF RequeueReviewJob, TypeOK, Row
    <2> QED
      BY <1>1, <1>4, <1>13, <2>1 DEF RequeueReviewJob, Lost
  <1> QED
    BY <1>5, <1>6, <1>7, <1>8, <1>9, <1>10, <1>11, <1>12, <1>13, StepCases

\* A lease that is held and has not run out is taken away by nobody: the row cannot
\* be claimed, a worker does not own it, and an acknowledgement that is applied to it
\* is one under the same lease.
LEMMA MineUntilTime ==
    ASSUME TypeOK, RowInv, [Next]_vars, NEW l \in Lease, StillMine(l),
           jobs[l.job].locked_for # 0 => jobs'[l.job].locked_for # 0
    PROVE  StillMine(l)'
  <1> USE QueueAssumption
  <1> DEFINE j == l.job
  <1>0. j \in Deliveries /\ l.runner \in Runners /\ l.token \in Tokens /\ jobs[j] \in Row
    BY DEF TypeOK, Lease
  <1>a. landed \subseteq landed' => (l \in landed => StillMine(l)')
    BY DEF StillMine
  <1>b. CASE l \in landed
    <2>1. \A d, p, h : EnqueueReviewJob(d, p, h) => landed' = landed
      BY DEF EnqueueReviewJob, history
    <2>2. \A d, p : EnqueueUnidentified(d) \/ CancelReviewJob(d, p) => landed' = landed
      BY DEF EnqueueUnidentified, CancelReviewJob, history
    <2>3. \A w, k : WorkerClaim(w, k) \/ CompleteReviewJob(w, k) \/ FailReviewJob(w, k)
                       => landed' = landed
      BY DEF WorkerClaim, CompleteReviewJob, FailReviewJob, history
    <2>4. \A q, k, t : ClaimJob(q, k, t) \/ RequeueReviewJob(k) => landed' = landed
      BY DEF ClaimJob, RequeueReviewJob
    <2>5. \A q : AckApplied(q) => landed \subseteq landed'
      BY DEF AckApplied, AcknowledgeJob
    <2>6. landed \subseteq landed'
      BY <2>1, <2>2, <2>3, <2>4, <2>5, StepCases DEF TimersOnly
    <2> QED
      BY <1>a, <1>b, <2>6
  <1>c. CASE l \notin landed
    <2>0. /\ jobs[j].locked_by = l.runner /\ jobs[j].lease_token = l.token
          /\ jobs[j].status \in {"running", "superseded", "cancelled"}
          /\ jobs[j].status = "running" => jobs[j].locked_for # 0
      BY <1>c DEF StillMine, Holds
    <2>1. ASSUME jobs'[j].locked_by = l.runner, jobs'[j].lease_token = l.token,
                 jobs'[j].status \in {"superseded", "cancelled"}
          PROVE  StillMine(l)'
      BY <2>1 DEF StillMine, Holds
    <2>2. ASSUME SameHolder(j) PROVE StillMine(l)'
      BY <2>0, <2>2 DEF StillMine, Holds, SameHolder
    <2>3. ASSUME jobs'[j] = jobs[j] PROVE StillMine(l)'
      BY <2>2, <2>3 DEF SameHolder
    <2>4. j \in deliveries
      BY <1>0, <2>0 DEF RowInv, RowsHaveDeliveries
    <2>5. ~Claimable(j) /\ \A w \in Workers : ~OwnedByWorker(w, j)
      BY <1>0, <2>0 DEF Claimable, OwnedByWorker
    <2>6. CASE TimersOnly
      BY <1>0, <2>2, <2>6 DEF TimersOnly, SameHolder
    <2>7. ASSUME NEW d \in Deliveries, NEW p \in Pulls, NEW h \in Heads,
                 EnqueueReviewJob(d, p, h)
          PROVE  StillMine(l)'
      <3>1. \/ jobs'[j] = jobs[j]
            \/ /\ jobs'[j].status = "superseded" /\ jobs'[j].locked_by = jobs[j].locked_by
               /\ jobs'[j].lease_token = jobs[j].lease_token
        BY <1>0, <2>4, <2>7 DEF EnqueueReviewJob, Row
      <3> QED
        BY <2>0, <2>1, <2>3, <3>1
    <2>8. ASSUME NEW d \in Deliveries, EnqueueUnidentified(d) PROVE StillMine(l)'
      BY <1>0, <2>3, <2>4, <2>8 DEF EnqueueUnidentified, TypeOK
    <2>9. ASSUME NEW d \in Deliveries, NEW p \in Pulls, CancelReviewJob(d, p)
          PROVE  StillMine(l)'
      <3>1. \/ jobs'[j] = jobs[j]
            \/ /\ jobs'[j].status = "cancelled" /\ jobs'[j].locked_by = jobs[j].locked_by
               /\ jobs'[j].lease_token = jobs[j].lease_token
        BY <1>0, <2>9 DEF CancelReviewJob, Row
      <3> QED
        BY <2>0, <2>1, <2>3, <3>1
    <2>10. ASSUME NEW w \in Workers, NEW k \in Deliveries, WorkerClaim(w, k)
           PROVE  StillMine(l)'
      <3>1. Claimable(k)
        BY <2>10 DEF WorkerClaim, NextJob, FirstOf, WorkerCandidates
      <3> QED
        BY <1>0, <2>3, <2>5, <2>10, <3>1 DEF WorkerClaim, TypeOK
    <2>11. ASSUME NEW w \in Workers, NEW k \in Deliveries,
                  CompleteReviewJob(w, k) \/ FailReviewJob(w, k)
           PROVE  StillMine(l)'
      <3>1. k # j
        BY <2>5, <2>11 DEF CompleteReviewJob, FailReviewJob
      <3> QED
        BY <1>0, <2>3, <2>11, <3>1 DEF CompleteReviewJob, FailReviewJob, TypeOK
    <2>12. ASSUME NEW q \in inflight, NEW k \in Deliveries, NEW t \in Tokens, ClaimJob(q, k, t)
           PROVE  StillMine(l)'
      <3>1. Claimable(k)
        BY <2>12 DEF ClaimJob, NextJob, FirstOf, RunnerCandidates
      <3> QED
        BY <1>0, <2>3, <2>5, <2>12, <3>1 DEF ClaimJob, TypeOK
    <2>13. ASSUME NEW q \in inflight, AckApplied(q) PROVE StillMine(l)'
      <3>1. q.lease \in Lease /\ Holds(q.lease)
        BY <2>13, AppliedMeans DEF AckApplied, AcknowledgeJob, AckRequest
      <3>2. CASE q.lease.job = j
        <4>1. q.lease = l
          BY <2>0, <3>1, <3>2, SameLease DEF Holds
        <4> QED
          BY <2>13, <4>1 DEF AckApplied, AcknowledgeJob, StillMine
      <3>3. CASE q.lease.job # j
        BY <1>0, <2>3, <2>13, <3>3 DEF AckApplied, AcknowledgeJob, TypeOK
      <3> QED
        BY <3>2, <3>3
    <2>14. ASSUME NEW k \in Deliveries, RequeueReviewJob(k) PROVE StillMine(l)'
      <3>1. k # j
        BY <2>0, <2>14 DEF RequeueReviewJob
      <3> QED
        BY <1>0, <2>3, <2>14, <3>1 DEF RequeueReviewJob, TypeOK
    <2> QED
      BY <2>6, <2>7, <2>8, <2>9, <2>10, <2>11, <2>12, <2>13, <2>14, StepCases
  <1> QED
    BY <1>b, <1>c

\* A step of the queue that is not the clock.
Timeless ==
    \/ Webhook \/ WorkerStep \/ RunnerAccount \/ RunnerSend \/ RunnerExecute
    \/ \E j \in Deliveries : RequeueReviewJob(j)
    \/ UNCHANGED vars

\* Only the clock lets a lease run out.
LEMMA OnlyTimeRunsOut ==
    ASSUME TypeOK, Timeless, NEW j \in Deliveries, jobs[j].locked_for # 0
    PROVE  jobs'[j].locked_for # 0
  <1> USE QueueAssumption
  <1>0. jobs[j] \in Row /\ None # 0 /\ LeaseTicks # 0
    BY DEF TypeOK
  <1>1. ASSUME jobs' = jobs PROVE jobs'[j].locked_for # 0
    BY <1>1
  <1>2. CASE Webhook
    <2>1. ASSUME NEW d \in Deliveries, NEW p \in Pulls, NEW h \in Heads,
                 EnqueueReviewJob(d, p, h)
          PROVE  jobs'[j].locked_for # 0
      BY <1>0, <2>1, PendingFields DEF EnqueueReviewJob, Row
    <2>2. ASSUME NEW d \in Deliveries, EnqueueUnidentified(d) PROVE jobs'[j].locked_for # 0
      BY <1>0, <2>2, PendingFields DEF EnqueueUnidentified, TypeOK
    <2>3. ASSUME NEW d \in Deliveries, NEW p \in Pulls, CancelReviewJob(d, p)
          PROVE  jobs'[j].locked_for # 0
      BY <1>0, <2>3 DEF CancelReviewJob, Row
    <2> QED
      BY <1>1, <1>2, <2>1, <2>2, <2>3 DEF Webhook, Duplicate, vars
  <1>3. CASE WorkerStep
    <2>1. ASSUME NEW w \in Workers, NEW k \in Deliveries, WorkerClaim(w, k)
          PROVE  jobs'[j].locked_for # 0
      BY <1>0, <2>1 DEF WorkerClaim, TypeOK, Row
    <2>2. ASSUME NEW w \in Workers, NEW k \in Deliveries, RenewReviewJobLease(w, k)
          PROVE  jobs'[j].locked_for # 0
      BY <1>0, <2>2 DEF RenewReviewJobLease, TypeOK, Row
    <2>3. ASSUME NEW w \in Workers, NEW k \in Deliveries,
                 CompleteReviewJob(w, k) \/ FailReviewJob(w, k)
          PROVE  jobs'[j].locked_for # 0
      BY <1>0, <2>3 DEF CompleteReviewJob, FailReviewJob, TypeOK, Row
    <2> QED
      BY <1>3, <2>1, <2>2, <2>3 DEF WorkerStep
  <1>4. CASE RunnerAccount \/ UNCHANGED vars
    BY <1>1, <1>4 DEF RunnerAccount, PairRunner, RevokeRunner, queueVars, vars
  <1>5. CASE RunnerSend
    <2>1. ASSUME NEW q, AuthenticateRequest(q) PROVE jobs' = jobs
      BY <2>1 DEF AuthenticateRequest, queueVars
    <2> QED
      BY <1>1, <1>5, <2>1 DEF RunnerSend
  <1>6. CASE RunnerExecute
    <2>1. ASSUME NEW q \in inflight, NEW k \in Deliveries, NEW t \in Tokens, ClaimJob(q, k, t)
          PROVE  jobs'[j].locked_for # 0
      BY <1>0, <2>1 DEF ClaimJob, TypeOK, Row
    <2>2. ASSUME NEW q \in inflight, ClaimNoJob(q) \/ RequestFails(q)
          PROVE  jobs'[j].locked_for # 0
      BY <1>1, <2>2 DEF ClaimNoJob, RequestFails, queueVars
    <2>3. ASSUME NEW q \in inflight, HeartbeatJob(q) PROVE jobs'[j].locked_for # 0
      BY <1>0, <2>3 DEF HeartbeatJob, HeartbeatRequest, Lease, TypeOK, Row
    <2>4. ASSUME NEW q \in inflight, AcknowledgeJob(q) PROVE jobs'[j].locked_for # 0
      BY <1>0, <2>4 DEF AcknowledgeJob, AckRequest, Lease, TypeOK, Row
    <2> QED
      BY <1>6, <2>1, <2>2, <2>3, <2>4 DEF RunnerExecute
  <1>7. ASSUME NEW k \in Deliveries, RequeueReviewJob(k) PROVE jobs'[j].locked_for # 0
    BY <1>0, <1>7 DEF RequeueReviewJob, TypeOK, Row
  <1> QED
    BY <1>2, <1>3, <1>4, <1>5, <1>6, <1>7 DEF Timeless

\* A daemon that waits for nothing and reviews nothing relies on no lease.
LEMMA NoVerdict ==
    ASSUME NEW x \in Runners, step'[x] \notin {"review", "heartbeat"},
           reply'[x].kind = "none"
    PROVE  Verdict(x)'
  BY DEF Verdict

\* The lease at hand, and the one an answer to a claim names, are leases.
LEMMA LeaseTypes ==
    ASSUME DInv, NEW r \in Runners
    PROVE  /\ step[r] \in {"review", "heartbeat"} => LeaseAtHand(r) \in Lease
           /\ reply[r].kind = "job" => Named(r) \in Lease
  BY Same DEF AtHand, LeaseAtHand, Named, Lease, Work, Reply, DInv, DaemonTypes

\* A daemon that takes no step keeps what it was told, as long as the time it was
\* given lasts.
LEMMA VerdictKept ==
    ASSUME TypeOK, RowInv, DInv, [Next]_vars, NEW x \in Runners, Verdict(x),
           step'[x] = step[x], reply'[x] = reply[x], work'[x] = work[x],
           local'[x] = local[x],
           x \notin overtime' =>
              /\ x \notin overtime
              /\ work[x].job # None =>
                    (jobs[work[x].job].locked_for # 0 => jobs'[work[x].job].locked_for # 0)
              /\ reply[x].job # None =>
                    (jobs[reply[x].job].locked_for # 0 => jobs'[reply[x].job].locked_for # 0)
    PROVE  Verdict(x)'
  <1>0. LeaseAtHand(x)' = LeaseAtHand(x) /\ Named(x)' = Named(x)
    BY DEF LeaseAtHand, Named
  <1>1. ASSUME Lost(LeaseAtHand(x)) PROVE Lost(LeaseAtHand(x))'
    <2>1. PICK l : l = LeaseAtHand(x)
      OBVIOUS
    <2>2. Lost(l)'
      BY <1>1, <2>1, LostForever
    <2> QED
      BY <1>0, <2>1, <2>2 DEF Lost, Holds, LeaseLive
  <1>2. ASSUME x \notin overtime', step[x] = "review" \/ reply[x].kind = "active"
        PROVE  StillMine(LeaseAtHand(x))'
    <2>1. PICK l : l = LeaseAtHand(x)
      OBVIOUS
    <2>2. step[x] \in {"review", "heartbeat"}
      BY <1>2 DEF Verdict
    <2>3. l \in Lease /\ l.job = work[x].job /\ work[x].job # None /\ StillMine(l)
      BY <1>2, <2>1, <2>2, LeaseTypes, Same DEF Verdict, LeaseAtHand, AtHand
    <2>4. StillMine(l)'
      BY <1>2, <2>3, MineUntilTime
    <2> QED
      BY <1>0, <2>1, <2>4 DEF StillMine, Holds
  <1>3. ASSUME x \notin overtime', reply[x].kind = "job" PROVE StillMine(Named(x))'
    <2>1. PICK l : l = Named(x)
      OBVIOUS
    <2>2. l \in Lease /\ l.job = reply[x].job /\ reply[x].job # None /\ StillMine(l)
      BY <1>3, <2>1, LeaseTypes, Same DEF Verdict, Named, AtHand
    <2>3. StillMine(l)'
      BY <1>3, <2>2, MineUntilTime
    <2> QED
      BY <1>0, <2>1, <2>3 DEF StillMine, Holds
  <1> QED
    BY <1>1, <1>2, <1>3 DEF Verdict

\* The same when the step is not the clock's.
LEMMA VerdictTimeless ==
    ASSUME TypeOK, RowInv, DInv, Timeless, NEW x \in Runners, Verdict(x),
           step'[x] = step[x], reply'[x] = reply[x], work'[x] = work[x],
           local'[x] = local[x], x \notin overtime' => x \notin overtime
    PROVE  Verdict(x)'
  <1>1. [Next]_vars
    BY DEF Timeless, Next
  <1>2. work[x].job \in Deliveries \cup {None} /\ reply[x].job \in Deliveries \cup {None}
    BY DEF DInv, DaemonTypes, Work, Reply
  <1> QED
    BY <1>1, <1>2, VerdictKept, OnlyTimeRunsOut

\* A daemon begins a review under a lease that is still its own.
LEMMA VerdictReview ==
    ASSUME NEW r \in Runners, step'[r] = "review", reply'[r] = Silence,
           NEW l, LeaseAtHand(r)' = l, r \notin overtime' => StillMine(l), UNCHANGED vars
    PROVE  Verdict(r)'
  <1>1. r \notin overtime' => StillMine(l)'
    BY DEF StillMine, Holds, vars
  <1>2. r \notin overtime' => StillMine(LeaseAtHand(r))'
    BY <1>1 DEF StillMine, Holds
  <1> QED
    BY <1>2, BlankTypes DEF Verdict

\* A handler of daemon r that begins no review.
LEMMA VerdictEnds ==
    ASSUME DInv, NEW r \in Runners,
           \/ NextRound(r) \/ Raise(r) \/ Halt(r)
           \/ \E s \in {"land_claim", "land_ack"} : Go(r, s)
    PROVE  Verdict(r)'
  <1>1. step'[r] \notin {"review", "heartbeat"} /\ reply'[r] = Silence
    BY DEF NextRound, Go, Raise, Halt, DInv, DaemonTypes
  <1> QED
    BY <1>1, NoVerdict, BlankTypes

\* A handler of daemon r as the other daemons see it.
LEMMA HandlerApart ==
    ASSUME DInv, NEW r \in Runners, NEW x \in Runners, x # r,
           \/ RecoverAnswered(r) \/ CompleteAnswered(r) \/ ReplayAnswered(r)
           \/ LandClaimAnswered(r) \/ LandAckAnswered(r) \/ PollAnswered(r)
           \/ ReviewRaises(r) \/ Crash(r) \/ PollEnds(r)
    PROVE  /\ step'[x] = step[x] /\ reply'[x] = reply[x]
           /\ x \notin overtime' => x \notin overtime
           /\ work'[x] = work[x] /\ local'[x] = local[x]
  <1>0. \A s, j : SetLocal(r, j, s) => local'[x] = local[x]
    BY DEF SetLocal, DInv, DaemonTypes
  <1>1. \A j : MarkCompleted(r, j) => local'[x] = local[x]
    BY <1>0 DEF MarkCompleted
  <1>2. \A j, t : RecordClaimed(r, j, t) => local'[x] = local[x]
    BY DEF RecordClaimed, DInv, DaemonTypes
  <1>3. ASSUME (\E s : Go(r, s)) \/ Raise(r) \/ Halt(r)
        PROVE  /\ step'[x] = step[x] /\ reply'[x] = reply[x]
               /\ x \notin overtime' => x \notin overtime
    BY <1>3 DEF Go, Raise, Halt, DInv, DaemonTypes
  <1>4. ASSUME NextRound(r) \/ Raise(r) \/ Halt(r)
        PROVE  /\ step'[x] = step[x] /\ reply'[x] = reply[x]
               /\ x \notin overtime' => x \notin overtime
               /\ work'[x] = work[x]
    <2>1. work'[x] = work[x]
      BY <1>4 DEF NextRound, Raise, Halt, DInv, DaemonTypes
    <2> QED
      BY <1>3, <1>4, <2>1 DEF NextRound
  <1>5. CASE RecoverAnswered(r)
    BY <1>0, <1>3, <1>4, <1>5 DEF RecoverAnswered, OnlyControl, storeVars
  <1>6. CASE CompleteAnswered(r)
    BY <1>1, <1>3, <1>4, <1>6 DEF CompleteAnswered, OnlyControl, storeVars
  <1>7. CASE ReplayAnswered(r)
    BY <1>1, <1>4, <1>7 DEF ReplayAnswered, OnlyControl, storeVars
  <1>8. CASE LandAckAnswered(r)
    BY <1>1, <1>4, <1>8 DEF LandAckAnswered, MarkPendingTerminal, OnlyControl, storeVars
  <1>9. CASE ReviewRaises(r)
    BY <1>4, <1>9 DEF ReviewRaises, OnlyControl, storeVars
  <1>10. CASE Crash(r) \/ PollEnds(r)
    BY <1>4, <1>10 DEF Crash, PollEnds, Halt, storeVars
  <1>11. CASE PollAnswered(r)
    <2>1. CASE (NextRound(r) \/ Raise(r)) /\ UNCHANGED local
      BY <1>4, <2>1
    <2>2. CASE /\ RecordClaimed(r, reply[r].job, reply[r].token)
               /\ work' = [work EXCEPT ![r] =
                      [job |-> reply[r].job, token |-> reply[r].token, result |-> None]]
               /\ Go(r, "review")
      <3>1. work'[x] = work[x]
        BY <2>2 DEF DInv, DaemonTypes
      <3> QED
        BY <1>2, <1>3, <2>2, <3>1
    <2> QED
      BY <1>11, <2>1, <2>2 DEF PollAnswered, OnlyControl, storeVars
  <1>12. CASE LandClaimAnswered(r)
    <2>1. CASE (NextRound(r) \/ Raise(r)) /\ UNCHANGED local
      BY <1>4, <2>1
    <2>2. CASE NextRound(r) /\ MarkCompleted(r, work[r].job)
      BY <1>1, <1>4, <2>2
    <2>3. CASE /\ work' = [work EXCEPT ![r].token = reply[r].token]
               /\ Go(r, "land_ack") /\ UNCHANGED local
      <3>1. work'[x] = work[x]
        BY <2>3 DEF DInv, DaemonTypes
      <3> QED
        BY <1>3, <2>3, <3>1
    <2>4. CASE /\ LET kept == [local EXCEPT ![r][work[r].job].status = "completed"] IN
                    local' = IF local[r][reply[r].job].status = "none"
                             THEN [kept EXCEPT ![r][reply[r].job] =
                                     [status |-> "claimed", token |-> reply[r].token]]
                             ELSE kept
               /\ NextRound(r)
      <3>1. local'[x] = local[x]
        BY <2>4 DEF DInv, DaemonTypes
      <3> QED
        BY <1>4, <2>4, <3>1
    <2> QED
      BY <1>12, <2>1, <2>2, <2>3, <2>4
      DEF LandClaimAnswered, MarkPendingTerminal, OnlyControl, storeVars
  <1> QED
    BY <1>5, <1>6, <1>7, <1>8, <1>9, <1>10, <1>11, <1>12

LEMMA HandlersVerdict ==
    ASSUME TypeOK, RowInv, DInv, VerdictInv, NEW r \in Runners, NEW x \in Runners,
           \/ RecoverAnswered(r) \/ CompleteAnswered(r) \/ ReplayAnswered(r)
           \/ LandClaimAnswered(r) \/ LandAckAnswered(r) \/ PollAnswered(r)
           \/ ReviewRaises(r) \/ Crash(r) \/ PollEnds(r)
    PROVE  Verdict(x)'
  <1>0. UNCHANGED vars
    BY LocalSteps DEF DaemonStep
  <1>1. CASE x # r
    BY <1>0, <1>1, HandlerApart, VerdictTimeless DEF Timeless, VerdictInv
  <1>2. CASE x = r
    <2>1. CASE NextRound(r) \/ Raise(r) \/ Halt(r) \/ \E s \in {"land_claim", "land_ack"} : Go(r, s)
      BY <1>2, <2>1, VerdictEnds
    <2>2. CASE /\ step[r] = "heartbeat" /\ Told(r, {"active"})
               /\ Go(r, "review") /\ UNCHANGED work
      <3>1. LeaseAtHand(r)' = LeaseAtHand(r)
        BY <2>2 DEF LeaseAtHand
      <3>2. r \notin overtime' => StillMine(LeaseAtHand(r))
        BY <2>2 DEF Go, Told, VerdictInv, Verdict
      <3>3. step'[r] = "review" /\ reply'[r] = Silence
        BY <2>2 DEF Go, DInv, DaemonTypes
      <3> QED
        BY <1>0, <1>2, <3>1, <3>2, <3>3, VerdictReview
    <2>3. CASE /\ Told(r, {"job"})
               /\ work' = [work EXCEPT ![r] =
                      [job |-> reply[r].job, token |-> reply[r].token, result |-> None]]
               /\ Go(r, "review")
      <3>1. LeaseAtHand(r)' = Named(r)
        BY <2>3 DEF LeaseAtHand, Named, DInv, DaemonTypes
      <3>2. r \notin overtime' => StillMine(Named(r))
        BY <2>3 DEF Go, Told, VerdictInv, Verdict
      <3>3. step'[r] = "review" /\ reply'[r] = Silence
        BY <2>3 DEF Go, DInv, DaemonTypes
      <3> QED
        BY <1>0, <1>2, <3>1, <3>2, <3>3, VerdictReview
    <2>4. CASE RecoverAnswered(r)
      BY <2>1, <2>2, <2>4 DEF RecoverAnswered
    <2>5. CASE PollAnswered(r)
      BY <2>1, <2>3, <2>5 DEF PollAnswered
    <2>6. CASE CompleteAnswered(r) \/ LandClaimAnswered(r)
      BY <2>1, <2>6 DEF CompleteAnswered, LandClaimAnswered
    <2>7. CASE ReplayAnswered(r) \/ LandAckAnswered(r) \/ ReviewRaises(r) \/ Crash(r) \/ PollEnds(r)
      BY <2>1, <2>7 DEF ReplayAnswered, LandAckAnswered, ReviewRaises, Crash, PollEnds
    <2> QED
      BY <2>4, <2>5, <2>6, <2>7
  <1> QED
    BY <1>1, <1>2

\* The heads of the loops, and the end of a review.
LEMMA HeadsVerdict ==
    ASSUME TypeOK, RowInv, DInv, VerdictInv, NEW r \in Runners, NEW x \in Runners,
           \/ RecoverNext(r) \/ RecoverDone(r) \/ (\E s \in Outcomes : ReviewReturns(r, s))
           \/ ReplayNext(r) \/ ReplayDone(r) \/ StartDaemon(r) \/ PollOnce(r)
    PROVE  Verdict(x)'
  <1>0. UNCHANGED vars /\ UNCHANGED <<local, reply>>
    BY LocalSteps
    DEF DaemonStep, RecoverNext, RecoverDone, ReviewReturns, ReplayNext, ReplayDone,
        StartDaemon, PollOnce, storeVars
  <1>1. reply[r].kind = "none"
    <2>1. step[r] \in {"next", "review"}
      BY Same
      DEF RecoverNext, RecoverDone, ReviewReturns, ReplayNext, ReplayDone, StartDaemon,
          PollOnce, AtHand
    <2> QED
      BY <2>1, Same DEF AtHand, Calls
  <1>2. CASE x # r
    <2>1. step'[x] = step[x]
      BY <1>2
      DEF RecoverNext, RecoverDone, ReviewReturns, ReplayNext, ReplayDone, StartDaemon,
          PollOnce, DInv, DaemonTypes
    <2>2. work'[x] = work[x]
      BY <1>2
      DEF RecoverNext, RecoverDone, ReviewReturns, ReplayNext, ReplayDone, StartDaemon,
          PollOnce, DInv, DaemonTypes
    <2>3. x \notin overtime' => x \notin overtime
      BY <1>2
      DEF RecoverNext, RecoverDone, ReviewReturns, ReplayNext, ReplayDone, StartDaemon,
          PollOnce, dhistory
    <2> QED
      BY <1>0, <2>1, <2>2, <2>3, VerdictTimeless DEF Timeless, VerdictInv
  <1>3. CASE x = r /\ RecoverNext(r)
    <2>1. PICK j \in todo[r] :
            work' = [work EXCEPT ![r] = [NoWork EXCEPT !.job = j, !.token = local[r][j].token]]
      BY <1>3 DEF RecoverNext
    <2>2. /\ [NoWork EXCEPT !.job = j, !.token = local[r][j].token].job = j
          /\ [NoWork EXCEPT !.job = j, !.token = local[r][j].token].token = local[r][j].token
      BY DEF NoWork
    <2>3. work'[r].job = j /\ work'[r].token = local[r][j].token
      BY <2>1, <2>2 DEF DInv, DaemonTypes
    <2>4. step'[r] = "heartbeat"
      BY <1>3 DEF RecoverNext, DInv, DaemonTypes
    <2> QED
      BY <1>0, <1>1, <1>3, <2>3, <2>4 DEF Verdict
  <1>4. CASE x = r /\ ~RecoverNext(r)
    <2>1. step'[r] \notin {"review", "heartbeat"}
      <3>1. CASE RecoverDone(r) \/ ReplayDone(r) \/ PollOnce(r)
        BY <3>1 DEF RecoverDone, ReplayDone, PollOnce, DInv, DaemonTypes
      <3>2. CASE \E s \in Outcomes : ReviewReturns(r, s)
        BY <3>2 DEF ReviewReturns, DInv, DaemonTypes
      <3>3. CASE ReplayNext(r)
        BY <3>3 DEF ReplayNext, DInv, DaemonTypes
      <3>4. CASE StartDaemon(r)
        BY <3>4, Same DEF StartDaemon, AtHand
      <3> QED
        BY <1>4, <3>1, <3>2, <3>3, <3>4
    <2> QED
      BY <1>0, <1>1, <1>4, <2>1, NoVerdict
  <1> QED
    BY <1>2, <1>3, <1>4

\* A call that goes out, is refused or fails.
LEMMA CallsVerdict ==
    ASSUME TypeOK, RowInv, DInv, VerdictInv, NEW r \in Runners, NEW x \in Runners,
           SendCall(r) \/ CallRefused(r) \/ CallFails(r) \/ ReviewHeartbeat(r)
    PROVE  Verdict(x)'
  <1>1. CASE SendCall(r) \/ ReviewHeartbeat(r)
    <2>1. Timeless
      BY <1>1, SendRefines DEF Timeless, ReviewHeartbeat, AuthenticateRequest, RunnerSend
    <2>2. UNCHANGED <<local, step, reply, work, overtime>>
      BY <1>1 DEF SendCall, ReviewHeartbeat, storeVars, control, dhistory
    <2> QED
      BY <2>1, <2>2, VerdictTimeless DEF VerdictInv
  <1>2. CASE CallRefused(r) \/ CallFails(r)
    <2>1. UNCHANGED vars /\ UNCHANGED <<local, step, work, overtime>> /\ step[r] \in Calls
      BY <1>2 DEF CallRefused, CallFails, Calling, storeVars, dhistory
    <2>2. PICK k \in {"revoked_runner", "unknown_credential", "unreachable"} :
            reply' = [reply EXCEPT ![r] = Answer(k)]
      BY <1>2 DEF CallRefused, CallFails
    <2>3. CASE x # r
      <3>1. reply'[x] = reply[x]
        BY <2>2, <2>3 DEF DInv, DaemonTypes
      <3> QED
        BY <2>1, <3>1, VerdictTimeless DEF Timeless, VerdictInv
    <2>4. CASE x = r
      <3>1. reply'[r].kind = k /\ step[r] # "review"
        BY <2>1, <2>2, AnswerType DEF DInv, DaemonTypes, Calls
      <3> QED
        BY <2>1, <2>4, <3>1 DEF Verdict, VerdictInv
    <2> QED
      BY <2>3, <2>4
  <1> QED
    BY <1>1, <1>2

LEMMA TickVerdict ==
    ASSUME TypeOK, RowInv, DInv, VerdictInv, DaemonTick, NEW x \in Runners
    PROVE  Verdict(x)'
  <1>1. [Next]_vars /\ UNCHANGED <<local, step, reply, work>>
    BY DEF DaemonTick, Next, storeVars, control
  <1>2. x \notin overtime' =>
           /\ x \notin overtime
           /\ work[x].job # None => jobs'[work[x].job].locked_for # 0
           /\ reply[x].job # None => jobs'[reply[x].job].locked_for # 0
    BY DEF DaemonTick
  <1> QED
    BY <1>1, <1>2, VerdictKept DEF VerdictInv

\* What the API did for the answer it gives: the lease of a claim, or the heartbeat
\* that renewed or refused the lease at hand.
LEMMA ClaimGives ==
    ASSUME TypeOK, NEW q \in inflight, NEW j \in Deliveries, NEW t \in Tokens,
           ClaimJob(q, j, t), NEW l, l = [job |-> j, runner |-> Requester(q), token |-> t]
    PROVE  StillMine(l)'
  <1>1. jobs[j] \in Row /\ Requester(q) = q.runner
    BY DEF TypeOK, ClaimJob, ClaimRequest, Requester
  <1>2. /\ jobs'[j].status = "running" /\ jobs'[j].locked_by = q.runner
        /\ jobs'[j].lease_token = t /\ jobs'[j].locked_for = LeaseTicks
    BY <1>1 DEF ClaimJob, TypeOK, Row
  <1> QED
    BY <1>1, <1>2, QueueAssumption DEF StillMine, Holds

LEMMA HeartbeatRenews ==
    ASSUME TypeOK, NEW q \in inflight, HeartbeatJob(q), HeartbeatReply(q.lease) = "active"
    PROVE  StillMine(q.lease)'
  <1>1. /\ q.lease.job \in Deliveries /\ jobs[q.lease.job] \in Row
        /\ Holds(q.lease) /\ jobs[q.lease.job].status = "running"
    BY DEF TypeOK, HeartbeatJob, HeartbeatRequest, Lease, HeartbeatReply, LeaseLive
  <1>2. /\ jobs'[q.lease.job].status = "running"
        /\ jobs'[q.lease.job].locked_by = jobs[q.lease.job].locked_by
        /\ jobs'[q.lease.job].lease_token = jobs[q.lease.job].lease_token
        /\ jobs'[q.lease.job].locked_for = LeaseTicks
    BY <1>1 DEF HeartbeatJob, TypeOK, Row
  <1> QED
    BY <1>1, <1>2, QueueAssumption DEF StillMine, Holds

LEMMA HeartbeatRefuses ==
    ASSUME InflightLeases, NEW q \in inflight, HeartbeatJob(q),
           HeartbeatReply(q.lease) # "active"
    PROVE  Lost(q.lease)'
  <1>1. q.lease \in leases /\ leases' = leases /\ jobs' = jobs
    BY DEF InflightLeases, HeartbeatJob, HeartbeatRequest, history
  <1>2. ~(Holds(q.lease) /\ LeaseLive(q.lease.job))
    BY DEF HeartbeatReply
  <1> QED
    BY <1>1, <1>2 DEF Lost, Holds, LeaseLive

\* A heartbeat is awaited only by recover(), for the lease it presents.
LEMMA AwaitedHeartbeat ==
    ASSUME NEW r, NEW q, Awaited(q, r), q.op = "heartbeat"
    PROVE  step[r] = "heartbeat" /\ q.lease = LeaseAtHand(r)
  <1>1. step[r] \in Calls /\ CallOf(r) = q
    BY DEF Awaited, Calling
  <1>2. CASE step[r] \in {"claim", "land_claim"}
    BY <1>1, <1>2 DEF CallOf
  <1>3. CASE step[r] \in {"ack", "land_ack"}
    BY <1>1, <1>3 DEF CallOf
  <1>4. CASE step[r] = "heartbeat"
    BY <1>1, <1>4 DEF CallOf
  <1> QED
    BY <1>1, <1>2, <1>3, <1>4 DEF Calls

LEMMA ExecuteVerdict ==
    ASSUME TypeOK, RowInv, InflightLeases, DInv, VerdictInv, NEW q \in inflight,
           ExecuteCall(q), NEW x \in Runners
    PROVE  Verdict(x)'
  <1> DEFINE r == Requester(q)
  <1>0. Timeless
    BY DEF ExecuteCall, Timeless, RunnerExecute
  <1>1. r \in Runners
    BY RequesterType
  <1> HIDE DEF r
  <1>2. ASSUME NEW a, Deliver(q, r, a), ~(x = r /\ Awaited(q, r)) PROVE Verdict(x)'
    <2>1. UNCHANGED <<local, step, work>>
      BY <1>2 DEF Deliver, storeVars
    <2>2. reply'[x] = reply[x] /\ (x \notin overtime' => x \notin overtime)
      BY <1>1, <1>2 DEF Deliver, DInv, DaemonTypes
    <2> QED
      BY <1>0, <2>1, <2>2, VerdictTimeless DEF VerdictInv
  <1>3. ASSUME NEW a, Deliver(q, r, a), Awaited(q, r)
        PROVE  /\ reply'[r] = a /\ step'[r] = step[r] /\ step[r] \in Calls
               /\ work'[r] = work[r] /\ local'[r] = local[r]
    BY <1>1, <1>3 DEF Deliver, Awaited, Calling, storeVars, DInv, DaemonTypes
  <1>4. ASSUME NEW k \in {"no_job", "ok", "denied", "error"}, Deliver(q, r, Answer(k)), x = r,
               Awaited(q, r)
        PROVE  Verdict(x)'
    <2>1. Answer(k).kind = k /\ step[r] # "review"
      BY <1>3, <1>4, AnswerType DEF Calls
    <2> QED
      BY <1>3, <1>4, <2>1 DEF Verdict, VerdictInv
  <1>5. ASSUME NEW j \in Deliveries, NEW t \in Tokens, ClaimJob(q, j, t), x = r, Awaited(q, r),
               Deliver(q, r, [kind |-> "job", job |-> j, token |-> t])
        PROVE  Verdict(x)'
    <2>1. PICK l : l = [job |-> j, runner |-> r, token |-> t]
      OBVIOUS
    <2>2. StillMine(l)'
      BY <1>5, <2>1, ClaimGives DEF r
    <2>3. reply'[r].kind = "job" /\ Named(r)' = l
      BY <1>3, <1>5, <2>1 DEF Named
    <2>4. StillMine(Named(r))'
      BY <2>2, <2>3 DEF StillMine, Holds
    <2>5. step[r] # "review"
      BY <1>3, <1>5 DEF Calls
    <2> QED
      BY <1>3, <1>5, <2>3, <2>4, <2>5 DEF Verdict, VerdictInv
  <1>6. ASSUME HeartbeatJob(q), Deliver(q, r, Answer(HeartbeatReply(q.lease))), x = r,
               Awaited(q, r)
        PROVE  Verdict(x)'
    <2>0. PICK k : k = HeartbeatReply(q.lease)
      OBVIOUS
    <2>1. k \in {"active", "cancelled", "invalid_or_expired"}
      BY <2>0 DEF HeartbeatReply
    <2>2. reply'[r].kind = k
      BY <1>3, <1>6, <2>0, <2>1, AnswerType
    <2>3. step[r] = "heartbeat" /\ q.lease = LeaseAtHand(r)
      BY <1>6, AwaitedHeartbeat DEF HeartbeatJob, HeartbeatRequest
    <2>4. LeaseAtHand(r)' = q.lease
      BY <1>3, <1>6, <2>3 DEF LeaseAtHand
    <2>5. k = "active" => StillMine(LeaseAtHand(r))'
      <3>1. k = "active" => StillMine(q.lease)'
        BY <1>6, <2>0, HeartbeatRenews
      <3> QED
        BY <2>4, <3>1 DEF StillMine, Holds
    <2>6. k # "active" => Lost(LeaseAtHand(r))'
      <3>1. k # "active" => Lost(q.lease)'
        BY <1>6, <2>0, HeartbeatRefuses
      <3> QED
        BY <2>4, <3>1 DEF Lost, Holds, LeaseLive
    <2> QED
      BY <1>3, <1>6, <2>1, <2>2, <2>3, <2>5, <2>6 DEF Verdict, VerdictInv
  <1> QED
    BY <1>2, <1>4, <1>5, <1>6 DEF ExecuteCall, r

LEMMA NextVerdict ==
    ASSUME TypeOK, RowInv, InflightLeases, DInv, VerdictInv, [DNext]_dvars
    PROVE  VerdictInv'
  <1> SUFFICES ASSUME NEW x \in Runners PROVE Verdict(x)'
    BY DEF VerdictInv
  <1>1. ASSUME Timeless, UNCHANGED <<storeVars, control, dhistory>> PROVE Verdict(x)'
    BY <1>1, VerdictTimeless DEF storeVars, control, dhistory, VerdictInv
  <1>2. ASSUME NEW r \in Runners, DaemonStep(r) \/ ReviewRaises(r) \/ Crash(r) \/ PollEnds(r)
                                  \/ StartDaemon(r) \/ PollOnce(r)
        PROVE  Verdict(x)'
    BY <1>2, HandlersVerdict, HeadsVerdict DEF DaemonStep
  <1>3. CASE UNCHANGED dvars \/ \E r \in Runners : RotateCredential(r)
    BY <1>1, <1>3 DEF dvars, RotateCredential, Timeless
  <1>4. CASE /\ (Webhook \/ WorkerStep \/ RunnerAccount) \/ \E j \in Deliveries : RequeueReviewJob(j)
             /\ UNCHANGED <<storeVars, control, dhistory>>
    BY <1>1, <1>4 DEF Timeless
  <1> QED
    BY <1>2, <1>3, <1>4, CallsVerdict, TickVerdict, ExecuteVerdict DEF DNext

LEMMA DaemonsQueueInv == DSpec => [](TypeOK /\ RowInv /\ InflightLeases)
  <1>1. Init => InflightLeases
    BY DEF Init, InflightLeases
  <1>2. IInv => TypeOK /\ RowInv
    BY DEF IInv
  <1>3. TypeOK /\ InflightLeases /\ [Next]_vars => InflightLeases'
    BY NextInflight
  <1>4. Spec => []InflightLeases
    BY <1>1, <1>3, TypeCorrect, PTL DEF Spec
  <1> QED
    BY <1>2, <1>4, Inductive, DaemonsImplementQueue, PTL

LEMMA VerdictsHold == DSpec => []VerdictInv
  <1>1. DInit => VerdictInv
    BY BlankTypes DEF DInit, VerdictInv, Verdict
  <1>2. TypeOK /\ RowInv /\ InflightLeases /\ DInv /\ VerdictInv /\ [DNext]_dvars => VerdictInv'
    BY NextVerdict
  <1> QED
    BY <1>1, <1>2, DInductive, DaemonsQueueInv, PTL DEF DSpec

\* While a job is reviewed and its lease has not run out, the row is held by exactly
\* this lease, unless a webhook has retired the job or an acknowledgement under the
\* lease has landed (daemon.py:142-164, runner_jobs.py:135-274): no other runner and
\* no worker reviews it, however many there are and however calls are lost or late.
THEOREM ReviewsHoldTheirLease == DSpec => []ReviewHoldsLease
  <1>1. VerdictInv => ReviewHoldsLease
    BY DEF VerdictInv, Verdict, StillMine, LeaseAtHand, ReviewHoldsLease
  <1> QED
    BY <1>1, VerdictsHold, PTL

-----------------------------------------------------------------------------
(* Jobs given up.                                                          *)

\* A row of the store becomes abandoned only by recover(), on a definite answer.
LEMMA OnlyRecoveryAbandons ==
    ASSUME DInv, [DNext]_dvars, NEW x \in Runners, NEW j \in Deliveries,
           local[x][j].status = "claimed", local'[x][j].status = "abandoned"
    PROVE  /\ step[x] = "heartbeat" /\ j = work[x].job
           /\ Told(x, {"invalid_or_expired", "cancelled", "revoked_runner", "unknown_credential"})
  <1>0. local'[x][j] # local[x][j] /\ local' # local
    OBVIOUS
  <1>1. \A r \in Runners : \A k : ~MarkCompleted(r, k)
    <2> SUFFICES ASSUME NEW r \in Runners, NEW k, MarkCompleted(r, k) PROVE FALSE
      OBVIOUS
    <2>1. local' = [local EXCEPT ![r][k].status = "completed"]
      BY <1>0 DEF MarkCompleted, SetLocal
    <2>2. local'[x][j].status \in {"claimed", "completed"}
      BY <2>1 DEF DInv, DaemonTypes, LocalJob
    <2> QED
      BY <2>2
  <1>2. \A r \in Runners : \A k, t : ~RecordClaimed(r, k, t)
    <2> SUFFICES ASSUME NEW r \in Runners, NEW k, NEW t, RecordClaimed(r, k, t) PROVE FALSE
      OBVIOUS
    <2>1. local' = [local EXCEPT ![r][k] = [status |-> "claimed", token |-> t]]
      BY <1>0 DEF RecordClaimed
    <2> QED
      BY <2>1 DEF DInv, DaemonTypes
  <1>3. ASSUME NEW r \in Runners, LandClaimAnswered(r) PROVE FALSE
    <2>1. PICK n, v : /\ v.status # "abandoned"
                      /\ LET kept == [local EXCEPT ![r][work[r].job].status = "completed"] IN
                           local' = kept \/ local' = [kept EXCEPT ![r][n] = v]
      <3>1. LET kept == [local EXCEPT ![r][work[r].job].status = "completed"] IN
              \/ local' = kept
              \/ local' = [kept EXCEPT ![r][reply[r].job] =
                              [status |-> "claimed", token |-> reply[r].token]]
        BY <1>0, <1>1, <1>3
        DEF LandClaimAnswered, MarkPendingTerminal, OnlyControl, storeVars
      <3> QED
        BY <3>1
    <2> DEFINE kept == [local EXCEPT ![r][work[r].job].status = "completed"]
    <2>0. kept[x][j] = IF x = r /\ j = work[r].job
                       THEN [local[x][j] EXCEPT !.status = "completed"] ELSE local[x][j]
      BY DEF DInv, DaemonTypes
    <2>2. /\ DOMAIN kept = Runners /\ DOMAIN kept[x] = Deliveries
          /\ kept[x][j].status \in {"claimed", "completed"}
      BY <2>0 DEF DInv, DaemonTypes, LocalJob
    <2>3. local'[x][j].status = kept[x][j].status \/ local'[x][j] = v
      BY <2>1, <2>2
    <2> QED
      BY <2>1, <2>2, <2>3
  <1>4. ASSUME NEW r \in Runners, RecoverAnswered(r)
        PROVE  /\ step[x] = "heartbeat" /\ j = work[x].job
               /\ Told(x, {"invalid_or_expired", "cancelled", "revoked_runner", "unknown_credential"})
    <2>1. /\ step[r] = "heartbeat" /\ SetLocal(r, work[r].job, "abandoned")
          /\ Told(r, {"invalid_or_expired", "cancelled", "revoked_runner", "unknown_credential"})
      BY <1>0, <1>4 DEF RecoverAnswered, OnlyControl, storeVars
    <2>2. x = r /\ j = work[r].job
      BY <1>0, <2>1 DEF SetLocal, DInv, DaemonTypes
    <2> QED
      BY <2>1, <2>2
  <1>5. ASSUME NEW r \in Runners,
               \/ CompleteAnswered(r) \/ ReplayAnswered(r) \/ LandAckAnswered(r)
               \/ PollAnswered(r)
        PROVE  FALSE
    BY <1>0, <1>1, <1>2, <1>5
    DEF CompleteAnswered, ReplayAnswered, LandAckAnswered, PollAnswered,
        MarkPendingTerminal, OnlyControl, storeVars
  <1>6. ASSUME NEW r \in Runners,
               \/ RecoverNext(r) \/ RecoverDone(r) \/ (\E s \in Outcomes : ReviewReturns(r, s))
               \/ ReplayNext(r) \/ ReplayDone(r) \/ StartDaemon(r) \/ PollOnce(r)
               \/ ReviewRaises(r) \/ ReviewHeartbeat(r) \/ Crash(r) \/ PollEnds(r)
               \/ SendCall(r) \/ CallRefused(r) \/ CallFails(r)
        PROVE  FALSE
    BY <1>0, <1>6
    DEF RecoverNext, RecoverDone, ReviewReturns, ReplayNext, ReplayDone, StartDaemon,
        PollOnce, ReviewRaises, OnlyControl, ReviewHeartbeat, Crash, PollEnds, Halt,
        SendCall, CallRefused, CallFails, storeVars
  <1>7. ASSUME NEW q, ExecuteCall(q) PROVE FALSE
    <2>1. PICK a : Deliver(q, Requester(q), a)
      BY <1>7 DEF ExecuteCall
    <2> QED
      BY <1>0, <2>1 DEF Deliver, storeVars
  <1>8. ASSUME DaemonTick \/ UNCHANGED dvars \/ UNCHANGED <<storeVars, control, dhistory>>
        PROVE  FALSE
    BY <1>0, <1>8 DEF DaemonTick, dvars, storeVars
  <1> QED
    BY <1>3, <1>4, <1>5, <1>6, <1>7, <1>8 DEF DNext, DaemonStep, RotateCredential

\* A daemon that has been told its credential is unknown still holds the one that was
\* rotated away: it reads the secret store again only when it asks for the next claim.
RefusedInv == \A r \in Runners : reply[r].kind = "unknown_credential" => r \in stale

LEMMA NextRefused ==
    ASSUME TypeOK, DInv, RefusedInv, [DNext]_dvars
    PROVE  RefusedInv'
  <1> SUFFICES ASSUME NEW x \in Runners, reply'[x].kind = "unknown_credential"
               PROVE  x \in stale'
    BY DEF RefusedInv
  <1>0. DaemonTypes /\ AtHand(x)
    BY DEF DInv
  <1>1. ASSUME x \in stale => x \in stale', reply'[x] = reply[x] PROVE x \in stale'
    BY <1>1 DEF RefusedInv
  <1>2. ASSUME stale \subseteq stale', UNCHANGED reply PROVE x \in stale'
    BY <1>1, <1>2
  <1>3. CASE DaemonTick \/ UNCHANGED dvars \/ \E r \in Runners : RotateCredential(r)
    BY <1>2, <1>3 DEF DaemonTick, dvars, RotateCredential, control
  <1>4. CASE UNCHANGED <<storeVars, control, stale, dhistory>>
    BY <1>2, <1>4 DEF control
  <1>5. ASSUME NEW q \in inflight, ExecuteCall(q) PROVE x \in stale'
    <2> DEFINE r == Requester(q)
    <2>2. PICK a : Deliver(q, r, a) /\ a.kind # "unknown_credential"
      BY <1>5, ExecutionIsNo401
    <2>3. reply'[x] = reply[x] \/ reply'[x] = a
      BY <1>0, <2>2 DEF Deliver, DaemonTypes
    <2>4. stale' = stale
      BY <2>2 DEF Deliver
    <2> QED
      BY <1>1, <2>2, <2>3, <2>4
  <1> DEFINE ItsOwnStep(r) ==
               \/ DaemonStep(r) \/ ReviewRaises(r) \/ ReviewHeartbeat(r) \/ StartDaemon(r)
               \/ Crash(r) \/ PollOnce(r) \/ PollEnds(r)
               \/ SendCall(r) \/ CallRefused(r) \/ CallFails(r)
  <1>6. ASSUME NEW r \in Runners, r # x, ItsOwnStep(r) PROVE x \in stale'
    <2>1. x \in stale => x \in stale'
      BY <1>6, StaleSteps
    <2>2. \/ UNCHANGED reply
          \/ \E a : reply' = [reply EXCEPT ![r] = a]
      BY <1>6
      DEF DaemonStep, RecoverNext, RecoverAnswered, RecoverDone, ReviewReturns,
          CompleteAnswered, ReplayNext, ReplayAnswered, ReplayDone, LandClaimAnswered,
          LandAckAnswered, PollAnswered, NextRound, Go, Raise, ReviewRaises, ReviewHeartbeat,
          StartDaemon, Crash, PollOnce, PollEnds, Halt, SendCall, CallRefused, CallFails, control
    <2>3. reply'[x] = reply[x]
      BY <1>0, <1>6, <2>2 DEF DaemonTypes
    <2> QED
      BY <1>1, <2>1, <2>3
  <1>7. CASE \/ RecoverNext(x) \/ RecoverDone(x) \/ (\E s \in Outcomes : ReviewReturns(x, s))
             \/ ReplayDone(x) \/ ReviewHeartbeat(x) \/ SendCall(x)
    BY <1>2, <1>7
    DEF RecoverNext, RecoverDone, ReviewReturns, ReplayDone, ReviewHeartbeat, SendCall, control
  <1>8. CASE ReplayNext(x) \/ PollOnce(x) \/ StartDaemon(x)
    <2>1. step[x] = "next" /\ reply' = reply
      BY <1>0, <1>8 DEF ReplayNext, PollOnce, StartDaemon, AtHand
    <2> QED
      BY <1>0, <2>1 DEF AtHand, Calls
  <1>9. CASE \/ RecoverAnswered(x) \/ CompleteAnswered(x) \/ ReplayAnswered(x)
             \/ LandClaimAnswered(x) \/ LandAckAnswered(x) \/ PollAnswered(x)
             \/ ReviewRaises(x) \/ Crash(x) \/ PollEnds(x)
    <2>1. reply' = [reply EXCEPT ![x] = Silence]
      BY <1>9
      DEF RecoverAnswered, CompleteAnswered, ReplayAnswered, LandClaimAnswered,
          LandAckAnswered, PollAnswered, ReviewRaises, Crash, PollEnds, Halt, NextRound, Go,
          Raise
    <2> QED
      BY <1>0, <2>1, BlankTypes DEF DaemonTypes
  <1>10. CASE CallRefused(x) \/ CallFails(x)
    <2>1. \/ x \in stale /\ stale' = stale
          \/ \E k \in {"revoked_runner", "unreachable"} : reply' = [reply EXCEPT ![x] = Answer(k)]
      BY <1>10 DEF CallRefused, CallFails
    <2> QED
      BY <1>0, <2>1, AnswerType DEF DaemonTypes
  <1>11. ASSUME NEW r \in Runners, ItsOwnStep(r) PROVE x \in stale'
    BY <1>6, <1>7, <1>8, <1>9, <1>10, <1>11 DEF DaemonStep
  <1> QED
    BY <1>3, <1>4, <1>5, <1>11 DEF DNext

\* recover() gives a stored job up only when its lease will never be accepted again
\* or its credential is refused (daemon.py:12-22): the answer it acts on may be old, but
\* a lease refused once is refused for good, and a 401 is sent only to a runner that is
\* revoked or whose client holds a rotated credential until its next claim.
THEOREM GivesUpOnlyLost == DSpec => AbandonsOnlyLost
  <1> DEFINE Step ==
        \A r \in Runners, j \in Deliveries :
           local[r][j].status = "claimed" /\ local'[r][j].status = "abandoned" =>
              \/ r \in revoked \cup stale
              \/ HeartbeatReply([job |-> j, runner |-> r, token |-> local[r][j].token])
                    # "active"
  <1>1. DInv /\ GateInv /\ RefusedInv /\ VerdictInv /\ [DNext]_dvars => [Step]_dvars
    <2> SUFFICES ASSUME DInv, GateInv, RefusedInv, VerdictInv, [DNext]_dvars,
                        NEW r \in Runners, NEW j \in Deliveries,
                        local[r][j].status = "claimed", local'[r][j].status = "abandoned",
                        r \notin revoked \cup stale
                 PROVE  HeartbeatReply([job |-> j, runner |-> r, token |-> local[r][j].token])
                           # "active"
      OBVIOUS
    <2>1. /\ step[r] = "heartbeat" /\ j = work[r].job
          /\ reply[r].kind \in {"invalid_or_expired", "cancelled"}
      BY OnlyRecoveryAbandons DEF Told, GateInv, Knows, RefusedInv
    <2>2. Lost(LeaseAtHand(r)) /\ work[r].token = local[r][j].token
      BY <2>1 DEF VerdictInv, Verdict
    <2>3. LeaseAtHand(r) = [job |-> j, runner |-> r, token |-> local[r][j].token]
      BY <2>1, <2>2 DEF LeaseAtHand
    <2> QED
      BY <2>2, <2>3 DEF Lost, HeartbeatReply
  <1>2. DInit => GateInv
    BY BlankTypes DEF DInit, GateInv, Knows
  <1>3. TypeOK /\ DInv /\ GateInv /\ [DNext]_dvars => GateInv'
    BY NextGateInv
  <1>4. DSpec => []GateInv
    BY <1>2, <1>3, DInductive, PTL DEF DSpec
  <1>5. DInit => RefusedInv
    BY BlankTypes DEF DInit, RefusedInv
  <1>6. TypeOK /\ DInv /\ RefusedInv /\ [DNext]_dvars => RefusedInv'
    BY NextRefused
  <1>7. DSpec => []RefusedInv
    BY <1>5, <1>6, DInductive, PTL DEF DSpec
  <1>8. DSpec => [][Step]_dvars
    BY <1>1, <1>4, <1>7, DInductive, VerdictsHold, PTL DEF DSpec
  <1> QED
    BY <1>8 DEF AbandonsOnlyLost

=============================================================================
