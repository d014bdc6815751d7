------------------------------ MODULE RunnerDaemon ------------------------------
(***************************************************************************)
(* The runner daemon on a developer's machine (runner/daemon.py) with its  *)
(* HTTP client (runner/client.py) and its SQLite store (local_store/       *)
(* sqlite.py), talking to the hosted queue of ReviewQueue.                 *)
(*                                                                         *)
(* start() recovers the jobs left claimed by an earlier run, replays the   *)
(* acknowledgements it could not deliver, and then polls.  Every call may  *)
(* be executed and answered, executed and its answer lost, executed after  *)
(* the daemon gave up on it, or never executed.  The process may die at    *)
(* any point; local and unacked survive it.                                *)
(*                                                                         *)
(* The credential may be rotated on the API while a daemon holds the old   *)
(* one; it reads the secret store again only before a claim, and finds the *)
(* new credential there or not.                                            *)
(*                                                                         *)
(* A review executor is installed.  The order in which the store lists its *)
(* rows is left open.                                                      *)
(***************************************************************************)
EXTENDS ReviewQueue

CONSTANT Outcomes   \* bound: the terminal states reviews end with

ASSUME DaemonAssumption ==
    /\ None \notin Deliveries \cup Acknowledged
    /\ Outcomes \subseteq Acknowledged

LocalJob == [status: {"none", "claimed", "completed", "abandoned"},
             token: Tokens \cup {None}]

\* A row of local_pending_acknowledgements; attempts is never read.
Entry == [job: Deliveries, token: Tokens, result: Acknowledged,
          reason: {"invalid_or_expired", "network_unreachable"}]

\* The job the daemon is busy with.
Work == [job: Deliveries \cup {None}, token: Tokens \cup {None},
         result: Acknowledged \cup {None}]

Reply == [kind: {"none", "job", "no_job", "active", "cancelled", "invalid_or_expired",
                 "ok", "denied", "revoked_runner", "unknown_credential", "unreachable",
                 "error"},
          job: Deliveries \cup {None}, token: Tokens \cup {None}]

Calls == {"claim", "heartbeat", "ack", "land_claim", "land_ack"}

VARIABLES
    local,      \* local_jobs of each runner
    unacked,    \* local_pending_acknowledgements of each runner
    phase,      \* "down", "recover", "replay", "poll", or "raised": an exception
                \* has ended start() or the poll thread
    step,       \* "next" at the head of a loop, "review", or the call under way
    todo,       \* what is left of the list the loop of recover or replay runs over
    work,
    sent,       \* runners whose call has reached the API
    reply,
    gate,       \* RevocationGate: runners that have been told they are revoked
    stale,      \* runners whose client holds a credential that was rotated away
    overtime,   \* history: the lease at hand ran out since it was last confirmed
    produced    \* history: the results of reviews, by runner and job

storeVars == <<local, unacked>>
control == <<phase, step, todo, work, sent, reply, gate>>
dhistory == <<overtime, produced>>
dvars == <<vars, storeVars, control, stale, dhistory>>

Result == [runner: Runners, job: Deliveries, result: Acknowledged]

\* A call can have been sent or answered only while the daemon is at a call, a
\* lease is at hand while a job is reviewed, and every stored job has its lease
\* token: recovery has nothing else to present.
DaemonTypeOK ==
    /\ local \in [Runners -> [Deliveries -> LocalJob]]
    /\ unacked \in [Runners -> SUBSET Entry]
    /\ phase \in [Runners -> {"down", "recover", "replay", "poll", "raised"}]
    /\ step \in [Runners -> {"next", "review"} \cup Calls]
    /\ todo \in [Runners -> SUBSET (Deliveries \cup Entry)]
    /\ work \in [Runners -> Work]
    /\ reply \in [Runners -> Reply]
    /\ sent \cup gate \cup overtime \cup stale \subseteq Runners
    /\ produced \subseteq Result
    /\ \A r \in Runners :
          /\ r \in sent \/ reply[r].kind # "none" => step[r] \in Calls
          /\ phase[r] \in {"down", "raised"} => step[r] = "next"
          /\ step[r] = "review" => work[r].job # None /\ work[r].token # None
          /\ \A j \in Deliveries : local[r][j].status # "none" => local[r][j].token # None

NoWork == [job |-> None, token |-> None, result |-> None]
Answer(k) == [kind |-> k, job |-> None, token |-> None]
Silence == Answer("none")

DInit ==
    /\ Init
    /\ local = [r \in Runners |-> [j \in Deliveries |-> [status |-> "none", token |-> None]]]
    /\ unacked = [r \in Runners |-> {}]
    /\ phase = [r \in Runners |-> "down"]
    /\ step = [r \in Runners |-> "next"]
    /\ todo = [r \in Runners |-> {}]
    /\ work = [r \in Runners |-> NoWork]
    /\ sent = {}
    /\ reply = [r \in Runners |-> Silence]
    /\ gate = {}
    /\ stale = {}
    /\ overtime = {}
    /\ produced = {}

-----------------------------------------------------------------------------
(* The local store.                                                        *)

SetLocal(r, j, s) == local' = [local EXCEPT ![r][j].status = s]

\* record_claimed is "insert or ignore": a row that exists keeps its token and
\* its status.
RecordClaimed(r, j, t) ==
    local' = IF local[r][j].status = "none"
             THEN [local EXCEPT ![r][j] = [status |-> "claimed", token |-> t]]
             ELSE local

\* update ... where job_id = ?: without a row nothing happens.
MarkCompleted(r, j) ==
    IF local[r][j].status = "none" THEN UNCHANGED local ELSE SetLocal(r, j, "completed")

MarkPendingTerminal(r, j) ==
    /\ MarkCompleted(r, j)
    /\ unacked' = [unacked EXCEPT ![r] = {e \in @ : e.job # j}]

EntryOf(r, why) ==
    [job |-> work[r].job, token |-> work[r].token, result |-> work[r].result, reason |-> why]

RecordPending(r, why) == unacked' = [unacked EXCEPT ![r] = @ \cup {EntryOf(r, why)}]

-----------------------------------------------------------------------------
(* Calls.                                                                  *)

LeaseAtHand(r) == [job |-> work[r].job, runner |-> r, token |-> work[r].token]

CallOf(r) ==
    CASE step[r] \in {"claim", "land_claim"} -> [op |-> "claim", runner |-> r]
      [] step[r] = "heartbeat" -> [op |-> "heartbeat", lease |-> LeaseAtHand(r)]
      [] step[r] \in {"ack", "land_ack"} ->
            [op |-> "ack", lease |-> LeaseAtHand(r), result |-> work[r].result]

Calling(r) == step[r] \in Calls /\ reply[r].kind = "none"

\* The request reaches the API and is authenticated.  The same request sent
\* before and given up may still be there: two of them are told apart by nobody,
\* so the second waits for the first.
SendCall(r) ==
    /\ Calling(r)
    /\ r \notin sent
    /\ CallOf(r) \notin inflight
    /\ r \notin stale
    /\ AuthenticateRequest(CallOf(r))
    /\ sent' = sent \cup {r}
    /\ UNCHANGED <<storeVars, phase, step, todo, work, reply, gate, stale, dhistory>>

\* 401 from authenticate_runner: no row has the hash of the credential, or the
\* row that has it is revoked (runner_auth.py:27-30).
CallRefused(r) ==
    /\ Calling(r)
    /\ r \notin sent
    /\ \/ /\ r \in stale
          /\ reply' = [reply EXCEPT ![r] = Answer("unknown_credential")]
       \/ /\ r \in revoked \ stale
          /\ reply' = [reply EXCEPT ![r] = Answer("revoked_runner")]
    /\ UNCHANGED <<vars, storeVars, phase, step, todo, work, sent, gate, stale, dhistory>>

\* httpx.TransportError: the API was not reached, or its answer does not come.
CallFails(r) ==
    /\ step[r] \in Calls
    /\ reply[r].kind # "unreachable"
    /\ reply' = [reply EXCEPT ![r] = Answer("unreachable")]
    /\ sent' = sent \ {r}
    /\ UNCHANGED <<vars, storeVars, phase, step, todo, work, gate, stale, dhistory>>

\* The daemon waits for the answer to q.
Awaited(q, r) == r \in sent /\ Calling(r) /\ CallOf(r) = q

Deliver(q, r, a) ==
    /\ reply' = IF Awaited(q, r) THEN [reply EXCEPT ![r] = a] ELSE reply
    /\ sent' = IF Awaited(q, r) THEN sent \ {r} ELSE sent
    /\ overtime' = IF Awaited(q, r) /\ a.kind \in {"job", "active"}
                   THEN overtime \ {r} ELSE overtime
    /\ UNCHANGED <<storeVars, phase, step, todo, work, gate, stale, produced>>

\* The API executes a request and answers.
ExecuteCall(q) ==
    LET r == Requester(q) IN
    \/ \E j \in Deliveries, t \in Tokens :
          /\ ClaimJob(q, j, t)
          /\ Deliver(q, r, [kind |-> "job", job |-> j, token |-> t])
    \/ ClaimNoJob(q) /\ Deliver(q, r, Answer("no_job"))
    \/ HeartbeatJob(q) /\ Deliver(q, r, Answer(HeartbeatReply(q.lease)))
    \/ /\ AcknowledgeJob(q)
       /\ Deliver(q, r, Answer(IF AckReply(q.lease) = "denied" THEN "denied" ELSE "ok"))
    \/ RequestFails(q) /\ Deliver(q, r, Answer("error"))

-----------------------------------------------------------------------------
(* Control.                                                                *)

\* rotate_runner_credential: whoever holds the credential swaps it on the API.
RotateCredential(r) ==
    /\ r \in registered \ revoked
    /\ stale' = stale \cup {r}
    /\ UNCHANGED <<vars, storeVars, control, dhistory>>

\* _refresh_credential: the secret store holds the new credential, or nobody has
\* put it there.
RefreshCredential(r) == stale' \in {stale, stale \ {r}}

\* The daemon has dealt with the answer, if it had one, and goes on at s;
\* _land_pending_result begins with a refresh.
Go(r, s) ==
    /\ step' = [step EXCEPT ![r] = s]
    /\ reply' = [reply EXCEPT ![r] = Silence]
    /\ IF s = "land_claim" THEN RefreshCredential(r) ELSE UNCHANGED stale
    /\ UNCHANGED <<vars, phase, todo, sent, overtime, produced>>

NextRound(r) == Go(r, "next") /\ work' = [work EXCEPT ![r] = NoWork]

Told(r, kinds) == reply[r].kind \in kinds

\* Every handler below leaves alone what it does not name.
OnlyControl == UNCHANGED <<storeVars, gate>>

\* An exception nobody catches ends start() or the poll thread.
Raise(r) ==
    /\ phase' = [phase EXCEPT ![r] = "raised"]
    /\ step' = [step EXCEPT ![r] = "next"]
    /\ reply' = [reply EXCEPT ![r] = Silence]
    /\ todo' = [todo EXCEPT ![r] = {}]
    /\ UNCHANGED <<vars, work, sent, gate, stale, overtime, produced>>

Halt(r) ==
    /\ phase' = [phase EXCEPT ![r] = "down"]
    /\ step' = [step EXCEPT ![r] = "next"]
    /\ todo' = [todo EXCEPT ![r] = {}]
    /\ work' = [work EXCEPT ![r] = NoWork]
    /\ sent' = sent \ {r}
    /\ reply' = [reply EXCEPT ![r] = Silence]
    /\ gate' = gate \ {r}
    /\ overtime' = overtime \ {r}
    /\ UNCHANGED <<vars, storeVars, stale, produced>>

\* A client is made with the stored credential; start(): recover() first lists
\* the claimed jobs.
StartDaemon(r) ==
    /\ phase[r] \in {"down", "raised"}
    /\ r \in registered
    /\ phase' = [phase EXCEPT ![r] = "recover"]
    /\ todo' = [todo EXCEPT ![r] = {j \in Deliveries : local[r][j].status = "claimed"}]
    /\ work' = [work EXCEPT ![r] = NoWork]
    /\ gate' = gate \ {r}
    /\ overtime' = overtime \ {r}
    /\ RefreshCredential(r)
    /\ UNCHANGED <<vars, storeVars, step, sent, reply, produced>>

\* The process dies; stop() ends the poll loop in the same way at its head.
Crash(r) == phase[r] # "down" /\ Halt(r)

-----------------------------------------------------------------------------
(* recover(): one heartbeat for each job of the list.                      *)

\* Fault: the job stays on the list.
RecoverFirst(r) ==
    /\ phase[r] = "recover" /\ step[r] = "next"
    /\ \E j \in todo[r] :
          work' = [work EXCEPT ![r] = [NoWork EXCEPT !.job = j, !.token = local[r][j].token]]
    /\ step' = [step EXCEPT ![r] = "heartbeat"]
    /\ UNCHANGED <<vars, storeVars, phase, todo, sent, reply, gate, stale, dhistory>>

RecoverNext(r) ==
    /\ phase[r] = "recover" /\ step[r] = "next"
    /\ \E j \in todo[r] :
          /\ todo' = [todo EXCEPT ![r] = @ \ {j}]
          /\ work' = [work EXCEPT ![r] = [NoWork EXCEPT !.job = j, !.token = local[r][j].token]]
    /\ step' = [step EXCEPT ![r] = "heartbeat"]
    /\ UNCHANGED <<vars, storeVars, phase, sent, reply, gate, stale, dhistory>>

\* Faults: a job is given up when the API is not reached; an answer without a
\* status is taken for an active lease.
RecoverGivesUp(r) ==
    /\ step[r] = "heartbeat"
    /\ Told(r, {"invalid_or_expired", "cancelled", "revoked_runner", "unknown_credential", "unreachable"})
    /\ SetLocal(r, work[r].job, "abandoned")
    /\ NextRound(r)
    /\ UNCHANGED <<unacked, gate>>

RecoverTrusts(r) ==
    /\ step[r] = "heartbeat"
    /\ Told(r, {"active", "revoked_runner", "unknown_credential", "unreachable"})
    /\ \/ Told(r, {"unreachable"}) /\ NextRound(r)
       \/ ~Told(r, {"unreachable"}) /\ Go(r, "review") /\ UNCHANGED work
    /\ OnlyControl

\* A 401 carries no status, which the client reads as invalid_or_expired
\* (client.py:61-71).
RecoverAnswered(r) ==
    /\ step[r] = "heartbeat"
    /\ \/ Told(r, {"unreachable"}) /\ NextRound(r) /\ OnlyControl
       \/ /\ Told(r, {"invalid_or_expired", "cancelled", "revoked_runner", "unknown_credential"})
          /\ SetLocal(r, work[r].job, "abandoned")
          /\ NextRound(r)
          /\ UNCHANGED <<unacked, gate>>
       \/ Told(r, {"active"}) /\ Go(r, "review") /\ OnlyControl /\ UNCHANGED work
       \/ Told(r, {"error"}) /\ Raise(r) /\ OnlyControl

\* The list is done: replay_pending_acknowledgements lists the stored results.
RecoverDone(r) ==
    /\ phase[r] = "recover" /\ step[r] = "next" /\ todo[r] = {}
    /\ phase' = [phase EXCEPT ![r] = "replay"]
    /\ todo' = [todo EXCEPT ![r] = unacked[r]]
    /\ UNCHANGED <<vars, storeVars, step, work, sent, reply, gate, stale, dhistory>>

-----------------------------------------------------------------------------
(* The review, by the executor, and complete_job.                          *)

ReviewReturns(r, result) ==
    /\ step[r] = "review"
    /\ step' = [step EXCEPT ![r] = "ack"]
    /\ work' = [work EXCEPT ![r].result = result]
    /\ produced' = produced \cup {[runner |-> r, job |-> work[r].job, result |-> result]}
    /\ UNCHANGED <<vars, storeVars, phase, todo, sent, reply, gate, stale, overtime>>

ReviewRaises(r) == step[r] = "review" /\ Raise(r) /\ OnlyControl

\* The executor renews the lease between its steps (simple_engine.py:131-139);
\* what it makes of the answer only shows in its result.
ReviewHeartbeat(r) ==
    /\ step[r] = "review"
    /\ r \notin stale
    /\ AuthenticateRequest([op |-> "heartbeat", lease |-> LeaseAtHand(r)])
    /\ UNCHANGED <<storeVars, control, stale, dhistory>>

\* complete_job: only JobProtocolDenied and TransportError are caught; a 401 or
\* a 500 raises HTTPStatusError.
CompleteAnswered(r) ==
    /\ phase[r] # "replay" /\ step[r] = "ack"
    /\ \/ Told(r, {"ok"}) /\ MarkCompleted(r, work[r].job) /\ NextRound(r)
          /\ UNCHANGED <<unacked, gate>>
       \/ /\ Told(r, {"denied"})
          /\ RecordPending(r, "invalid_or_expired")
          /\ Go(r, "land_claim")
          /\ UNCHANGED <<local, work, gate>>
       \/ /\ Told(r, {"unreachable"})
          /\ RecordPending(r, "network_unreachable")
          /\ Raise(r)
          /\ UNCHANGED <<local, gate>>
       \/ Told(r, {"revoked_runner", "unknown_credential", "error"}) /\ Raise(r) /\ OnlyControl

-----------------------------------------------------------------------------
(* replay_pending_acknowledgements().                                      *)

ReplayNext(r) ==
    /\ phase[r] = "replay" /\ step[r] = "next"
    /\ \E e \in todo[r] :
          /\ todo' = [todo EXCEPT ![r] = @ \ {e}]
          /\ work' = [work EXCEPT ![r] =
                         [job |-> e.job, token |-> e.token, result |-> e.result]]
          /\ step' = [step EXCEPT ![r] =
                         IF e.reason = "invalid_or_expired" THEN "land_claim" ELSE "ack"]
          /\ IF e.reason = "invalid_or_expired" THEN RefreshCredential(r) ELSE UNCHANGED stale
    /\ UNCHANGED <<vars, storeVars, phase, sent, reply, gate, dhistory>>

ReplayAnswered(r) ==
    /\ phase[r] = "replay" /\ step[r] = "ack"
    /\ \/ /\ Told(r, {"ok"})
          /\ unacked' = [unacked EXCEPT ![r] = @ \ {EntryOf(r, "network_unreachable")}]
          /\ MarkCompleted(r, work[r].job)
          /\ NextRound(r)
          /\ UNCHANGED gate
       \/ /\ Told(r, {"denied", "unreachable"})
          /\ NextRound(r)
          /\ UNCHANGED <<storeVars, gate>>
       \/ Told(r, {"revoked_runner", "unknown_credential", "error"}) /\ Raise(r) /\ OnlyControl

\* start() ends: the poll thread begins.
ReplayDone(r) ==
    /\ phase[r] = "replay" /\ step[r] = "next" /\ todo[r] = {}
    /\ phase' = [phase EXCEPT ![r] = "poll"]
    /\ UNCHANGED <<vars, storeVars, step, todo, work, sent, reply, gate, stale, dhistory>>

-----------------------------------------------------------------------------
(* _land_pending_result(): claim again, and acknowledge under the new lease *)
(* when the claim returned the same job.                                    *)

\* Fault: the job that was claimed is not compared.
LandAnyJob(r) ==
    /\ step[r] = "land_claim"
    /\ \/ /\ Told(r, {"job"})
          /\ work' = [work EXCEPT ![r].job = reply[r].job, ![r].token = reply[r].token]
          /\ Go(r, "land_ack")
       \/ Told(r, {"no_job", "unreachable", "revoked_runner", "unknown_credential", "error"})
          /\ NextRound(r)
    /\ OnlyControl

LandClaimAnswered(r) ==
    /\ step[r] = "land_claim"
    /\ \/ Told(r, {"unreachable"}) /\ NextRound(r) /\ OnlyControl
       \/ /\ Told(r, {"revoked_runner", "unknown_credential"})
          /\ gate' = IF Told(r, {"revoked_runner"}) THEN gate \cup {r} ELSE gate
          /\ MarkPendingTerminal(r, work[r].job)
          /\ NextRound(r)
       \/ /\ Told(r, {"job"})
          /\ reply[r].job = work[r].job
          /\ work' = [work EXCEPT ![r].token = reply[r].token]
          /\ Go(r, "land_ack")
          /\ OnlyControl
       \/ /\ Told(r, {"job"})
          /\ reply[r].job # work[r].job
          /\ LET kept == [local EXCEPT ![r][work[r].job].status = "completed"] IN
               local' = IF local[r][reply[r].job].status = "none"
                        THEN [kept EXCEPT ![r][reply[r].job] =
                                [status |-> "claimed", token |-> reply[r].token]]
                        ELSE kept
          /\ unacked' = [unacked EXCEPT ![r] = {e \in @ : e.job # work[r].job}]
          /\ NextRound(r)
          /\ UNCHANGED gate
       \/ /\ Told(r, {"no_job"})
          /\ MarkPendingTerminal(r, work[r].job)
          /\ NextRound(r)
          /\ UNCHANGED gate
       \/ Told(r, {"error"}) /\ Raise(r) /\ OnlyControl

LandAckAnswered(r) ==
    /\ step[r] = "land_ack"
    /\ \/ /\ Told(r, {"ok"})
          /\ MarkPendingTerminal(r, work[r].job)
          /\ NextRound(r)
          /\ UNCHANGED gate
       \/ /\ Told(r, {"denied", "unreachable"})
          /\ NextRound(r)
          /\ UNCHANGED <<storeVars, gate>>
       \/ Told(r, {"revoked_runner", "unknown_credential", "error"}) /\ Raise(r) /\ OnlyControl

-----------------------------------------------------------------------------
(* The poll loop.                                                          *)

PollOnce(r) ==
    /\ phase[r] = "poll" /\ step[r] = "next"
    /\ r \notin gate
    /\ step' = [step EXCEPT ![r] = "claim"]
    /\ RefreshCredential(r)
    /\ UNCHANGED <<vars, storeVars, phase, todo, work, sent, reply, gate, dhistory>>

\* Fault: the job is read back from the store, which kept an older token.
PollFromStore(r) ==
    /\ step[r] = "claim"
    /\ \/ Told(r, {"unreachable", "no_job", "revoked_runner", "unknown_credential", "error"})
          /\ NextRound(r)
          /\ OnlyControl
       \/ /\ Told(r, {"job"})
          /\ RecordClaimed(r, reply[r].job, reply[r].token)
          /\ work' = [work EXCEPT ![r] = [job |-> reply[r].job, result |-> None,
                         token |-> local'[r][reply[r].job].token]]
          /\ Go(r, "review")
          /\ UNCHANGED <<unacked, gate>>

PollAnswered(r) ==
    /\ step[r] = "claim"
    /\ \/ /\ Told(r, {"unreachable", "no_job", "unknown_credential"})
          /\ NextRound(r)
          /\ OnlyControl
       \/ /\ Told(r, {"revoked_runner"})
          /\ gate' = gate \cup {r}
          /\ NextRound(r)
          /\ UNCHANGED <<storeVars>>
       \/ /\ Told(r, {"job"})
          /\ RecordClaimed(r, reply[r].job, reply[r].token)
          /\ work' = [work EXCEPT ![r] =
                         [job |-> reply[r].job, token |-> reply[r].token, result |-> None]]
          /\ Go(r, "review")
          /\ UNCHANGED <<unacked, gate>>
       \/ Told(r, {"error"}) /\ Raise(r) /\ OnlyControl

\* The gate is closed, or stop() was called: the loop ends.
PollEnds(r) == phase[r] = "poll" /\ step[r] = "next" /\ Halt(r)

\* Time: a lease that runs out under the daemon is noted.
DaemonTick ==
    /\ Tick
    /\ overtime' = overtime \cup
          {r \in Runners : \/ work[r].job # None /\ jobs'[work[r].job].locked_for = 0
                           \/ reply[r].job # None /\ jobs'[reply[r].job].locked_for = 0}
    /\ UNCHANGED <<storeVars, control, stale, produced>>

-----------------------------------------------------------------------------

DaemonStep(r) ==
    \/ RecoverNext(r) \/ RecoverAnswered(r) \/ RecoverDone(r)
    \/ (\E s \in Outcomes : ReviewReturns(r, s))
    \/ CompleteAnswered(r)
    \/ ReplayNext(r) \/ ReplayAnswered(r) \/ ReplayDone(r)
    \/ LandClaimAnswered(r) \/ LandAckAnswered(r)
    \/ PollAnswered(r)

DNext ==
    \/ (Webhook \/ WorkerStep \/ RunnerAccount) /\ UNCHANGED <<storeVars, control, stale, dhistory>>
    \/ (\E j \in Deliveries : RequeueReviewJob(j)) /\ UNCHANGED <<storeVars, control, stale, dhistory>>
    \/ DaemonTick
    \/ \E q \in inflight : ExecuteCall(q)
    \/ \E r \in Runners :
          \/ SendCall(r) \/ CallRefused(r) \/ CallFails(r)
          \/ DaemonStep(r)
          \/ ReviewRaises(r) \/ ReviewHeartbeat(r)
          \/ StartDaemon(r) \/ Crash(r) \/ RotateCredential(r)
          \/ PollOnce(r) \/ PollEnds(r)

DSpec == DInit /\ [][DNext]_dvars

-----------------------------------------------------------------------------
(* Safety.                                                                 *)

\* While a job is reviewed and its lease has not run out, the hosted row is held
\* by exactly this lease, or a webhook has retired it, or an acknowledgement of
\* the same lease that was given up on has arrived after all.  No other runner or
\* worker can then be reviewing it (daemon.py:142-164).
ReviewHoldsLease ==
    \A r \in Runners :
        step[r] = "review" /\ r \notin overtime =>
            \/ LeaseAtHand(r) \in landed
            \/ /\ Holds(LeaseAtHand(r))
               /\ jobs[work[r].job].status \in {"running", "superseded", "cancelled"}

\* A result is only ever sent for the job it was computed for, by the runner that
\* computed it, whatever job a claim under way returned (daemon.py:207-209).
OwnResultOnly ==
    \A q \in inflight \cap AckRequest :
        [runner |-> q.lease.runner, job |-> q.lease.job, result |-> q.result] \in produced

\* A runner that knows it is revoked reviews nothing (revocation.py:3-7), on
\* whichever path it was about to: poll, recovery, or a landing in between.
RevokedReviewsNothing == \A r \in gate : step[r] # "review"

\* recover() gives a job up only when the lease it stored will never again be
\* accepted, or its own credential is refused, because the runner is revoked or the
\* credential was rotated; never because the API was not reached (daemon.py:12-22).
AbandonsOnlyLost ==
    [][\A r \in Runners, j \in Deliveries :
          local[r][j].status = "claimed" /\ local'[r][j].status = "abandoned" =>
             \/ r \in revoked \cup stale
             \/ HeartbeatReply([job |-> j, runner |-> r, token |-> local[r][j].token])
                   # "active"]_dvars

\* What daemon.py:24 says: "complete_job persists a finished result before it is
\* lost."  When an exception ends the daemon with a finished result at hand, the
\* result is stored or the API has it.
FinishedResultKept ==
    \A r \in Runners :
        phase[r] = "raised" /\ work[r].result # None =>
            \/ LeaseAtHand(r) \in landed
            \/ \E e \in unacked[r] : e.job = work[r].job

-----------------------------------------------------------------------------
(* Liveness.                                                               *)

\* The thread of the daemon runs, and httpx gives every call a timeout.  Nothing
\* is assumed of the API.
DFairSpec ==
    /\ DSpec
    /\ \A r \in Runners : WF_dvars(DaemonStep(r)) /\ WF_dvars(CallFails(r))

\* start() comes to an end: recovery and replay run over lists taken once, and no
\* answer, or lack of one, holds them up for good.
StartEnds ==
    \A r \in Runners :
        (phase[r] \in {"recover", "replay"}) ~> (phase[r] \notin {"recover", "replay"})
================================================================================
