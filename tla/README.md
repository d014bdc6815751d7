# TLA+ verification of pr_reviewer

pr_reviewer reviews GitHub pull requests. A hosted *control plane* receives the
webhooks, keeps a queue of review jobs in Postgres and decides who may act for
which repository; *runners* on developers' machines lease jobs over HTTPS,
review them with local model keys and acknowledge the result; a *terminal
interface* signs a runner in and shows its reviews. This directory holds TLA+
models of the parts of that system whose correctness depends on order, failure
and time, the TLC runs that check them on small instances, and TLAPS proofs for
every size of the constants.

Paths below are relative to the package (`src/pr_reviewer/` of the repository).

- [1 Inventory](#1-inventory)
- [2 Modules](#2-modules)
- [3 Runs and bounds](#3-runs-and-bounds)
- [4 Fairness](#4-fairness)
- [5 Refinement](#5-refinement)
- [6 Proofs](#6-proofs)
- [7 Findings](#7-findings)
- [8 Observations](#8-observations)
- [9 Not modelled, and what is left](#9-not-modelled-and-what-is-left)

## 1 Inventory

| Part | State | Operations | Hard behaviour | Correct means |
|---|---|---|---|---|
| Review job queue (`jobs/`) | a `review_jobs` row per delivery: status, head, attempts, `available_at`, lock columns | enqueue, cancel, claim, renew, complete, fail, requeue | leases run out under live holders; retired rows keep their lock columns; a worker's claim leaves a runner's token | a lost lease is never accepted again, one result per job, final rows stay final, no row waits forever |
| Runner job protocol (`control_plane/runner_jobs.py`) | requests in flight | claim, heartbeat, acknowledge | authentication and execution are two transactions | a repeated acknowledgement is told "ok" only about its own result |
| Hosted worker (`worker/main.py`) | process, job thread, renewal thread | claim and run, renew, report, stop | threads race the lease; kills and restarts | two processes work on one job only after a lease ran out; running rows end |
| Runner daemon (`runner/daemon.py`, `runner/client.py`) | local jobs, stored results, revocation gate | recover, replay, land, poll | every call may be lost, late or given up; crashes | reviews only under its own lease, sends only its own results, `start()` ends |
| Identity (`control_plane/`: `github_oauth`, `oauth_api`, `approval_api`, `pairing`, `pairing_api`, `repository_policy`, `installation_lifecycle`, `runner_auth`, `token_broker`, `installation_token`) | installations, repositories, OAuth states, live sign-ins, pairing codes, runners, assignments, requests | webhooks, sign-in, approval, exchange, rotation, revocation, tokens | every handler of several transactions may be overtaken | assignments are backed by live runners, a code becomes one runner, approvals are final, late requests mint nothing |
| Terminal interface (`tui/`) | secrets, snapshot, panels, mail, timers, auto-review heads | sign in, exchange, log out, sections, auto review | a thread, timers and messages outlive the state they were started in | reviews only when signed in, no attempt abandoned, sign-in resolves |
| Review records (`control_plane/review_projection.py`, `budget.py`, `retention.py`, `tui/screens/review.py`, `tui/review_dashboard.py`, `local_store/review_log.py`) | findings, events, reservations, pushes under way | push, project, reserve, release, purge | pushes are retried while copies are under way; two callers reserve at once | both dashboards agree, budgets count what is held |
| Workflow engines (`workflow/`) | run row, recorded steps | run, resume, checkpoint | crashes between a handler and its record | steps in order, once but for interrupted ones |
| Output (`github/post_review.py`, `notifications/`) | reviews on GitHub, sent notifications | gate, post, dispatch | timeouts of accepted submissions, raised sends | one review per head, private findings stay private |
| Retries (`models/retry.py`, `models/provider_errors.py`, `reliability/retry.py`) | attempt, clock, sleep | attempt, classify, sleep | overruns at the limits, waits a provider asks for | no attempt past the limits or before its time |
| Local store (`local_store/`, `db/migrate.py`) | files and their write-ahead logs, migrations, rows, volume and password | open, migrate, quarantine, purge, start, stop | crashes inside a migration; two processes; a log whose file was renamed | opened means whole, committed rows kept, a kept volume opens |
| Diff review (`github/pull_request.py`, `runner/repository_fallback.py`, `reviewer/`) | files, packed diff, findings | fetch, recover, pack, filter, merge | budgets, hunk boundaries, orders, text that is rendered and read back | every file accounted for, findings on shown lines, merging loses nothing |
| Retrieval index (`retrieval/`) | generations, chunks | index, query | racing index runs and queries between statements | one active generation, context of the commit asked for |
| Agent surfaces (`agent_surfaces/`, `runner/cli/`) | reviews of a session | MCP, A2A, ACP, command lines | malformed and refused calls in any order | listed findings are the reviewed ones |
| Connectors (`connectors/`) | audit rows | three audited calls | effects without an answer, failing records | the audit tells what GitHub was made to do |
| Local service (`runner/cli/service.py`, `runner/cli/uninstall.py`, `runner/secrets.py`, `runner/web/local_auth.py`) | pid file, port, secret stores, sessions | start, stop, status, uninstall, pages | overlapping starts, restarts under open pages, secrets that go away | stop and the pages are told the truth |

Not modelled: the sandbox and the evaluation harness (section 9). `PROJECT.json`
lists every component with its status, and under `hazards` the places in the code
where a test would hardly reach what can go wrong, with the properties that cover
each or the reason why none does.

How the parts interact: webhooks and operators change the queue that workers and
runners poll; a revocation (identity) closes a runner's access to the queue and to
tokens; the daemon calls the job protocol and keeps its results in the local store;
a review inside the daemon runs a workflow whose steps fetch, pack and review a diff,
call a model, and post; the terminal pairs the runner through the
identity routes and pushes summaries that the projection stores beside the queue's
rows. `HostedWorker` and `RunnerDaemon` are composed with `ReviewQueue` and so are
checked with it. The other parts meet through values that are inputs of their
modules: the lease and the head in `Workflow`, the hosted answers in `Terminal`.

## 2 Modules

| Module | Models |
|---|---|
| `ReviewQueue` | the queue, the runner protocol, pairing and revocation as they gate it |
| `JobLifecycle` | abstract: what the queue promises of each job |
| `HostedWorker` | worker processes on the queue (EXTENDS `ReviewQueue`) |
| `RunnerDaemon` | daemons, their store and their calls, on the queue (EXTENDS `ReviewQueue`) |
| `MCDaemonLeases` | the daemon with two deliveries, or with one and a competing worker |
| `ReviewQueue_proofs`, `RunnerIdentity_proofs`, `Terminal_proofs` | theorems about the module of that name |
| `QueueClients_proofs` | theorems about `HostedWorker` and `RunnerDaemon` |
| `Reviews_proofs` | theorems about `DiffReview` and `ReviewRecords` |
| `Pipeline_proofs` | theorems about `Workflow`, `ReviewOutput`, `ModelCalls`, `GitHubConnector`, `AgentSurfaces` |
| `LocalStore_proofs` | theorems about `LocalStore`, `LocalService`, `RetrievalIndex` |
| `StableSort` | Python's `sorted`, which the code relies on (external) |
| `FoldInduction` | theorems about folds, stable sorts and sums, for any one operator |
| `RunnerIdentity` | sign-in, installations, pairing, runners, assignments, rotation, tokens |
| `Terminal` | the terminal application and the hosted side it talks to |
| `ReviewRecords` | the review panel, pushes, projection, budgets, purge, both dashboards |
| `Workflow`, `ReviewOutput`, `ModelCalls`, `LocalStore`, `DiffReview`, `RetrievalIndex`, `AgentSurfaces`, `GitHubConnector`, `LocalService` | one part of the inventory each |
| `MC*` | values of the constants for TLC; `MCPipeline` puts the nine modules of the row above side by side, with starts and pages of `LocalService` in a fixed order |

Definitions marked *Fault*, or described as the form a bug would have, are mutated
forms of the definition below them. They are not part of any specification; each
shows that a property notices the bug it stands for.

One transaction is one action; a handler that leaves the database between two
transactions, or waits for the network, is several. A refusal that writes nothing is
no step where no history needs it. Data that no property tells apart
(wording, formatting, timestamps beyond their order, hashing) is left out.

### ReviewQueue

A row is named by the delivery that inserted it (at most one row per delivery).

| Action | Code |
|---|---|
| `EnqueueReviewJob`, `EnqueueUnidentified`, `Duplicate` | `enqueue_review_job` with and without an identity |
| `CancelReviewJob` | `cancel_review_job` |
| `WorkerClaim`, `RenewReviewJobLease`, `CompleteReviewJob`, `FailReviewJob` | `claim_`, `renew_`, `complete_`, `fail_review_job` |
| `PairRunner`, `RevokeRunner` | effects of `exchange_pairing_code` and `revoke_runner` on runners and assignments |
| `AuthenticateRequest` | `_authenticate_bearer`; then one of the next four |
| `ClaimJob`, `ClaimNoJob`, `HeartbeatJob`, `AcknowledgeJob` | `claim_job`, `heartbeat_job`, `acknowledge_job` |
| `RequestFails` | the transaction of a request is rolled back |
| `RequeueReviewJob` | `requeue_review_job` |
| `Tick` | time |

- *Timestamps* are the ticks left until them; only "now or earlier" matters. The
  order by `available_at, created_at` is kept apart, in `earlier`: which rows
  precede a row.
- *attempts* is only compared with the maximum, so it saturates one above it.
- *Tokens* stand for themselves and for their hashes. A token is minted once; the
  set of tokens bounds the number of runner claims.
- *SKIP LOCKED*: only `acknowledge_job` locks a row before it knows whether it will
  change it and can be met by a claim; a claim may pass such a row by
  (`MayBeLocked`), or not.
- *Webhooks* are atomic: the webhook route is an `async def` that makes
  synchronous database calls, so one API process handles one webhook at a time.
- `leases`, `lapsed`, `landed` and `requeued` are history. No guard reads them,
  except that a heartbeat or an acknowledgement carries a lease that was handed
  out, and that a minted token is new.

### HostedWorker and RunnerDaemon

Both take the queue's actions as conjuncts: a step of theirs that changes the
database *is* the queue's action, in conjunction with what the process does.

Every worker process has the id `worker_python`, which `main()` gives them all; nothing below
needs ids of their own. A worker process is down, idle, busy, or in `overrun`: its loop is over but the
thread of `run_job`, not a daemon thread, still executes. `ShutdownDeadline` is the
`TimeoutError` of `main.py:158` as it is caught at `main.py:87`. `complete_review_job`
and `fail_review_job` raise for a row that is not owned and nothing catches it:
`DiesOfLostLease`. `outlived` is history: the jobs whose lease ran out while a process that still
waits for them did.

For a daemon `phase` is the loop (`recover`, `replay`, `poll`), `step` the call under
way or the review. A call is sent (`SendCall`), executed at some later time
(`ExecuteCall`, the queue's action plus the delivery of the answer), refused with 401
(`revoked_runner`, or `unknown_credential` when the credential at hand was rotated; the heartbeat
of recovery reads the second as a lost lease), or fails with a transport error before, during or after its execution. `Crash` is
possible in every state; `local` and `unacked` survive it. `Raise` is an exception that
ends `start()` or the poll thread. `stale` are the runners whose client still has a rotated
credential: `RotateCredential` is a rotation by another process of the runner, `RefreshCredential`
what a poll and a landing do first. The order in which the store lists rows is left open.
In the repository only tests construct a `RunnerDaemon`; the model is of the class as
it is.

### RunnerIdentity

State: installations, repositories and assignments of `repository_policy`, OAuth
states, the callback under way in each browser, live sign-ins (cookies), pairing
codes with their grants, runners with a numbered credential, and the runners' requests.
`CompleteSignIn`, `CaptureLiveAssertion`, `AutoApproveWaitingPairing` and
`CallbackReturns` are the transactions of one callback; `AuthenticateRunner`,
then `RotateRunnerCredential` or `AssignedRepositories`/`AuthorizeJobToken`, then
`MintToken` those of a request. A request is marked `late` (history) when it arrives
after a revocation of its runner or installation; `Pardon` takes the mark back when
GitHub reports the installation as created again. Ages count to `Ttl`, which stands for
the ten minutes of states, codes and cookies.

### Terminal

A handler of the application runs to its end before the next one and is one action.
The sign-in worker is a thread (`RunSignIn`, `WaitForPairing`) that posts messages to
`mail`; `MailStep` handles the first one. `countdown` is the timer between a stored
credential and the rebuilt screen, `dialog` the confirmation of a logout. The hosted
side is reduced to codes that are approved, exchanged, expire, and to runners that are
revoked; closing the application loses memory and keeps secrets and the snapshot file.
`CliLogOut` is `reviewer logout` in a shell, also beside the open application, which does not
learn of it (`beside` is history).

### ReviewRecords

The panel streams reasoning, completes, pushes; `AuthorizePush` and `SavePush` are the
two transactions of the route, and `MaxCopies` copies of one push may be under way.
`ProjectReview` writes a queued review's rows with a receipt for each finding, or without. `ReserveSelect` and
`ReserveWrite` are two statements of one transaction that a second caller may come
between. `PurgeHostedRepository` is the first statement of a purge, `PurgeEnds` the
others with the foreign keys that may refuse them. `ListReviews`,
`DashboardRepositoriesFromLog` and `Summary` are what the two pages show.

### The parts of the pipeline

- `Workflow`: both engines over one store. The graph engine passes a stopped result
  through its remaining nodes, the simple one returns at once. Handler and record are
  two steps; `Interrupt` is a crash, an exception or a step timeout in any stage.
- `ReviewOutput`: the gate as a function of a finding's flags; `Submit` with the four
  fates of a submission; dispatch channel by channel.
- `ModelCalls`: a run of one of the two retry loops, with a clock, attempts of any duration and
  sleeps that last longer than asked; classification of answers as in `provider_errors.py`.
- `LocalStore`: three independent state machines (files, their `-wal` files and migrations of
  the daemon and the trace command, hosted migrations of an old and a new deployment, the vector
  store) and the rows of the local tables.
- `DiffReview`: a review from the first page of files to the findings. Algorithms are
  folds and sets; the properties restate what they are for without following the code. A line of a
  patch has its mark and what its text would be read as (`says`: a side marker, a number, or code), so
  that `ReadOldSide` and `ShownLines` are the reading back of the rendered diff by `_new_side_lines`.
- `RetrievalIndex`: index runs under read committed isolation (row locks and the
  partial unique index are external), queries of three statements whose rankings are cut at
  the candidate limit (the query's limit times `_CANDIDATE_MULTIPLIER`), rank fusion over one
  denominator instead of floating point, with the stable sort keeping ties in the order in
  which the rankings first name them.
- `AgentSurfaces`: sessions of MCP, A2A and ACP and the two command lines, from the
  form of a line to the reply or the exit code.
- `GitHubConnector`: the audited calls of several callers. GitHub may have done what it was
  asked to whatever it answers, an error of its gateway included.
- `LocalService`: overlapping starts, stop and status, pages and their cookies, two secret
  stores of which a start finds one, and the uninstall that deletes the secret. A signalled server may
  end with or without its `finally` clause (`ServerEnds`, `Killed`).

## 3 Runs and bounds

| Run | Bounds | What it shows |
|---|---|---|
| `queue_leases` | 2 deliveries of one pull request, 2 heads, 1 worker, 2 runners, 2 tokens, dead after 1 attempt | stale leases stay dead, one result per job, one active row per pull request but for requeued ones, `JobLifecycle` is implemented |
| `queue_live` | 2 deliveries, 1 worker, 1 runner, dead after 2 attempts | no pending row waits forever |
| `workers` | 2 processes with one id, 2 deliveries of one pull request, dead after 1 attempt, requeued by an operator | two processes on one job only after a lease ran out; a running row ends |
| `daemon_leases` | 1 daemon, 2 tokens; 2 deliveries on 2 pull requests, or 1 and a competing worker (`MCDaemonLeases`) | sends only its own results, reviews only under its own lease and nothing once revoked, abandons only what is lost |
| `daemon_live` | 1 job, 1 daemon, 2 tokens, reviews that fail and jobs requeued | recovery and replay end |
| `identity` | 2 users of whom one controls the installation, 2 repositories of which it covers one, 2 codes, 1 state, 2 runners, 2 requests, 3 credentials | the six properties of pairing, tokens and credentials |
| `terminal` | 2 accounts, 3 codes, 1 pull request, 2 heads, deadline after 2 polls | sign-in, logout and automatic review |
| `records` | 2 repositories, 1 pushed and 2 queued reviews, 2 callers, amounts 1 and 2, limits 0 and 3, 2 copies of a push | the pages agree, verified means run where there is a receipt, budgets count what is held |
| `pipeline` | see `Pipeline.cfg`; each part for itself | the fifteen properties of the nine modules |
| `daemon_lost_result` | 1 job, 1 daemon | violation, finding 1 |
| `records_purge` | as `records` | violation, finding 2 |
| `records_verified` | as `records` | violation, finding 3 |

Why the bounds are enough for the cases the properties are about. Queue: a lease of
one tick can be live, run out, and be renewed; a second claim takes one holder and one
more; superseding and requeuing need two rows of one pull request with equal and with
different heads; two tokens let a row be leased twice. Daemon: to land a stored result under
another lease takes a second job, to lose a row to somebody else a worker; no property relates
the two. Identity: two codes and two
runners for two exchanges in either order, two requests for two rotations or a token
racing a revocation, a third credential for a rotation after a race; a second user and
a repository outside the installation for refusals. The constraint `MCBound` of
`MCRunnerIdentity` separates what no transaction relates: people sign in only while no
runner holds a lease or makes a request, and one runner rotates its credential; webhooks,
revocations and exchanges interleave with both. Terminal: a third code is needed for an attempt after an expired
and an abandoned one. Records: two copies for a retry that overtakes, two callers for one
reservation, a second repository to show that a purge leaves it alone. Pipeline: three
workflow steps (a recorded, a running and a missing one) and two interruptions; three
submissions or dispatches; limits above two retries; two migrations, one that can run again, in three
files; changed files at three paths with budgets that take all, some and none; two drafts
where one may be accepted, and two or three specialists that answer with a finding each; two index
runs and three generations of trees of up to three chunks, rankings cut at two candidates, and
a token budget that two chunks of two lines fill exactly; two callers; three starts with
stops, or two with pages, two secrets, sessions and secret stores. The patches include one that removes a
line `NEW ...` above a context line that begins with a number, which is read back as shown.

Deadlock is checked in every run but `pipeline` and the three of `ReviewRecords`, where all
there is to do may have been done (a review is merged, the callers have made their calls, every
review is pushed, projected or purged). In the others nothing stops: a delivery may
always be delivered again, the person at the terminal may always open it again.

Symmetry over deliveries, runners, tokens, heads, pull requests, codes, OAuth states, requests or index runs is used in runs
of safety properties only, and no definition tells the members of these sets apart.

## 4 Fairness

- `FairSpec` (queue): time passes; accepted requests are executed (weak); a worker
  that owns a row comes to an end with it (weak; `run_worker` has no path that leaves
  a claimed row but by complete, fail or death, and the worker module takes death into
  account). Claims are strongly fair for claims that skipped nothing: a worker polls
  forever and the row lock of an acknowledgement lasts one short transaction, so polls
  do not meet it every time. Nothing is assumed of runners, webhooks or operators.
- `WFairSpec` (workers): time; the supervisor restarts a process; an overrun thread
  ends; strong fairness of claiming, since kills and restarts may interrupt it again
  and again; and for each row, a job that is started over and over comes to its end in
  time at some point. Without the last the row of a job that always kills its worker
  stays running and claimed forever (section 8).
- `DFairSpec` (daemon): the thread runs and httpx times every call out. Nothing is
  assumed of the API.
- `TermFairSpec` (terminal): the worker thread runs, a poll that is due is made and
  answered in the end, and the application handles its messages. Nothing is assumed of
  the person, the browser or the expiry of codes: the deadline of `wait_for_pairing` is
  what ends a wait.

## 5 Refinement

`JobLifecycle` is the abstract specification of each job: absent, pending, running or
ended, whose report would be accepted now (`reporters`), the leases handed out and the
leases that reported. It promises that a runner's lease is not given to somebody else while it is good, that
one that stopped being good never is again, that a claim makes one new reporter, that
a report comes from a reporter and is the end of the job, and that succeeded, superseded
and cancelled jobs stay so.

`ReviewQueue` is shown to implement it: `Promise == INSTANCE JobLifecycle WITH job <- ...`
maps a row, the lease history and the clocks to that state (`Reporters`, `JobOf`), and
`KeepsThePromise` is the abstract specification as a property of `queue_leases`. What the
mapping has to see through is the content of the rows: lock columns that stay in retired
rows, a token left in a row a worker claimed, locks that ran out but were not claimed
again. `QueueKeepsThePromise` proves the same for every value of the constants: `Init`
maps to the initial state of each job, and with `IInv` every step of the queue maps to a step
of that job or leaves its state alone. The worker processes and the daemons are proved to
implement the queue (`WorkersImplementQueue`, `DaemonsImplementQueue`), so the promise
carries over to them (`WorkersKeepThePromise`, `DaemonsKeepThePromise`).

## 6 Proofs

`ReviewQueue_proofs` proves, for every value of the constants allowed by
`QueueAssumption`, what follows; four of the invariants and the refinement are also properties of `queue_leases`.

| Theorem | Statement |
|---|---|
| `TypeCorrect` | `Spec => []TypeOK` |
| `LocksMatch` | `Spec => []LockMatchesStatus` |
| `AttemptsLeft` | `Spec => []PendingHasAttemptsLeft` |
| `StaleLeases` | `Spec => []StaleLeaseIsDead` |
| `OkIsOwnResult` | `Spec => []OkMeansLanded` |
| `OneResult` | `Spec => []OneResultPerJob` |
| `ActivePerHead`, `ActivePerPull` | `Spec => []OneActivePerHead`, `Spec => []OneActiveUnlessRequeued` |
| `FinalForever` | `Spec => FinalStays` |
| `QueueKeepsThePromise` | `Spec => KeepsThePromise`, the refinement of section 5 |

The properties are not inductive one by one. The inductive invariant is
`IInv == TypeOK /\ RowInv /\ LeaseInv /\ ActiveInv`:

- `RowInv` adds to `LockMatchesStatus` and `PendingHasAttemptsLeft` that a delivery not
  yet processed has no row; without it an enqueue could overwrite one.
- `LeaseInv` adds `LapsedHoldsNothing`, a lapsed lease does not match its row (runner and
  token), and `LandedIsFinished`, a job with a recorded result is acknowledged unless it
  was requeued. `StaleLeaseIsDead` follows from the first, since both answers are refused
  for a lease that does not match; `OneResultPerJob` needs the second, since a second result
  needs a live lease. The first is preserved because a row that stopped naming a runner
  names one again only with a token that is in no lease, and it is why the token that a
  worker's claim leaves behind in the row does no harm.
- `ActiveInv` is the pair of properties about active rows, which hold each other up.

`StepCases` splits `Next` once into the steps that change more than timers, and each
invariant has one step for each of them. The refinement treats one job at a time: a step
either leaves the columns that `Reporters` and `JobOf` read alone, or is one move of that job,
and the moves are matched with the actions of `JobLifecycle` column by column. It needs that a
worker's id is no lease of a runner (in `QueueAssumption`), since both are reporters.

`QueueClients_proofs` proves of `HostedWorker`:

| Theorem | Statement |
|---|---|
| `WorkersImplementQueue` | `WSpec => Spec`: every step of a process is a step of the queue or leaves it alone |
| `WorkerTypeCorrect` | `WSpec => []WorkerTypeOK` |
| `WorkersKeepFinal` | `WSpec => FinalStays` |
| `WorkersKeepThePromise` | `WSpec => KeepsThePromise` |
| `Exclusion` | `WSpec => []ExclusiveWhileBusy` |
| `BusyOwns` | `WSpec => []BusyOwnsItsRow` |

The inductive invariant of the last two is `BusyUnderLease`: while no lease of a job ran
out under a process that still waits for it, a busy process owns its row and the row cannot be
claimed, or a webhook retired it. Nothing is assumed of the worker ids, so it holds for the one id
of `main()`. What the shared id does change is what happens after a lease ran out (section 8).

and of `RunnerDaemon`, for any number of daemons, with `DaemonAssumption`:

| Theorem | Statement |
|---|---|
| `DaemonTypeCorrect` | `DSpec => []DaemonTypeOK` |
| `DaemonsImplementQueue` | `DSpec => Spec`: every step of a daemon, and of a call of it, is a step of the queue or leaves it alone |
| `DaemonsOneResult` | `DSpec => []OneResultPerJob` |
| `DaemonsKeepThePromise` | `DSpec => KeepsThePromise` |
| `RevokedIdle` | `DSpec => []RevokedReviewsNothing` |
| `SendsOwnResults` | `DSpec => []OwnResultOnly` |
| `ReviewsHoldTheirLease` | `DSpec => []ReviewHoldsLease` |
| `GivesUpOnlyLost` | `DSpec => AbandonsOnlyLost` |

- `DaemonTypeOK` is not inductive: `AtHand` adds what a daemon has at hand at each step (a
  job that is in its store, its token, a result from the end of the review on, a job and a
  token in the answer to a claim), that its lists and its stored results are about stored
  jobs, and that it waits for an answer only while it has none. The heartbeat of recovery
  then always carries a token, and this is what makes it a request of the queue, as
  `DaemonsImplementQueue` needs.
- `RevokedIdle` rests on `Knows`: a daemon that was told so is revoked, and once its gate is
  closed no answer that was already on its way can be one to a call it waits for. It uses
  that a revocation is never taken back.
- `SendsOwnResults` rests on `OwnResults`: the result at hand, the stored results and the
  list replay runs over are all results this runner computed for the job they are kept with.
- `ReviewsHoldTheirLease` and `GivesUpOnlyLost` rest on `VerdictInv`: what a daemon was told of
  a lease is still so when it acts on it. A refused lease stays refused (`LostForever`: its row
  names the runner again only with a token nobody had before), and a granted or renewed one stays
  with the daemon until its time runs out (`MineUntilTime`, `OnlyTimeRunsOut`), through every
  step of every other daemon, worker, webhook and operator. `VerdictInv` uses that the token a
  heartbeat carries is the one in the store, which `record_claimed` does not overwrite.
  `GivesUpOnlyLost` also needs that an answer which is a 401 in disguise only goes to a client with a
  rotated credential, and that the credential is still that one when the answer is read.

`RunnerIdentity_proofs`, with `IdentityAssumption` (a null is none of the values of a column):

| Theorem | Statement |
|---|---|
| `IdentityTypes` | `IdSpec => [](IdTypeOK /\ GrantsBacked)` |
| `AssignmentsAlwaysBacked`, `OneRunnerPerCodeHolds` | `IdSpec => []AssignmentsBacked`, `IdSpec => []OneRunnerPerCode` |
| `LateRequestsMintNothing`, `CredentialsKeepLineage` | `IdSpec => []LateRequestMintsNothing`, `IdSpec => []CredentialLineage` |
| `ApprovalsAreFinal`, `CallbacksInTheirOwnBrowser` | `IdSpec => ApprovalIsFinal`, `IdSpec => CallbackInItsOwnBrowser` |

The inductive invariant `IdInv` adds to the four state properties that every approval was
backed when it was written and stays so (`GrantsBacked`: an exchange relies on the approval
alone), that runners and requests refer to rows on record, that a late request still has its
runner or installation revoked (`RequestsOnRecord`: this is what refuses it at the last read),
and that a binding cookie belongs to the browser its state was issued to (`StatesBound`). A
frame lemma per table (`CodesAdvance`, `RunnersAdvance`, `GrantsEnter`) says what any step may
do to it.

`Terminal_proofs`, with `TerminalAssumption`:

| Theorem | Statement |
|---|---|
| `ReviewsNeedSignIn` | `TermSpec => []ReviewsOnlySignedIn` |
| `WaitsForItsCode` | `TermSpec => AttemptNotAbandoned` |

`TInv` adds `OneAttempt`, which says what can be in the thread and in the mail together: there
is one attempt at a time, asking, waiting, with its verdict in the mail, or about to be
exchanged, and only while nobody is signed in. Without it a message of an earlier attempt could
arrive behind a logout. `AsksSignedIn` and `ConnectsSignedOut` say what is on screen meanwhile, also after a
logout in a shell took the credential away.

`Reviews_proofs`, with `RecordsAssumption` and `DiffReviewAssumption`:

| Theorem | Statement | Inductive invariant |
|---|---|---|
| `VerifiedAlwaysRan` | `RecSpec => []VerifiedMeansRan` | the property itself |
| `AlwaysSavedAsShown` | `RecSpec => []SavedAsShown` | `RecInv`: `Recorded` below |
| `ReservedIsAlwaysHeld` | `RecSpec => []ReservedIsHeld` | `BudgetInv`: finitely many jobs hold something, and a purge under way touches only reservations of its own repository |
| `FilesAlwaysAccounted` | `RvSpec => []EveryFileAccounted` | `FilesOk /\ PackedOk`: the snapshot lists a file once; the packed diff accounts for all of it |
| `FindingsAlwaysOnShownLines` | `RvSpec => []FindingsOnShownLines` | the same and `FindingsShown`: accepted findings are in the changed diff |
| `MergingKeepsEveryFinding` | `RvSpec => []MergeKeepsEveryFinding` | `MergedOk`: the merged findings are what merging makes of the collected ones |

- `Recorded`: a push on its way has its summary fixed, and the
  hosted side has no row of a review or exactly those of its summary, so that a late copy of a
  push writes what is there already.
- `ReservedIsAlwaysHeld` is about a sum over any number of jobs: each reservation and release
  changes one summand and the counter by the same amount, and a second caller that found no
  reservation at its first statement is refused by the row the first one wrote.
- The three theorems about a review are about loops, so each rests on a loop invariant that is
  proved for every prefix of the input. `PackUpTo`: after the first k files each is
  packed or left out, what is packed and what remains add up to the budget, and a file
  refused for the budget needs more than what remains, now and later. `SplitUpTo` and
  `RenderUpTo`: a line the diff shows as new is numbered by its distance from the start
  of its hunk over lines of the new side, which is how the head numbers it. `ReadNumbers`: what is
  read back from a rendered hunk is its new-side numbers and what `Misread` names.
  `TakenOk`: the filter takes only findings inside a shown range. `MergeUpTo`: after the
  first k findings in merging order each is in a cluster, a cluster is of one file and category
  and has a finding on every line from its first to its last, and two clusters of one file and
  category are apart. The last part needs the order: a later finding starts no earlier
  (`LaterStartsLater`), so it can only join the cluster that reaches furthest.

`Pipeline_proofs`:

| Theorem | Statement | Inductive invariant |
|---|---|---|
| `WorkflowOnceInOrder` | `WfSpec => []StepsOnceInOrder` | `WfInv`: a call under way knows exactly the recorded steps and runs only one that is missing |
| `OutputOncePerKey`, `OutputStaysPrivate` | `OutSpec => []OncePerKey`, `[]PrivateStaysPrivate` | `OutInv`: posts and sends are counted from the moment they are on their way, and what is on its way passed the gate |
| `RetriesStayWithinLimits` | `CallSpec => []RetryWithinLimits` | `CallInv`: a loop sleeps only with an attempt left and as long as it was asked to, and comes out of its sleep no earlier |
| `AuditAlwaysMatches` | `CnSpec => []AuditMatchesAnswers` | `CnInv`: call by call, what was answered, what was raised, and that an effect was answered or its caller died |
| `AlwaysListedAsReviewed` | `AgSpec => []ListedAsReviewed` | `AgInv`: what the client was told is what the backend keeps |

`LocalStore_proofs`:

| Theorem | Statement | Inductive invariant |
|---|---|---|
| `VolumesOpen` | `VectorSpec => []KeptVolumeOpens` | `VectorInv`: a container that starts has a stored password |
| `RowsAlwaysHaveParents` | `RowSpec => []RowsHaveParents` | `RowInv` |
| `StoresStayWhole` | `StoreSpec => []StoreWholeRowsKept` | `DiskInv`: a migrating connection has every script before its own recorded in its file, whoever else migrates it; rows leave a `-wal` only into its file, or after the file lost its name (`WalInv`); `HostedInv`: uncommitted scripts follow on what is committed and their own |
| `ServiceAlwaysAsTold` | `LsSpec => []ServiceAsTold` | `LsInv`: who lost the pid file (`PidFileKept`), and one secret as long as none was replaced or deleted and starts found one store (`OneSecret`) |
| `IndexStaysWhole` | `RxSpec => []IndexAlwaysWhole` | `RxInv`: one uncommitted activation at a time, which has retired what is active |
| `ContextStaysOfTheCommit` | with `CandidateLimit <= 61`, `RxSpec => []ContextOfTheCommit` | `RxInv /\ QueryOk`: both rankings are of committed chunks of the query's commit and within the limit, though each statement may have seen another generation |

`IndexStaysWhole` also covers the arithmetic of the windows (`WindowsCover`): for every window
size, overlap and file length the first window that reaches the end is made, and so is every
one before it. That the row locks of `RetireActive` are not needed for it is a result of the
proof: the unique index alone keeps one generation active; the locks only save a run from
being rolled back.

`ContextStaysOfTheCommit` needs that a generation, once committed, keeps its commit and its
chunks whatever becomes of it, the loop invariant `FitOk` of the fitting (what was taken costs
no more than the budget gives), and the arithmetic of reciprocal ranks: of any two
places among the first 61, both together weigh more than a first place. The bound is sharp, since
two 62nd places weigh what one first place does. The code asks for 4 * 8 = 32 candidates by default.

`FoldInduction` holds the general lemmas on which the theorems about loops, sorts and sums rest;
they say nothing of the program by themselves. The
library's induction theorems take a predicate as a parameter, which the installed provers cannot
instantiate; here the induction hypothesis is a set (`SetInduction`, `UpTo`), and the operator of a
loop is a constant of the module that each `INSTANCE` gives a value (`Packing`, `Placing`, `Fitting`,
...). It proves:

| Theorem | Statement |
|---|---|
| `FoldUnrolls` | a fold is the last of a sequence of intermediate results, each the operator applied to the one before |
| `SortRearranges` | sorting by a strict weak order permutes a sequence, and nothing comes after what it goes before |
| `SumOfNone`, `SumWithOneMore` | a sum over a finite set, built up one element at a time in whatever order |

The assumptions on constants are type facts (limits are positive numbers, a null is no value of
its column, tables and scripts have distinct names) and hold of the program by its schema and
its literals; TLC evaluates them in the runs. Every inductive invariant is for any number of
jobs, daemons, runners, requests, copies, callers and processes.

Only model-checked: liveness under fairness (`PendingIsServed`, `RunningEnds`, `StartEnds`,
`SignInResolves`), which is out of the prover's reach. Every other property that a passing run
checks is also a theorem.

## 7 Findings

1. `daemon_lost_result`. `complete_job` is said to persist a finished result before it
   is lost (`runner/daemon.py:24`). A 401 or a 500 on the acknowledgement raises an
   exception it does not catch, and the result is stored nowhere.
2. `records_purge`. `docs/SECURITY.md:81` says that `uninstall_repository` deletes one
   repository. `purge_hosted_repository` deletes from four tables; rows of `review_findings`,
   `agent_events` and `model_calls`, which cannot be deleted, refer to its jobs, and rows of
   `repository_assignments` to its repository, so for a repository that was reviewed or is
   assigned the transaction raises and nothing is deleted.
3. `records_verified`. The docstring at `control_plane/review_projection.py:168` says that it
   was enforced, before a row was written, that a verified finding cites a real sandbox run.
   `project_review` takes no receipts by default and compares a finding with its receipt only when
   there is one, so a verified finding without a receipt is written, and shown, as verified without
   a run. `VerifiedMeansRan` states what does hold.

## 8 Observations

What was met while modelling and no run is kept for. The models contain the behaviour unless
it is said to be left out.

Queue, workers and daemon:

- `claim_review_job` takes rows of pull requests too, and the hosted worker completes them
  with its stub, although `worker/main.py:36` says that reviews do not run in this process.
- A job that exceeds the shutdown deadline is given back at once (`worker/main.py:87`) while
  its thread goes on; the message at `worker/main.py:158-160` says that its lease remains.
- A job that kills its process is claimed again without limit: only `fail_review_job` looks at
  the maximum (`tests/test_fault_injection.py:145` describes a dead job).
- The comment at `runner/daemon.py:24-27` rules out repeating a denied acknowledgement;
  `replay_pending_acknowledgements` repeats it under the same lease at every start.
- A failed renewal stops the job, and its early return is reported as a success
  (`worker/main.py:122`); the installed executor is a stub that ignores the stop event.
- All worker processes share the id `worker_python` (`worker/main.py:54,183`): a process whose lease
  ran out passes the ownership test of the one that claimed the row after it, and may renew, complete
  or fail it.
- A heartbeat answered 401 `unknown_credential`, after another process rotated the credential, reads as
  a lost lease (`runner/client.py:44-70`): `recover` abandons the job of a live lease, although the
  runner is not revoked.

Identity:

- A missing `hosted_origin` is found after the state row was inserted.
- An approval accepts a repository id given twice; the exchange then refuses the pairing,
  naming the runner it has just made itself.
- An exchange does not look at whether the installation was revoked meanwhile; the runner it
  makes is refused later, by `authorize_repository`.
- A redelivered "created" after a "deleted" installation makes it active again.

Terminal:

- A logout removes the snapshot file, so that another account does not see the old one's
  repositories (comment at `tui/app.py:597-599`); the snapshot in memory is kept and is looked at
  first, so an account paired without a restart sees them.
- A failed exchange leaves `_sign_in_started` set, so Sign in does nothing until a restart.
- A logout during the five seconds after pairing removes the connect screen that the timer
  then rebuilds.
- `reviewer logout` in a shell beside the open terminal removes the credential; the terminal is
  not told, and automatic review goes on.
- The terminal gives up after 300 seconds; the code it shows lives for ten minutes.

Records:

- A retried push with other findings keeps the first ones.
- A reservation committed between the first statement of a purge and its commit survives
  without a budget. A second reservation of a job after a release fails on the primary key.

Local store, calls and output:

- A process that stops between a migration script and its record (`local_store/sqlite.py:541-546`)
  makes the next opening fail, and the daemon sets a healthy store aside with the results in it.
- `reviewer trace` with a stale list of records runs a rebuilding script again under the daemon's
  open store.
- The store is in WAL mode (`local_store/sqlite.py:499`) and the quarantine renames the main file only
  (`runner/daemon.py:245-258`): rows committed to the `-wal` are in no named database afterwards, and
  the `-wal` of the store that takes its place has the same name.
- The hosted migration releases its advisory lock before it commits.
- `uninstall --delete-data --confirm-delete` passes no vector store: it deletes the password and
  leaves the volume (`local_store/postgres.py:12-13` describes the pair). A keyring that is out of
  reach at a start yields a new password.
- Foreign keys of the local store are declared and never enforced; rows a review writes after
  the purge of its repository have no job. The purge leaves `workflow_runs` and `workflow_steps`.
- `purge_expired_local`, `run_with_retry`, the circuit and `retry_provider_call` are called by
  tests only. The loop of `reliability/retry.py` caps a Retry-After that a server asked for at its
  longest delay.
- `reserve_job_budget` (`local_store/budget.py`, called by tests only, left out): a denial raises
  inside a transaction that stays open with the write lock, and what a process reserved stays in
  `local_job_budgets`, although `reliability/budget.py:7` says that it dies with the process.
- `repo_config` reads, changes and writes its file without a lock.
- A failed workflow outcome is kept under the job id and answers a later claim of the job.

Diff review, retrieval and agents:

- Which lines were shown is read back from the rendered text (`reviewer/review_pull_request.py:115`):
  an old line that starts with `NEW ` opens a new side, and a number at the start of a later old
  line counts as shown. A finding on it is kept.
- `recover_patch` returns the text of a file: unless the text itself has hunk headers, the recovered
  file has no lines to review and `covers_all_changed_files` is still true. A failed checkout is ignored.
- `normalize_file_status` raises for "copied", "changed" and "unchanged", and the whole review
  fails as an invalid request. Nothing sets `binary` or `truncated`.
- The pull request and its file pages are separate requests (`github/pull_request.py:204`), so
  a push in between gives files of another head.
- `change_size` does not count a removed line that starts with `--`.
- `out_of_tokens` (`docs/AGENT_CONTRACT.md:119`) is produced nowhere; usage errors of the command
  line exit with 2, which the contract gives to refusals.
- Two definitions of one name in a Python file make every index run of the tree fail. Code at
  module level is in no chunk.
- Of two racing index runs the older commit may win. A commit that is indexed again between the
  rankings of a query may give one chunk twice.
- Beyond 61 candidates per ranking (a query limit of 16 or more) rank fusion may put a chunk that one
  ranking found before one that both found.
- `retrieve_context`, `run_specialists` and the connectors have no caller in the package.

Service and connectors:

- A second `start` on a taken port overwrites the pid file and removes it when it fails: `stop`
  then says "not running" beside the first. A pid left by a kill may be signalled as another program.
- Two first starts each make a session secret; pages of the one whose secret was replaced are refused.
  So are the pages of a server that was restarted after `uninstall --delete-data --confirm-delete`, which
  deletes the secret, or that found another secret store than the one before it.
- A server that raises SIGTERM again after its shutdown, as newer versions of uvicorn do, skips the
  `finally` clause at `runner/cli/service.py:129` and leaves the pid file behind.
- `stop` tests for the pid file and then reads it; that it may be removed in between is left out.
- An exchange whose answer is lost has spent the code without a credential.
- A connection error or a malformed body passes the audit by; a failing audit insert loses the
  result of a call that took effect.
- An audit row has the status of the answer only inside a hash, so it does not tell a success
  from an HTTP error that came after the effect.

## 9 Not modelled, and what is left

Not modelled:

- *Sandboxed verification* builds a command for an external container runtime and reads its
  exit code; it keeps no state. Its outcome is an input of `ProjectReview`.
- *Circuit breaker* (`reliability/circuit.py`): nothing in the package opens, closes or asks it; an
  operator's page reads its state. *Local reservations* (`local_store/budget.py`): one conditional update
  that only tests call.
- The deletion of `local_state.sqlite3` by `uninstall` while a daemon has it open.
- *Evaluation harness*: offline computation of floating-point metrics over files.
- *Presentation*: widgets, themes, wording, argument parsing, the doctor, unit files, updates,
  read-only pages and traces.
- *Two API processes*: webhooks of one pull request whose transactions interleave. The code takes
  no lock, so the superseding of `enqueue_review_job` is not atomic between them.
- *Order of a pull request's events*: a webhook is any event at any time, which includes every
  order, but no property relates a row to GitHub's own state.
- The code graph, the repository profile and the reading order, which are computed once and
  shown.

What is left, most valuable first:

1. `Workflow` composed with `RunnerDaemon`, so that its heartbeats are the daemon's calls.
2. Two API processes with the transactions of `enqueue_review_job` as separate steps.
