--------------------------- MODULE ReviewRecords ---------------------------
(***************************************************************************)
(* The records of a review after it is done.  The terminal streams the     *)
(* agents' reasoning into its log, pushes the finished summary to the      *)
(* hosted plane (tui/screens/review.py, tui/push_review_summary.py,        *)
(* control_plane/review_projection.py) and lists what was accepted         *)
(* (local_store/review_log.py, tui/review_dashboard.py).  A queued job's   *)
(* findings are projected with their receipts (reviewer/receipt.py), its   *)
(* spending is reserved (control_plane/budget.py), its events are          *)
(* recorded, and a repository is purged (control_plane/retention.py).      *)
(*                                                                         *)
(* Requests may be delayed past the client's patience and their answers    *)
(* lost; a retry is a second copy of the same request.  Authorizing a push *)
(* and saving it are two transactions, and so are the check for a held     *)
(* reservation and the update that follows it, when two callers race.  An  *)
(* amount stands for tokens and cost alike.                                *)
(***************************************************************************)
EXTENDS Integers, FiniteSets, FiniteSetsExt, Sequences, SequencesExt

CONSTANTS Repositories, Pushed, Queued, RepoOf, Callers, Amounts, Limits, Outcomes,
          MaxChunks, MaxCopies, None

Reviews == Pushed \union Queued

ASSUME RecordsAssumption ==
    /\ RepoOf \in [Reviews -> Repositories]
    /\ Pushed \intersect Queued = {}
    /\ Amounts \subseteq Nat \ {0} /\ Limits \subseteq Nat
    /\ MaxChunks \in Nat \ {0} /\ MaxCopies \in Nat \ {0}
    /\ None \notin Outcomes \union {"run"}
    /\ None \notin [status : {"held"}, amount : Nat] \union [limit : Nat, reserved : Nat]
    /\ \A o \in Outcomes :
          /\ o.status # None
          /\ o.findings \in Seq({"info", "low", "medium", "high", "critical"})

VARIABLES
    \* Hosted tables.
    repositories, assigned, jobs, findings, events, budgets, reservations,
    \* Transactions under way: reservations past their first read, a purge, and
    \* the copies of a push that were authorized and not yet saved.
    asking, purge, authorized,
    \* Copies of a push on their way, and the client waiting for an answer.
    wire, waiting,
    \* The terminal: its panels, its reasoning log, the summaries it logged, and the
    \* dashboard, which keeps the summaries it was mounted with.
    panel, entries, outcome, listed, dashboard, selected,
    \* Repositories a purge has been committed for (history).
    purged

screenVars == <<dashboard, selected>>
terminalVars == <<panel, entries, outcome, listed, waiting, screenVars>>
pushVars == <<wire, authorized>>
rowVars == <<jobs, findings, events>>
repositoryVars == <<repositories, assigned>>
budgetVars == <<budgets, reservations, asking>>
purgeVars == <<purge, purged>>

recVars == <<terminalVars, pushVars, rowVars, repositoryVars, budgetVars, purgeVars>>

Closed == [phase |-> "closed", pending |-> 0, streaming |-> FALSE]

-----------------------------------------------------------------------------
\* The review panel and its log.

OpenPanel(j) ==
    /\ panel[j].phase = "closed"
    /\ panel' = [panel EXCEPT ![j].phase = "diffs"]
    /\ UNCHANGED <<entries, outcome, listed, waiting, screenVars, pushVars, rowVars, repositoryVars,
                   budgetVars, purgeVars>>

\* "Continue to agents" is offered in the first phase only.
StartAgentReasoning(j) ==
    /\ panel[j].phase = "diffs"
    /\ \E n \in 1..MaxChunks :
           panel' = [panel EXCEPT ![j] = [phase |-> "agents", pending |-> n, streaming |-> TRUE]]
    /\ UNCHANGED <<entries, outcome, listed, waiting, screenVars, pushVars, rowVars, repositoryVars,
                   budgetVars, purgeVars>>

\* The log numbers a review's entries from one.
AppendReasoning(j) == entries' = [entries EXCEPT ![j] = Append(@, Len(@) + 1)]

\* One tick of the timer: a chunk is shown and logged, or the timer stops.
DeliverNextReasoningChunk(j) ==
    /\ panel[j].streaming
    /\ IF panel[j].pending = 0
       THEN panel' = [panel EXCEPT ![j].streaming = FALSE] /\ UNCHANGED entries
       ELSE /\ panel' = [panel EXCEPT ![j].pending = @ - 1]
            /\ AppendReasoning(j)
    /\ UNCHANGED <<outcome, listed, waiting, screenVars, pushVars, rowVars, repositoryVars, budgetVars,
                   purgeVars>>

\* The provider ran out of tokens: the timer stops and its chunks stay undelivered.
ShowOutOfTokens(j) ==
    /\ panel[j].phase = "agents" /\ panel[j].streaming
    /\ panel' = [panel EXCEPT ![j].streaming = FALSE]
    /\ UNCHANGED <<entries, outcome, listed, waiting, screenVars, pushVars, rowVars, repositoryVars,
                   budgetVars, purgeVars>>

-----------------------------------------------------------------------------
\* Pushing the summary.

\* The first push fixes the summary; a retry sends the same one.
CompleteReview(j) ==
    /\ panel[j].phase = "agents" /\ ~panel[j].streaming
    /\ waiting = None
    /\ wire[j] + authorized[j] < MaxCopies
    /\ \E o \in IF outcome[j] = None THEN Outcomes ELSE {outcome[j]} :
           /\ o.status = "stopped_early" <=> panel[j].pending > 0
           /\ outcome' = [outcome EXCEPT ![j] = o]
    /\ waiting' = j
    /\ wire' = [wire EXCEPT ![j] = @ + 1]
    /\ UNCHANGED <<panel, entries, listed, screenVars, authorized, rowVars, repositoryVars, budgetVars,
                   purgeVars>>

BuildSummaryPayload(j) ==
    [status |-> outcome[j].status, stopped_early |-> outcome[j].status = "stopped_early",
     findings |-> outcome[j].findings]

\* A body whose flag and status disagree is refused.
ValidBody(body) == body.stopped_early <=> body.status = "stopped_early"

\* The client gives up on an answer: a warning, nothing listed, and the request may
\* still be under way.
PushFails ==
    /\ waiting # None
    /\ waiting' = None
    /\ UNCHANGED <<panel, entries, outcome, listed, screenVars, pushVars, rowVars, repositoryVars,
                   budgetVars, purgeVars>>

Authorized(r) == r \in repositories /\ r \in assigned

\* The first transaction of the route. A refusal answers the client, if it waits.
AuthorizePush(j) ==
    /\ wire[j] > 0
    /\ wire' = [wire EXCEPT ![j] = @ - 1]
    /\ IF ValidBody(BuildSummaryPayload(j)) /\ Authorized(RepoOf[j])
       THEN authorized' = [authorized EXCEPT ![j] = @ + 1] /\ UNCHANGED waiting
       ELSE waiting' = (IF waiting = j THEN None ELSE waiting) /\ UNCHANGED authorized
    /\ UNCHANGED <<panel, entries, outcome, listed, screenVars, rowVars, repositoryVars, budgetVars,
                   purgeVars>>

Row(id, j, severity, verified, run, receipt) ==
    [id |-> id, job |-> j, severity |-> severity, verified |-> verified, run |-> run,
     receipt |-> receipt]

\* Insert ... on conflict do nothing.
InsertNew(rows) ==
    findings \union {row \in rows : \A old \in findings : old.id # row.id}

\* Rows numbered after the ones already there, as an identity column would.
FindingIdFault(j, i) == <<j, i + Cardinality({row \in findings : row.job = j})>>

FindingId(j, i) == <<j, i>>

PushedRows(j) ==
    LET pushed == BuildSummaryPayload(j).findings
    IN {Row(FindingId(j, i), j, pushed[i], FALSE, None, FALSE) : i \in DOMAIN pushed}

\* The log keeps one summary per review.
AppendReviewSummary(j) == listed' = listed \union {j}

\* The second transaction, and its answer when the client still waits for it.
SavePush(j, answered) ==
    /\ authorized[j] > 0
    /\ authorized' = [authorized EXCEPT ![j] = @ - 1]
    /\ jobs' = [jobs EXCEPT ![j] = BuildSummaryPayload(j).status]
    /\ findings' = InsertNew(PushedRows(j))
    /\ IF answered
       THEN /\ waiting = j
            /\ waiting' = None
            /\ AppendReviewSummary(j)
       ELSE UNCHANGED <<waiting, listed>>
    /\ UNCHANGED <<panel, entries, outcome, screenVars, wire, events, repositoryVars, budgetVars, purgeVars>>

-----------------------------------------------------------------------------
\* The reviews screen.

MountDashboard ==
    /\ dashboard' = listed
    /\ selected' = None
    /\ UNCHANGED <<panel, entries, outcome, listed, waiting, pushVars, rowVars, repositoryVars,
                   budgetVars, purgeVars>>

\* A row opens its review; the button, or the back key, closes it.
SelectReview(j) ==
    /\ j \in dashboard
    /\ selected' = j
    /\ UNCHANGED <<panel, entries, outcome, listed, waiting, dashboard, pushVars, rowVars,
                   repositoryVars, budgetVars, purgeVars>>

BackToTable ==
    /\ selected # None
    /\ selected' = None
    /\ UNCHANGED <<panel, entries, outcome, listed, waiting, dashboard, pushVars, rowVars,
                   repositoryVars, budgetVars, purgeVars>>

-----------------------------------------------------------------------------
\* A queued job: its projection and its events.

\* A receipt exists only when the finding's claim and the cited evidence agree.
BuildFindingReceipt(verified, method, evidence) ==
    /\ verified => method = "sandbox" /\ evidence = "sandbox"
    /\ ~verified => evidence = "asserted"

\* The projection without the comparison of the two flags.
FlagsAgreeFault(verified, receiptVerified) == TRUE

FlagsAgree(verified, receiptVerified) == verified = receiptVerified

\* One finding of a job, with its receipt or with none. The caller built the receipt
\* from the finding as the review left it; the finding's own flag may have changed
\* since. Without a receipt the flag is written as it is. A second projection fails on
\* the primary key and changes nothing.
ProjectReview(j, built, verified, method, evidence) ==
    /\ jobs[j] # None
    /\ evidence # "none" =>
          /\ BuildFindingReceipt(built, method, evidence)
          /\ FlagsAgree(verified, evidence = "sandbox")
    /\ \A row \in findings : row.job # j
    /\ findings' = findings \union
           {Row(<<j, 1>>, j, "high", verified, IF evidence = "sandbox" THEN "run" ELSE None,
                evidence # "none")}
    /\ UNCHANGED <<terminalVars, pushVars, jobs, events, repositoryVars, budgetVars, purgeVars>>

RecordEvent(j) ==
    /\ jobs[j] # None
    /\ events' = events \union {<<j, "event">>}
    /\ UNCHANGED <<terminalVars, pushVars, jobs, findings, repositoryVars, budgetVars, purgeVars>>

\* The call and its event are one transaction.
RecordModelCall(j) ==
    /\ jobs[j] # None
    /\ events' = events \union {<<j, "call">>, <<j, "event">>}
    /\ UNCHANGED <<terminalVars, pushVars, jobs, findings, repositoryVars, budgetVars, purgeVars>>

-----------------------------------------------------------------------------
\* Budgets.

UpsertRepositoryBudget(r, limit) ==
    /\ budgets' = [budgets EXCEPT ![r] =
           IF @ = None THEN [limit |-> limit, reserved |-> 0] ELSE [@ EXCEPT !.limit = limit]]
    /\ UNCHANGED <<terminalVars, pushVars, rowVars, repositoryVars, reservations, asking,
                   purgeVars>>

Held(j) == reservations[j] # None /\ reservations[j].status = "held"

\* The first statement: a held reservation ends the call.
ReserveSelect(c, j) ==
    /\ asking[c] = None
    /\ ~Held(j)
    /\ asking' = [asking EXCEPT ![c] = j]
    /\ UNCHANGED <<terminalVars, pushVars, rowVars, repositoryVars, budgets, reservations,
                   purgeVars>>

HasRoom(r, amount) ==
    /\ budgets[r] # None
    /\ budgets[r].limit > 0
    /\ budgets[r].reserved + amount <= budgets[r].limit

\* A reservation that overwrites the row of a job instead of failing on its key.
KeyTakenFault(j) == FALSE

KeyTaken(j) == reservations[j] # None

\* The conditional update, which locks the budget's row until the insert commits. No
\* room denies; a row of the same job fails the insert and rolls the update back.
ReserveWrite(c, amount) ==
    /\ asking[c] # None
    /\ asking' = [asking EXCEPT ![c] = None]
    /\ LET j == asking[c]
           r == RepoOf[j]
       IN IF HasRoom(r, amount) /\ ~KeyTaken(j)
          THEN /\ budgets' = [budgets EXCEPT ![r].reserved = @ + amount]
               /\ reservations' = [reservations EXCEPT ![j] =
                      [status |-> "held", amount |-> amount]]
          ELSE UNCHANGED <<budgets, reservations>>
    /\ UNCHANGED <<terminalVars, pushVars, rowVars, repositoryVars, purgeVars>>

\* Waits for a purge that is deleting the row. The check reserved >= 0 rolls the
\* release back when the budget was made anew after a purge.
ReleaseRepositoryReservation(j) ==
    /\ Held(j)
    /\ purge # None => j \notin purge.doomed
    /\ LET r == RepoOf[j]
       IN /\ budgets[r] # None => budgets[r].reserved >= reservations[j].amount
          /\ budgets' = [budgets EXCEPT ![r] =
                 IF @ = None THEN None
                 ELSE [limit |-> @.limit, reserved |-> @.reserved - reservations[j].amount]]
    /\ reservations' = [reservations EXCEPT ![j].status = "released"]
    /\ UNCHANGED <<terminalVars, pushVars, rowVars, repositoryVars, asking, purgeVars>>

-----------------------------------------------------------------------------
\* Repositories come and go.

\* Pairing assigns a registered repository; revoking the runner unassigns it.
AssignRepository(r) ==
    /\ repositories' = repositories \union {r}
    /\ assigned' = assigned \union {r}
    /\ UNCHANGED <<terminalVars, pushVars, rowVars, budgetVars, purgeVars>>

UnassignRepository(r) ==
    /\ r \in assigned
    /\ assigned' = assigned \ {r}
    /\ UNCHANGED <<terminalVars, pushVars, rowVars, repositories, budgetVars, purgeVars>>

\* The first statement deletes the reservations that are visible to it.
PurgeHostedRepository(r) ==
    /\ purge = None
    /\ purge' = [repository |-> r,
                 doomed |-> {j \in Reviews : reservations[j] # None /\ RepoOf[j] = r}]
    /\ UNCHANGED <<terminalVars, pushVars, rowVars, repositoryVars, budgetVars, purged>>

\* A sweep past its deadline raises instead.
UninstallRepository(r) == PurgeHostedRepository(r)

JobsOf(r) == {j \in Reviews : jobs[j] # None /\ RepoOf[j] = r}

\* The foreign keys that refuse the purge's deletes: findings, events and model calls
\* of its jobs, and the assignments of the repository.
Referenced(r) ==
    \/ \E j \in JobsOf(r) : (\E e \in events : e[1] = j) \/ \E row \in findings : row.job = j
    \/ r \in assigned

\* The other statements and the commit, or the error that rolls all of it back.
PurgeEnds ==
    /\ purge # None
    /\ purge' = None
    /\ LET r == purge.repository
       IN IF Referenced(r)
          THEN UNCHANGED <<jobs, budgets, reservations, repositories, purged>>
          ELSE /\ reservations' = [j \in Reviews |->
                      IF j \in purge.doomed THEN None ELSE reservations[j]]
               /\ jobs' = [j \in Reviews |-> IF j \in JobsOf(r) THEN None ELSE jobs[j]]
               /\ budgets' = [budgets EXCEPT ![r] = None]
               /\ repositories' = repositories \ {r}
               /\ purged' = purged \union {r}
    /\ UNCHANGED <<terminalVars, pushVars, findings, events, assigned, asking>>

-----------------------------------------------------------------------------
RecInit ==
    /\ repositories = Repositories /\ assigned = {}
    /\ jobs = [j \in Reviews |-> IF j \in Queued THEN "running" ELSE None]
    /\ findings = {} /\ events = {}
    /\ budgets = [r \in Repositories |-> None]
    /\ reservations = [j \in Reviews |-> None]
    /\ asking = [c \in Callers |-> None]
    /\ purge = None /\ purged = {}
    /\ wire = [j \in Pushed |-> 0] /\ authorized = [j \in Pushed |-> 0]
    /\ waiting = None
    /\ panel = [j \in Pushed |-> Closed] /\ entries = [j \in Pushed |-> <<>>]
    /\ outcome = [j \in Pushed |-> None] /\ listed = {}
    /\ dashboard = {} /\ selected = None

PanelStep(j) ==
    \/ OpenPanel(j) \/ StartAgentReasoning(j) \/ DeliverNextReasoningChunk(j) \/ ShowOutOfTokens(j)
    \/ SelectReview(j)

PushStep(j) ==
    \/ CompleteReview(j) \/ AuthorizePush(j)
    \/ \E answered \in BOOLEAN : SavePush(j, answered)

ProjectionStep(j) ==
    \/ RecordEvent(j) \/ RecordModelCall(j)
    \/ \E built, verified \in BOOLEAN, method \in {"sandbox", "static"},
          evidence \in {"sandbox", "asserted", "none"} :
              ProjectReview(j, built, verified, method, evidence)

BudgetStep ==
    \/ \E r \in Repositories, limit \in Limits : UpsertRepositoryBudget(r, limit)
    \/ \E c \in Callers, j \in Queued : ReserveSelect(c, j)
    \/ \E c \in Callers, amount \in Amounts : ReserveWrite(c, amount)
    \/ \E j \in Queued : ReleaseRepositoryReservation(j)

RepositoryStep ==
    \/ \E r \in Repositories :
           AssignRepository(r) \/ UnassignRepository(r) \/ UninstallRepository(r)
    \/ PurgeEnds

RecNext ==
    \/ \E j \in Pushed : PanelStep(j) \/ PushStep(j)
    \/ PushFails \/ MountDashboard \/ BackToTable
    \/ \E j \in Queued : ProjectionStep(j)
    \/ BudgetStep \/ RepositoryStep

RecSpec == RecInit /\ [][RecNext]_recVars

-----------------------------------------------------------------------------
\* What the two dashboards show.

Severities == <<"info", "low", "medium", "high", "critical">>

Rank(severity) == CHOOSE n \in 1..Len(Severities) : Severities[n] = severity

\* None stands for a review without findings.
WorstSeverity(severities) ==
    IF severities = {} THEN None
    ELSE CHOOSE s \in severities : \A t \in severities : Rank(t) <= Rank(s)

\* What a row of either table says, and whether it explains an early stop.
Summary(status, rows) ==
    [status |-> status, stopped |-> status = "stopped_early", count |-> Cardinality(rows),
     worst |-> WorstSeverity({row[2] : row \in rows})]

FindingSummary(row) == <<row.id, row.severity>>

ReviewSummaryForJob(j) ==
    Summary(jobs[j], {FindingSummary(row) : row \in {f \in findings : f.job = j}})

\* The hosted page of one review, for a viewer granted these repositories.
ReviewById(granted, j) ==
    IF jobs[j] = None \/ RepoOf[j] \notin granted THEN None ELSE ReviewSummaryForJob(j)

\* The hosted reviews of one repository, None for one the viewer is not granted.
ReviewsForRepository(granted, r) ==
    IF r \notin granted THEN None
    ELSE [j \in JobsOf(r) |-> ReviewSummaryForJob(j)]

\* The hosted dashboard without a repository named.
ListReviews(granted) == [r \in granted |-> ReviewsForRepository(granted, r)]

ReviewFromPayload(j) ==
    Summary(outcome[j].status,
            {<<i, outcome[j].findings[i]>> : i \in DOMAIN outcome[j].findings})

\* The terminal's table: the summaries of its log, under the repositories it knows.
DashboardRepositoriesFromLog(known) ==
    [r \in known |-> [j \in {i \in dashboard : RepoOf[i] = r} |-> ReviewFromPayload(j)]]

\* Every review in the terminal's table, and the one it has open, is on the hosted
\* page with the same status, as many findings and the same worst severity, however
\* often its push was retried, delayed past its retry or answered late; only a purge
\* takes it from the page.
SavedAsShown ==
    \A r \in Repositories \ purged :
        LET terminal == DashboardRepositoriesFromLog(Repositories)[r]
            hosted == ListReviews(Repositories)[r]
        IN /\ \A j \in DOMAIN terminal : j \in DOMAIN hosted /\ hosted[j] = terminal[j]
           /\ \A j \in {selected} \intersect DOMAIN terminal :
                  ReviewById({r}, j) = terminal[j]

\* A finding that cites a sandbox run is shown as verified, and one shown as verified
\* cites a run, also when its flag changed after its receipt was built. The exception
\* is a job's finding projected without a receipt; a pushed finding is none.
VerifiedMeansRan ==
    \A row \in findings :
        /\ row.run # None => row.verified
        /\ row.verified => row.run # None \/ (row.job \in Queued /\ ~row.receipt)

\* Every finding shown as verified cites a sandbox run.
VerifiedCitesRun == \A row \in findings : row.verified => row.run # None

\* What a budget counts as reserved is what its jobs hold, after any interleaving of
\* reservations, releases and purges of other repositories, and reservations of one
\* job by two callers are counted once.
ReservedIsHeld ==
    \A r \in Repositories \ purged :
        LET held == {j \in Reviews : Held(j) /\ RepoOf[j] = r}
        IN SumFunction([j \in held |-> reservations[j].amount])
               = IF budgets[r] = None THEN 0 ELSE budgets[r].reserved

\* A purge that runs deletes its repository.
UninstallDeletes ==
    [][(purge # None /\ purge' = None) => purge.repository \notin repositories']_recVars
=============================================================================
