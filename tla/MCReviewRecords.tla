-------------------------- MODULE MCReviewRecords --------------------------
(***************************************************************************)
(* The reviews' rows and the budgets meet only in the purge: one half of   *)
(* the behaviours moves the former, the other half the latter, and both    *)
(* assign, revoke and purge repositories.  The findings and events of one  *)
(* of the two queued jobs are recorded; both compete for the budget.       *)
(***************************************************************************)
EXTENDS ReviewRecords, TLC

CONSTANTS repo1, repo2, pushed1, job1, job2

VARIABLE focus

\* Two queued jobs share a budget; the pushed review is a sibling's.
MCRepoOf == (job1 :> repo1) @@ (job2 :> repo1) @@ (pushed1 :> repo2)
MCOutcomes ==
    [status : {"completed", "stopped_early"}, findings : {<<>>, <<"low", "high">>}]

RecordsInit == RecInit /\ focus \in {"rows", "budgets"}

RecordsNext ==
    /\ \/ /\ focus = "rows"
          /\ \/ \E j \in Pushed : PanelStep(j) \/ PushStep(j)
             \/ PushFails \/ MountDashboard \/ BackToTable
             \/ ProjectionStep(job1)
       \/ focus = "budgets" /\ BudgetStep
       \/ RepositoryStep
    /\ UNCHANGED focus

recordsVars == <<recVars, focus>>

RecordsSpec == RecordsInit /\ [][RecordsNext]_recordsVars
=============================================================================
