SPECIFICATION MCSpec
CONSTANTS
    StepNames <- MCStepNames
    WfHeads = {h1, h2}
    NoRun = NoRun
    MaxInterruptions = 2
    OutHeads = {h1, h2}
    OutChannels = {c1, c2}
    RestrictedChannels = {c1}
    MaxTries = 3
    MaxAttempts = 3
    MaxElapsed = 4
    MaxDelay = 2
    MaxClock = 7
    Files = {f1, f2}
    Migrations <- MCMigrations
    Rerunnable = {"human_feedback_hashes"}
    Rows = {w1}
    Nothing = Nothing
    JobIds <- MCJobIds
    JobTables = {"findings", "events"}
    Changes <- MCChanges
    NoPatch = NoPatch
    Texts <- MCTexts
    Policies <- MCPolicies
    Drafts <- MCDrafts
    Reports <- MCReports
    MaxDrafts = 1
    MaxReturned = 2
    MaxReported = 1
    Answering = {{"security", "tests"}, {"security", "tests", "docs"}}
    MaxReviews = 2
    SurfaceFindings = {f1}
    Indexers = {i1, i2}
    Trees <- MCTrees
    Excluded = {"gen"}
    WindowSize = 3
    WindowOverlap = 1
    MaxGenerations = 3
    QueryLimit = 2
    QueryBudget = 4
    CandidateMultiplier = 1
    ConnectorCallers = {k1, k2}
    Starters = {"s1", "s2", "s3"}
    Tabs = {"t1", "t2"}
    SecretStores = {"keyring", "file"}
    MaxSecrets = 2
    MaxSessions = 2
    Nobody = Nobody
    Torn = Torn
INVARIANTS AuditMatchesAnswers IndexAlwaysWhole ContextOfTheCommit ListedAsReviewed EveryFileAccounted FindingsOnShownLines MergeKeepsEveryFinding
           StepsOnceInOrder OncePerKey PrivateStaysPrivate RetryWithinLimits
           StoreWholeRowsKept KeptVolumeOpens RowsHaveParents ServiceAsTold
SYMMETRY MCSymmetry
CHECK_DEADLOCK FALSE
