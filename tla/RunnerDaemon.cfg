SPECIFICATION MCSpec
CONSTANTS
    Deliveries = {d1, d2}
    Pulls = {p1, p2}
    Heads = {h1}
    repo1 = repo1
    Repos = {repo1}
    RepoOf <- MCRepoOf
    Workers = {w1}
    Runners = {r1}
    Tokens = {t1, t2}
    None = None
    MaxAttempts = 1
    LeaseTicks = 1
    RetryTicks = 1
    MaxInflight = 1
    Outcomes = {"succeeded"}
SYMMETRY Symmetric
INVARIANTS
    OwnResultOnly
    ReviewHoldsLease
    RevokedReviewsNothing
PROPERTIES
    AbandonsOnlyLost
