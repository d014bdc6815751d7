SPECIFICATION FairSpec
CONSTANTS
    Deliveries = {d1, d2}
    Pulls = {p1}
    Heads = {h1}
    repo1 = repo1
    Repos = {repo1}
    RepoOf <- MCRepoOf
    Workers = {w1}
    Runners = {r1}
    Tokens = {t1}
    None = None
    MaxAttempts = 2
    LeaseTicks = 1
    RetryTicks = 1
    MaxInflight = 1
PROPERTIES
    PendingIsServed
