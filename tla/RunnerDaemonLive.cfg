SPECIFICATION DFairSpec
CONSTANTS
    Deliveries = {d1}
    Pulls = {p1}
    Heads = {h1}
    repo1 = repo1
    Repos = {repo1}
    RepoOf <- MCRepoOf
    Workers = {}
    Runners = {r1}
    Tokens = {t1, t2}
    None = None
    MaxAttempts = 1
    LeaseTicks = 1
    RetryTicks = 1
    MaxInflight = 1
    Outcomes = {"failed"}
PROPERTIES
    StartEnds
