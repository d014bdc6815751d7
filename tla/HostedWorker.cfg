SPECIFICATION WFairSpec
CONSTANTS
    Processes = {a, b}
    WorkerId <- SharedId
    Deliveries = {d1, d2}
    Pulls = {p1}
    Heads = {h1}
    repo1 = repo1
    Repos = {repo1}
    RepoOf <- MCRepoOf
    worker_python = worker_python
    Workers = {worker_python}
    Runners = {}
    Tokens = {}
    None = None
    MaxAttempts = 1
    LeaseTicks = 1
    RetryTicks = 1
    MaxInflight = 0
INVARIANTS
    ExclusiveWhileBusy
PROPERTIES
    RunningEnds
