SPECIFICATION Spec
CONSTANTS
    Deliveries = {d1, d2}
    Pulls = {p1}
    Heads = {h1, h2}
    repo1 = repo1
    Repos = {repo1}
    RepoOf <- MCRepoOf
    Workers = {w1}
    Runners = {r1, r2}
    Tokens = {t1, t2}
    None = None
    MaxAttempts = 1
    LeaseTicks = 1
    RetryTicks = 1
    MaxInflight = 1
SYMMETRY Symmetric
INVARIANTS
    StaleLeaseIsDead
    OkMeansLanded
    OneResultPerJob
    OneActiveUnlessRequeued
PROPERTIES
    KeepsThePromise
