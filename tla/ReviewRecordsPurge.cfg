SPECIFICATION RecordsSpec
CONSTANTS
    repo1 = repo1
    repo2 = repo2
    pushed1 = pushed1
    job1 = job1
    job2 = job2
    Repositories = {repo1, repo2}
    Pushed = {pushed1}
    Queued = {job1, job2}
    RepoOf <- MCRepoOf
    Callers = {b1, b2}
    Amounts = {1, 2}
    Limits = {0, 3}
    Outcomes <- MCOutcomes
    MaxChunks = 1
    MaxCopies = 2
    None = None
PROPERTIES UninstallDeletes
CHECK_DEADLOCK FALSE
