SPECIFICATION TermFairSpec
CONSTANTS
    Accounts = {a1, a2}
    Codes = {c1, c2, c3}
    PullRequests = {p1}
    Heads = {h1, h2}
    MaxPolls = 2
    None = None
 
PROPERTIES AttemptNotAbandoned SignInResolves
