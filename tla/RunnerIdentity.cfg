SPECIFICATION IdSpec
CONSTANTS
    i1 = i1  g1 = g1  u1 = u1  u2 = u2
    Users = {u1, u2}
    Installations = {i1}
    Repos = {g1, g2}
    Controls <- MCControls
    Covers <- MCCovers
    Codes = {c1, c2}
    States = {s1}
    Runners = {n1, n2}
    Requests = {q1, q2}
    MaxCredential = 3
    Ttl = 1
    None = None
SYMMETRY MCSymmetry
CONSTRAINT MCBound
INVARIANTS AssignmentsBacked OneRunnerPerCode LateRequestMintsNothing CredentialLineage
PROPERTIES CallbackInItsOwnBrowser ApprovalIsFinal
