--------------------------- MODULE RunnerIdentity ---------------------------
(***************************************************************************)
(* The hosted side of who may act for whom: GitHub sign-in with its state  *)
(* rows and cookies, installation webhooks, pairing codes, the runners and *)
(* repository assignments an exchange creates, credential rotation, and    *)
(* the requests for GitHub tokens.                                         *)
(*                                                                         *)
(* Every transaction of the control plane is one action.  A handler that   *)
(* leaves the database between two transactions (the sign-in callback, the *)
(* credential rotation, the two token routes) is several actions, so what  *)
(* it read first may be stale when it goes on.  A refusal that writes      *)
(* nothing is no step.                                                     *)
(***************************************************************************)
EXTENDS Naturals, FiniteSets

CONSTANTS
    Users,          \* GitHub users, each with a browser and its cookies
    Installations,  \* GitHub App installations
    Repos,          \* GitHub repository ids
    Controls,       \* [Users -> SUBSET Installations]: GET /user/installations
    Covers,         \* [Installations -> SUBSET Repos]: what GitHub lists in each
    Codes,          \* pairing codes the hosted side may issue
    States,         \* OAuth states the hosted side may issue
    Runners,        \* runner rows
    Requests,       \* concurrent authenticated requests of runners
    MaxCredential,  \* bound: credentials one runner may have had
    Ttl,            \* ticks a code, a state and a sign-in cookie live (10 minutes)
    None            \* no value: a null column, a missing cookie, a free slot

\* A repositories row is unique per (installation_id, github_repository_id).
Repositories == {ir \in Installations \X Repos : ir[2] \in Covers[ir[1]]}

\* The rows, cookies and requests, as the transactions write them.
Grant == [user : Users, installation : Installations, repos : SUBSET Repositories]
CodeRow == [age : Nat, grant : Grant \union {None}, exchanged : BOOLEAN]
StateRow == [age : Nat, code : Codes \union {None}, by : Users]
SignInCookie == [age : Nat]
Callback == [code : Codes \union {None}]
RunnerRow == [user : Users, installation : Installations, revoked : BOOLEAN,
              credential : Nat \ {0}, presented : SUBSET Nat, code : Codes]
Request == [kind : {"rotate", "installation", "job", "mint"}, runner : Runners,
            credential : Nat \ {0}, repos : SUBSET Repositories,
            installation : Installations, late : BOOLEAN]

\* A null is none of the values a column or a slot can hold.
ASSUME IdentityAssumption ==
    /\ Controls \in [Users -> SUBSET Installations]
    /\ Covers \in [Installations -> SUBSET Repos]
    /\ MaxCredential \in Nat \ {0}
    /\ Ttl \in Nat \ {0}
    /\ None \notin States /\ None \notin Runners
    /\ None \notin Grant /\ None \notin CodeRow /\ None \notin StateRow
    /\ None \notin Callback /\ None \notin RunnerRow /\ None \notin Request

VARIABLES
    installations,  \* installation -> "unknown", "active" or "revoked"
    repositories,   \* the registered repositories
    codes,          \* pairing_codes
    states,         \* oauth_states
    binding,        \* user -> the state the browser's gh_oauth_binding cookie belongs to
    signIn,         \* user -> the browser's gh_live_sign_in cookie: its age
    callback,       \* user -> the browser's callback between its two halves
    runners,        \* runners
    assignments,    \* repository -> its runner (repository_assignments)
    lease,          \* runner -> the repository of the job it holds a lease on
    requests        \* requests of runners between two of their transactions

idVars == <<installations, repositories, codes, states, binding, signIn, callback,
            runners, assignments, lease, requests>>

policyVars == <<installations, repositories>>
signInVars == <<states, binding, signIn, callback>>
runnerVars == <<runners, assignments, lease>>

Fresh(row) == row # None /\ row.age < Ttl

-----------------------------------------------------------------------------
\* GitHub's installation webhooks. GitHub redelivers them and does not order
\* them, so any action may arrive at any time.

RegisterInstallation(i) ==
    installations' = [installations EXCEPT ![i] = "active"]

\* Requests that began while i was revoked are no longer late once it is back.
Pardon(i) ==
    requests' = [q \in Requests |->
        IF requests[q] # None /\ requests[q].installation = i
        THEN [requests[q] EXCEPT !.late = @ /\ runners[requests[q].runner].revoked]
        ELSE requests[q]]

RegisterRepositories(rs) == repositories' = repositories \union rs

\* What GitHub lists for the installation, page by page.
ListInstallationRepositories(i) == {ir \in Repositories : ir[1] = i}

\* The listing may fail; then nothing is registered.
SyncRepositories(i, listed) ==
    RegisterRepositories(IF listed THEN ListInstallationRepositories(i) ELSE {})

\* created, unsuspend, new_permissions_accepted: the registration commits, then
\* GitHub is asked for the repositories, and that call may fail.
HandleInstallationRegistered(i, listed) ==
    /\ RegisterInstallation(i)
    /\ SyncRepositories(i, listed)
    /\ Pardon(i)
    /\ UNCHANGED <<codes, signInVars, runnerVars>>

\* deleted, suspend: assignments and runners stay as they are.
HandleInstallationRevoked(i) ==
    /\ installations[i] = "active"
    /\ installations' = [installations EXCEPT ![i] = "revoked"]
    /\ UNCHANGED <<repositories, codes, signInVars, runnerVars, requests>>

HandleInstallationRepositories(ir) ==
    /\ installations[ir[1]] # "unknown"     \* the foreign key
    /\ RegisterRepositories({ir})
    /\ UNCHANGED <<installations, codes, signInVars, runnerVars, requests>>

-----------------------------------------------------------------------------
\* Sign-in with GitHub.

\* The link the terminal shows carries its pairing code; a plain web sign-in none.
\* Every lookup passes over a consumed or expired row, so such a row is none here,
\* and a cookie that still holds the secret of an earlier state matches nothing.
BeginSignIn(u, s, c) ==
    /\ states[s] = None
    /\ states' = [states EXCEPT ![s] = [age |-> 0, code |-> c, by |-> u]]

\* The redirect to GitHub sets the cookie that binds the state to the browser.
BeginSignInRoute(u, s, c) ==
    /\ BeginSignIn(u, s, c)
    /\ binding' = [x \in Users |-> CASE x = u -> s [] x # u /\ binding[x] = s -> None
                                      [] OTHER -> binding[x]]
    /\ UNCHANGED <<policyVars, codes, signIn, callback, runnerVars, requests>>

StateMatchesFault(u, s) == Fresh(states[s])

StateMatches(u, s) == Fresh(states[s]) /\ binding[u] = s

\* The first half of the callback: the state is spent before GitHub is asked
\* who is signing in.
CompleteSignIn(u, s) ==
    /\ callback[u] = None
    /\ StateMatches(u, s)
    /\ states' = [states EXCEPT ![s] = None]
    /\ callback' = [callback EXCEPT ![u] = [code |-> states[s].code]]
    /\ UNCHANGED <<policyVars, codes, binding, signIn, runnerVars, requests>>

\* A GitHub call of the callback raises: the cookies stay, the state is gone.
CallbackFails(u) ==
    /\ callback[u] # None
    /\ callback' = [callback EXCEPT ![u] = None]
    /\ UNCHANGED <<policyVars, codes, states, binding, signIn, runnerVars, requests>>

\* The installations and their repositories that GitHub shows the user; the
\* sign-in cookie carries this until it expires.
CaptureLiveAssertion(u) == [i \in Controls[u] |-> Covers[i]]

\* The installation must be in the user's assertion.
VerifyInstallationAccess(u, i) == i \in DOMAIN CaptureLiveAssertion(u)

ApprovableFault(c) == Fresh(codes[c]) /\ ~codes[c].exchanged

Approvable(c) == Fresh(codes[c]) /\ codes[c].grant = None

Requestable(i, rs) == rs \subseteq Covers[i]

\* approve_pairing_by_hash, with what it writes when nothing refuses it.
ApprovePairing(c, u, i, rs) ==
    IF Approvable(c) /\ installations[i] = "active" /\ Requestable(i, rs)
    THEN /\ codes' = [codes EXCEPT ![c].grant =
                          [user |-> u, installation |-> i, repos |-> {i} \X rs]]
         /\ RegisterRepositories({i} \X rs)
    ELSE UNCHANGED <<codes, repositories>>

\* With one installation there is nothing to choose: all of it is approved.
AutoApproveWaitingPairing(c, u) ==
    LET assertion == CaptureLiveAssertion(u)
    IN IF Cardinality(DOMAIN assertion) = 1
       THEN \E i \in DOMAIN assertion : ApprovePairing(c, u, i, assertion[i])
       ELSE UNCHANGED <<codes, repositories>>

IssueLiveSignIn(u) == signIn' = [signIn EXCEPT ![u] = [age |-> 0]]

\* The second half: GitHub has named the user and the installations, a waiting
\* pairing is approved and the cookies are swapped.
CallbackReturns(u) ==
    /\ callback[u] # None
    /\ IF callback[u].code # None
       THEN AutoApproveWaitingPairing(callback[u].code, u)
       ELSE UNCHANGED <<codes, repositories>>
    /\ IssueLiveSignIn(u)
    /\ binding' = [binding EXCEPT ![u] = None]
    /\ callback' = [callback EXCEPT ![u] = None]
    /\ UNCHANGED <<installations, states, runnerVars, requests>>

SubmitPairingApproval(u, c, i, rs) ==
    IF VerifyInstallationAccess(u, i)
    THEN ApprovePairing(c, u, i, rs)
    ELSE UNCHANGED <<codes, repositories>>

\* The sealed cookie is read back while it is fresh.
ReadLiveSignIn(u) == Fresh(signIn[u])

\* POST /api/pairing/approve from the dashboard; the cookie goes whatever the answer.
ApprovePairingRoute(u, c, i, rs) ==
    /\ ReadLiveSignIn(u)
    /\ SubmitPairingApproval(u, c, i, rs)
    /\ signIn' = [signIn EXCEPT ![u] = None]
    /\ UNCHANGED <<installations, states, binding, callback, runnerVars, requests>>

SignOut(u) ==
    /\ signIn[u] # None
    /\ signIn' = [signIn EXCEPT ![u] = None]
    /\ UNCHANGED <<policyVars, codes, states, binding, callback, runnerVars, requests>>

-----------------------------------------------------------------------------
\* Pairing codes and the runners they become.

CreatePairingCode(c) ==
    /\ codes[c] = None
    /\ codes' = [codes EXCEPT ![c] = [age |-> 0, grant |-> None, exchanged |-> FALSE]]
    /\ UNCHANGED <<policyVars, signInVars, runnerVars, requests>>

ExchangeableFault(c) == Fresh(codes[c]) /\ codes[c].grant # None

Exchangeable(c) == Fresh(codes[c]) /\ codes[c].grant # None /\ ~codes[c].exchanged

RegisterRunner(n, g, c) ==
    runners' = [runners EXCEPT ![n] =
        [user |-> g.user, installation |-> g.installation, revoked |-> FALSE,
         credential |-> 1, presented |-> {}, code |-> c]]

Assignable(rs) == \A ir \in rs : assignments[ir] = None

AssignRepositoriesToRunner(rs, n) ==
    assignments' = [ir \in Repositories |-> IF ir \in rs THEN n ELSE assignments[ir]]

\* The exchange without the rollback of the repositories it could claim.
ExchangePairingCodeFault(c, n) ==
    /\ Exchangeable(c)
    /\ runners[n] = None
    /\ RegisterRunner(n, codes[c].grant, c)
    /\ AssignRepositoriesToRunner({ir \in codes[c].grant.repos : Assignable({ir})}, n)
    /\ codes' = [codes EXCEPT ![c].exchanged = Assignable(codes[c].grant.repos)]
    /\ UNCHANGED <<policyVars, signInVars, lease, requests>>

\* One transaction: if any repository of the code is taken the runner row is
\* rolled back with it, and the code can still be exchanged later.
ExchangePairingCode(c, n) ==
    /\ Exchangeable(c)
    /\ runners[n] = None
    /\ Assignable(codes[c].grant.repos)
    /\ RegisterRunner(n, codes[c].grant, c)
    /\ AssignRepositoriesToRunner(codes[c].grant.repos, n)
    /\ codes' = [codes EXCEPT ![c].exchanged = TRUE]
    /\ UNCHANGED <<policyVars, signInVars, lease, requests>>

RevokeRunnerFault(n) ==
    /\ runners[n] # None /\ ~runners[n].revoked
    /\ runners' = [runners EXCEPT ![n].revoked = TRUE]
    /\ UNCHANGED <<policyVars, codes, signInVars, assignments, lease, requests>>

RevokeRunner(n) ==
    /\ runners[n] # None /\ ~runners[n].revoked
    /\ runners' = [runners EXCEPT ![n].revoked = TRUE]
    /\ assignments' = [ir \in Repositories |->
           IF assignments[ir] = n THEN None ELSE assignments[ir]]
    /\ UNCHANGED <<policyVars, codes, signInVars, lease, requests>>

\* The lease on a review job, from the job protocol: taken on an assigned
\* repository of an active installation, lost by expiry, cancellation or the end.
ClaimLease(n, ir) ==
    /\ lease[n] = None
    /\ runners[n] # None /\ ~runners[n].revoked
    /\ assignments[ir] = n /\ installations[ir[1]] = "active"
    /\ lease' = [lease EXCEPT ![n] = ir]
    /\ UNCHANGED <<policyVars, codes, signInVars, runners, assignments, requests>>

LeaseEnds(n) ==
    /\ lease[n] # None
    /\ lease' = [lease EXCEPT ![n] = None]
    /\ UNCHANGED <<policyVars, codes, signInVars, runners, assignments, requests>>

-----------------------------------------------------------------------------
\* Requests of runners. A request records whether it arrived too late: after
\* its runner or its installation was revoked.

NewRequest(kind, n, v, repos) ==
    [kind |-> kind, runner |-> n, credential |-> v, repos |-> repos,
     installation |-> runners[n].installation,
     late |-> runners[n].revoked \/ installations[runners[n].installation] # "active"]

Authenticates(n, v) == runners[n] # None /\ runners[n].credential = v /\ ~runners[n].revoked

Becomes(q, r) ==
    /\ requests' = [requests EXCEPT ![q] = r]
    /\ UNCHANGED <<policyVars, codes, signInVars, runnerVars>>

\* The rotation and the installation token routes authenticate first ...
AuthenticateRunner(q, n, kind) ==
    /\ requests[q] = None
    /\ runners[n] # None /\ Authenticates(n, runners[n].credential)
    /\ Becomes(q, NewRequest(kind, n, runners[n].credential, {}))

RotateRunnerCredentialRoute(q, n) == AuthenticateRunner(q, n, "rotate")

IssueInstallationTokenRoute(q, n) == AuthenticateRunner(q, n, "installation")

RotatableFault(q) == ~runners[requests[q].runner].revoked

Rotatable(q) == Authenticates(requests[q].runner, requests[q].credential)

\* ... and then the rotation compares and swaps the hash in one transaction.
RotateRunnerCredential(q) ==
    /\ requests[q] # None /\ requests[q].kind = "rotate"
    /\ LET n == requests[q].runner
       IN /\ runners[n].credential < MaxCredential
          /\ runners' = IF Rotatable(q)
                        THEN [runners EXCEPT ![n].credential = @ + 1,
                                             ![n].presented = @ \union {requests[q].credential}]
                        ELSE runners
    /\ requests' = [requests EXCEPT ![q] = None]
    /\ UNCHANGED <<policyVars, codes, signInVars, assignments, lease>>

AssignedRepositoriesFault(n) ==
    {ir \in repositories : assignments[ir] = n /\ ir[1] = runners[n].installation}

\* The repositories of the runner in its installation, read while it is active.
AssignedRepositories(n) ==
    {ir \in repositories : assignments[ir] = n /\ ir[1] = runners[n].installation
                           /\ installations[ir[1]] = "active"}

IssueRunnerInstallationToken(q) ==
    /\ requests[q] # None /\ requests[q].kind = "installation"
    /\ LET granted == AssignedRepositories(requests[q].runner)
       IN Becomes(q, IF granted = {} THEN None
                     ELSE [requests[q] EXCEPT !.kind = "mint", !.repos = granted])

\* The job token route reads the lease in one connection ...
IssueJobToken(q, n) ==
    /\ requests[q] = None
    /\ runners[n] # None /\ lease[n] # None
    /\ Becomes(q, NewRequest("job", n, runners[n].credential, {lease[n]}))

\* ... and asks the repository policy in another.
AuthorizeRepository(n, ir) ==
    /\ installations[ir[1]] = "active"
    /\ ir \in repositories
    /\ ~runners[n].revoked
    /\ assignments[ir] = n

AuthorizeJobToken(q) ==
    /\ requests[q] # None /\ requests[q].kind = "job"
    /\ Becomes(q, IF \A ir \in requests[q].repos : AuthorizeRepository(requests[q].runner, ir)
                  THEN [requests[q] EXCEPT !.kind = "mint"]
                  ELSE None)

\* GitHub mints the token, or refuses.
MintToken(q) ==
    /\ requests[q] # None /\ requests[q].kind = "mint"
    /\ Becomes(q, None)

-----------------------------------------------------------------------------
Older(rows) == [r \in DOMAIN rows |-> IF Fresh(rows[r]) THEN [rows[r] EXCEPT !.age = @ + 1]
                                      ELSE rows[r]]

Kept(rows) == [r \in DOMAIN rows |-> IF Fresh(rows[r]) THEN rows[r] ELSE None]

\* A browser drops the cookie when its max_age, the same ten minutes, is over.
Tick ==
    /\ codes' = Older(codes)
    /\ states' = Kept(Older(states))
    /\ signIn' = Kept(Older(signIn))
    /\ UNCHANGED <<policyVars, binding, callback, runnerVars, requests>>

IdInit ==
    /\ installations = [i \in Installations |-> "unknown"]
    /\ repositories = {}
    /\ codes = [c \in Codes |-> None]
    /\ states = [s \in States |-> None]
    /\ binding = [u \in Users |-> None]
    /\ signIn = [u \in Users |-> None]
    /\ callback = [u \in Users |-> None]
    /\ runners = [n \in Runners |-> None]
    /\ assignments = [ir \in Repositories |-> None]
    /\ lease = [n \in Runners |-> None]
    /\ requests = [q \in Requests |-> None]

InstallationStep ==
    \E i \in Installations :
        \/ \E listed \in BOOLEAN : HandleInstallationRegistered(i, listed)
        \/ HandleInstallationRevoked(i)
        \/ \E ir \in Repositories : ir[1] = i /\ HandleInstallationRepositories(ir)

BrowserStep ==
    \E u \in Users :
        \/ \E s \in States : \E c \in {x \in Codes : codes[x] # None} \union {None} :
               BeginSignInRoute(u, s, c)
        \/ \E s \in States : CompleteSignIn(u, s)
        \/ CallbackReturns(u)
        \/ CallbackFails(u)
        \/ \E c \in Codes, i \in Installations, rs \in SUBSET Repos :
               ApprovePairingRoute(u, c, i, rs)
        \/ SignOut(u)

RunnerStep ==
    \/ \E c \in Codes : CreatePairingCode(c) \/ \E n \in Runners : ExchangePairingCode(c, n)
    \/ \E n \in Runners :
        \/ RevokeRunner(n)
        \/ \E ir \in Repositories : ClaimLease(n, ir)
        \/ LeaseEnds(n)

RequestStep ==
    \E q \in Requests :
        \/ \E n \in Runners : \/ RotateRunnerCredentialRoute(q, n)
                              \/ IssueInstallationTokenRoute(q, n)
                              \/ IssueJobToken(q, n)
        \/ RotateRunnerCredential(q)
        \/ IssueRunnerInstallationToken(q)
        \/ AuthorizeJobToken(q)
        \/ MintToken(q)

IdNext == InstallationStep \/ BrowserStep \/ RunnerStep \/ RequestStep \/ Tick

IdSpec == IdInit /\ [][IdNext]_idVars

-----------------------------------------------------------------------------
\* A repository is only ever assigned to a runner that is not revoked and was
\* paired for the repository's own installation, by a user who controls it:
\* revoke_runner releases what the runner held, so the repository can be paired
\* again, and authorize_repository can rely on the assignment alone.
AssignmentsBacked ==
    \A ir \in Repositories :
        assignments[ir] # None =>
            LET n == assignments[ir]
            IN /\ runners[n] # None /\ ~runners[n].revoked
               /\ runners[n].installation = ir[1]
               /\ ir[1] \in Controls[runners[n].user]
               /\ ir \in repositories

\* A code becomes at most one runner and a runner comes from one exchanged code,
\* however often and in whichever order two exchanges of it, their refusals and
\* revocations happen: a refused exchange leaves no runner row behind.
OneRunnerPerCode ==
    \A n \in Runners :
        runners[n] # None =>
            /\ codes[runners[n].code].exchanged
            /\ \A m \in Runners \ {n} : runners[m] # None => runners[m].code # runners[n].code

\* The sign-in that a callback completes is the one its own browser began: a
\* state spent by one browser was issued to that browser.
CallbackInItsOwnBrowser ==
    [][\A u \in Users, s \in States :
           (states[s] # None /\ states'[s] = None /\ callback[u] = None /\ callback'[u] # None)
               => states[s].by = u]_idVars

\* Once approved a code never changes hands: neither a second callback nor the
\* dashboard, racing the terminal that polls "exchangeable", repoints it.
ApprovalIsFinal ==
    [][\A c \in Codes :
           (codes[c] # None /\ codes[c].grant # None) =>
               /\ codes'[c].grant = codes[c].grant
               /\ codes[c].exchanged => codes'[c].exchanged]_idVars

\* A token request that arrived after its runner or installation was revoked
\* never reaches GitHub, although authentication, the lease, the assignments and
\* the installation are read in different transactions; it may only when the
\* installation was registered again meanwhile.
LateRequestMintsNothing ==
    \A q \in Requests :
        (requests[q] # None /\ requests[q].kind = "mint") => ~requests[q].late

\* Every credential a runner was handed, except its current one, was itself
\* presented to the rotation: two rotations that authenticated with the same
\* credential do not both succeed, so none dies behind its holder's back.
CredentialLineage ==
    \A n \in Runners :
        runners[n] # None => runners[n].presented = 1..(runners[n].credential - 1)
=============================================================================
