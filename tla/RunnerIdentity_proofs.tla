------------------------- MODULE RunnerIdentity_proofs -------------------------
(***************************************************************************)
(* Proofs about RunnerIdentity, for any number of users, installations,    *)
(* pairing codes, runners and concurrent requests, and for any             *)
(* credentials: who a repository is assigned to, which code a runner comes *)
(* from, and what a request may still do after its runner or its           *)
(* installation was revoked.                                               *)
(***************************************************************************)
EXTENDS RunnerIdentity, TLAPS

-----------------------------------------------------------------------------
(* The inductive invariant.                                                *)

IdTypeOK ==
    /\ installations \in [Installations -> {"unknown", "active", "revoked"}]
    /\ repositories \subseteq Repositories
    /\ codes \in [Codes -> CodeRow \union {None}]
    /\ states \in [States -> StateRow \union {None}]
    /\ binding \in [Users -> States \union {None}]
    /\ signIn \in [Users -> SignInCookie \union {None}]
    /\ callback \in [Users -> Callback \union {None}]
    /\ runners \in [Runners -> RunnerRow \union {None}]
    /\ assignments \in [Repositories -> Runners \union {None}]
    /\ lease \in [Runners -> Repositories \union {None}]
    /\ requests \in [Requests -> Request \union {None}]

\* What an approval wrote: registered repositories of one installation, which
\* the approving user controls.
Backed(g) ==
    /\ g.installation \in Controls[g.user]
    /\ g.repos \subseteq repositories
    /\ \A ir \in g.repos : ir[1] = g.installation

\* Only an approved code is exchanged, and every approval is backed.
GrantsBacked ==
    \A c \in Codes : codes[c] # None =>
        /\ codes[c].exchanged => codes[c].grant # None
        /\ codes[c].grant # None => Backed(codes[c].grant)

\* The code of a runner is on record.
CodesOnRecord == \A n \in Runners : runners[n] # None => codes[runners[n].code] # None

\* A request is that of a runner on record and of its installation; the request
\* for a job's token names the job's repository; and a late one still has its
\* runner or its installation revoked.
RequestsOnRecord ==
    \A q \in Requests : requests[q] # None =>
        LET r == requests[q]
        IN /\ runners[r.runner] # None
           /\ r.installation = runners[r.runner].installation
           /\ r.kind = "job" => r.repos # {}
           /\ r.late => runners[r.runner].revoked \/ installations[r.installation] # "active"

\* The cookie that binds a live state is that of the browser it was issued to.
StatesBound ==
    \A u \in Users, s \in States :
        (states[s] # None /\ binding[u] = s) => states[s].by = u

IdInv ==
    /\ IdTypeOK /\ GrantsBacked /\ CodesOnRecord /\ RequestsOnRecord /\ StatesBound
    /\ AssignmentsBacked /\ OneRunnerPerCode /\ CredentialLineage /\ LateRequestMintsNothing

LEMMA InitInv == IdInit => IdInv
  BY DEF IdInit, IdInv, IdTypeOK, GrantsBacked, CodesOnRecord, RequestsOnRecord, StatesBound,
         AssignmentsBacked, OneRunnerPerCode, CredentialLineage, LateRequestMintsNothing

-----------------------------------------------------------------------------
(* The steps, one by one.                                                  *)

LEMMA GrantTypes ==
    ASSUME NEW u \in Users, NEW i \in Installations, NEW rs, rs \subseteq Covers[i]
    PROVE  /\ {i} \X rs \subseteq Repositories
           /\ [user |-> u, installation |-> i, repos |-> {i} \X rs] \in Grant
  BY IdentityAssumption DEF Repositories, Grant

LEMMA CodesFresh ==
    ASSUME IdTypeOK, NEW c \in Codes, Fresh(codes[c])
    PROVE  codes[c] \in CodeRow
  BY DEF IdTypeOK, Fresh

\* An approval names repositories that GitHub lists in an active installation of
\* the user, for a code that nobody has approved.
LEMMA ApproveTypes ==
    ASSUME IdTypeOK, NEW c \in Codes, NEW u \in Users, NEW i \in Installations, NEW rs,
           ApprovePairing(c, u, i, rs)
    PROVE  /\ codes' \in [Codes -> CodeRow \union {None}]
           /\ repositories' \subseteq Repositories
  <1>1. CASE Approvable(c) /\ installations[i] = "active" /\ Requestable(i, rs)
    <2>1. codes[c] \in CodeRow
      BY <1>1, CodesFresh DEF Approvable
    <2>2. /\ {i} \X rs \subseteq Repositories
          /\ [user |-> u, installation |-> i, repos |-> {i} \X rs] \in Grant
      BY <1>1, GrantTypes DEF Requestable
    <2>3. [codes[c] EXCEPT !.grant = [user |-> u, installation |-> i, repos |-> {i} \X rs]] \in CodeRow
      BY <2>1, <2>2 DEF CodeRow
    <2> QED
      BY <1>1, <2>2, <2>3 DEF ApprovePairing, IdTypeOK, RegisterRepositories
  <1>2. CASE ~(Approvable(c) /\ installations[i] = "active" /\ Requestable(i, rs))
    BY <1>2 DEF ApprovePairing, IdTypeOK
  <1> QED
    BY <1>1, <1>2

LEMMA InstallationTypes ==
    ASSUME IdTypeOK,
           \/ \E i \in Installations, listed \in BOOLEAN : HandleInstallationRegistered(i, listed)
           \/ \E i \in Installations : HandleInstallationRevoked(i)
           \/ \E ir \in Repositories : HandleInstallationRepositories(ir)
    PROVE  IdTypeOK'
  <1>1. ASSUME NEW i \in Installations, NEW listed \in BOOLEAN,
               HandleInstallationRegistered(i, listed)
        PROVE  IdTypeOK'
    <2>1. requests' \in [Requests -> Request \union {None}]
      <3> SUFFICES ASSUME NEW q \in Requests, requests[q] # None
                   PROVE  [requests[q] EXCEPT !.late =
                              @ /\ runners[requests[q].runner].revoked] \in Request \union {None}
        BY <1>1 DEF HandleInstallationRegistered, Pardon, IdTypeOK
      <3>1. requests[q] \in Request
        BY DEF IdTypeOK
      <3>2. (requests[q].late /\ runners[requests[q].runner].revoked) \in BOOLEAN
        OBVIOUS
      <3> QED
        BY <3>1, <3>2 DEF Request
    <2>2. repositories' \subseteq Repositories
      BY <1>1 DEF HandleInstallationRegistered, SyncRepositories, RegisterRepositories,
                  ListInstallationRepositories, IdTypeOK
    <2> QED
      BY <1>1, <2>1, <2>2 DEF HandleInstallationRegistered, RegisterInstallation, IdTypeOK,
                              signInVars, runnerVars
  <1>2. ASSUME NEW i \in Installations, HandleInstallationRevoked(i) PROVE IdTypeOK'
    BY <1>2 DEF HandleInstallationRevoked, IdTypeOK, signInVars, runnerVars
  <1>3. ASSUME NEW ir \in Repositories, HandleInstallationRepositories(ir) PROVE IdTypeOK'
    BY <1>3 DEF HandleInstallationRepositories, RegisterRepositories, IdTypeOK, signInVars, runnerVars
  <1> QED
    BY <1>1, <1>2, <1>3

LEMMA SignInTypes ==
    ASSUME IdTypeOK, NEW u \in Users,
           \/ \E s \in States, c \in Codes \union {None} : BeginSignInRoute(u, s, c)
           \/ \E s \in States : CompleteSignIn(u, s)
           \/ CallbackFails(u)
           \/ SignOut(u)
    PROVE  IdTypeOK'
  <1>1. ASSUME NEW s \in States, NEW c \in Codes \union {None}, BeginSignInRoute(u, s, c)
        PROVE  IdTypeOK'
    <2>1. [age |-> 0, code |-> c, by |-> u] \in StateRow
      BY DEF StateRow
    <2>2. states' \in [States -> StateRow \union {None}]
      BY <1>1, <2>1 DEF BeginSignInRoute, BeginSignIn, IdTypeOK
    <2>3. binding' \in [Users -> States \union {None}]
      <3>1. binding' = [x \in Users |-> IF x = u THEN s ELSE IF binding[x] = s THEN None ELSE binding[x]]
        BY <1>1 DEF BeginSignInRoute
      <3> QED
        BY <3>1 DEF IdTypeOK
    <2> QED
      BY <1>1, <2>2, <2>3 DEF BeginSignInRoute, IdTypeOK, policyVars, runnerVars
  <1>2. ASSUME NEW s \in States, CompleteSignIn(u, s) PROVE IdTypeOK'
    <2>1. states[s] \in StateRow
      BY <1>2 DEF CompleteSignIn, StateMatches, Fresh, IdTypeOK
    <2>2. [code |-> states[s].code] \in Callback
      BY <2>1 DEF StateRow, Callback
    <2> QED
      BY <1>2, <2>2 DEF CompleteSignIn, IdTypeOK, policyVars, runnerVars
  <1>3. ASSUME CallbackFails(u) PROVE IdTypeOK'
    BY <1>3 DEF CallbackFails, IdTypeOK, policyVars, runnerVars
  <1>4. ASSUME SignOut(u) PROVE IdTypeOK'
    BY <1>4 DEF SignOut, IdTypeOK, policyVars, runnerVars
  <1> QED
    BY <1>1, <1>2, <1>3, <1>4

\* Whichever way a pairing is approved, the user controls the installation.
LEMMA ApprovedByController ==
    ASSUME IdTypeOK, NEW u \in Users,
           \/ CallbackReturns(u)
           \/ \E c \in Codes, i \in Installations, rs \in SUBSET Repos :
                  ApprovePairingRoute(u, c, i, rs)
    PROVE  \/ \E c \in Codes, i \in Controls[u], rs \in SUBSET Repos : ApprovePairing(c, u, i, rs)
           \/ UNCHANGED <<codes, repositories>>
  <1>1. CASE CallbackReturns(u)
    <2>1. CASE callback[u].code = None
      BY <1>1, <2>1 DEF CallbackReturns
    <2>2. CASE callback[u].code # None
      <3>1. callback[u].code \in Codes
        BY <1>1, <2>2 DEF CallbackReturns, IdTypeOK, Callback
      <3>2. AutoApproveWaitingPairing(callback[u].code, u)
        BY <1>1, <2>2 DEF CallbackReturns
      <3>3. ASSUME NEW i \in Controls[u]
            PROVE  Covers[i] \in SUBSET Repos
        BY IdentityAssumption
      <3> QED
        BY <3>1, <3>2, <3>3 DEF AutoApproveWaitingPairing, CaptureLiveAssertion
    <2> QED
      BY <2>1, <2>2
  <1>2. ASSUME NEW c \in Codes, NEW i \in Installations, NEW rs \in SUBSET Repos,
               ApprovePairingRoute(u, c, i, rs)
        PROVE  \/ i \in Controls[u] /\ ApprovePairing(c, u, i, rs)
               \/ UNCHANGED <<codes, repositories>>
    BY <1>2 DEF ApprovePairingRoute, SubmitPairingApproval, VerifyInstallationAccess,
                CaptureLiveAssertion
  <1> QED
    BY <1>1, <1>2

LEMMA ApprovalTypes ==
    ASSUME IdTypeOK, NEW u \in Users,
           \/ CallbackReturns(u)
           \/ \E c \in Codes, i \in Installations, rs \in SUBSET Repos :
                  ApprovePairingRoute(u, c, i, rs)
    PROVE  IdTypeOK'
  <1>1. /\ codes' \in [Codes -> CodeRow \union {None}]
        /\ repositories' \subseteq Repositories
    <2>1. Controls[u] \subseteq Installations
      BY IdentityAssumption
    <2>2. CASE UNCHANGED <<codes, repositories>>
      BY <2>2 DEF IdTypeOK
    <2> QED
      BY <2>1, <2>2, ApprovedByController, ApproveTypes
  <1>2. [age |-> 0] \in SignInCookie
    BY DEF SignInCookie
  <1>3. CASE CallbackReturns(u)
    BY <1>1, <1>2, <1>3 DEF CallbackReturns, IssueLiveSignIn, IdTypeOK, runnerVars
  <1>4. CASE \E c \in Codes, i \in Installations, rs \in SUBSET Repos :
                  ApprovePairingRoute(u, c, i, rs)
    BY <1>1, <1>4 DEF ApprovePairingRoute, IdTypeOK, runnerVars
  <1> QED
    BY <1>3, <1>4

LEMMA ExchangeOthers ==
    ASSUME IdTypeOK, NEW c \in Codes, NEW n \in Runners, ExchangePairingCode(c, n)
    PROVE  /\ runners[n] = None
           /\ \A m \in Runners \ {n} : runners'[m] = runners[m]
  BY DEF ExchangePairingCode, RegisterRunner, IdTypeOK

LEMMA ExchangeTypes ==
    ASSUME IdTypeOK, NEW c \in Codes, NEW n \in Runners, ExchangePairingCode(c, n)
    PROVE  /\ codes[c] \in CodeRow /\ codes[c].grant \in Grant
           /\ [codes[c] EXCEPT !.exchanged = TRUE] \in CodeRow
           /\ runners'[n] \in RunnerRow
           /\ runners'[n].user = codes[c].grant.user
           /\ runners'[n].installation = codes[c].grant.installation
           /\ ~runners'[n].revoked
           /\ runners'[n].credential = 1 /\ runners'[n].presented = {}
           /\ runners'[n].code = c
           /\ runners' \in [Runners -> RunnerRow \union {None}]
  <1>1. codes[c] \in CodeRow
    BY CodesFresh DEF ExchangePairingCode, Exchangeable
  <1>2. codes[c].grant \in Grant
    BY <1>1 DEF CodeRow, ExchangePairingCode, Exchangeable
  <1>3. [codes[c] EXCEPT !.exchanged = TRUE] \in CodeRow
    BY <1>1 DEF CodeRow
  <1> DEFINE row == [user |-> codes[c].grant.user, installation |-> codes[c].grant.installation,
                     revoked |-> FALSE, credential |-> 1, presented |-> {}, code |-> c]
  <1>4. row \in RunnerRow
    BY <1>2 DEF Grant, RunnerRow
  <1>5. runners' = [runners EXCEPT ![n] = row]
    BY DEF ExchangePairingCode, RegisterRunner
  <1>6. runners'[n] = row
    BY <1>5 DEF IdTypeOK
  <1>7. runners' \in [Runners -> RunnerRow \union {None}]
    BY <1>4, <1>5 DEF IdTypeOK
  <1> QED
    BY <1>1, <1>2, <1>3, <1>4, <1>6, <1>7

LEMMA RevokeTypes ==
    ASSUME IdTypeOK, NEW n \in Runners, RevokeRunner(n)
    PROVE  /\ runners[n] \in RunnerRow
           /\ runners'[n] \in RunnerRow /\ runners'[n].revoked
           /\ runners'[n].installation = runners[n].installation
           /\ runners'[n].credential = runners[n].credential
           /\ runners'[n].presented = runners[n].presented
           /\ runners'[n].code = runners[n].code
           /\ \A m \in Runners \ {n} : runners'[m] = runners[m]
           /\ runners' \in [Runners -> RunnerRow \union {None}]
  <1>1. runners[n] \in RunnerRow
    BY DEF RevokeRunner, IdTypeOK
  <1>2. [runners[n] EXCEPT !.revoked = TRUE] \in RunnerRow
    BY <1>1 DEF RunnerRow
  <1>3. runners' = [runners EXCEPT ![n] = [runners[n] EXCEPT !.revoked = TRUE]]
    BY DEF RevokeRunner
  <1>4. /\ runners'[n] = [runners[n] EXCEPT !.revoked = TRUE]
        /\ \A m \in Runners \ {n} : runners'[m] = runners[m]
    BY <1>3 DEF IdTypeOK
  <1>5. runners' \in [Runners -> RunnerRow \union {None}]
    BY <1>2, <1>3 DEF IdTypeOK
  <1> QED
    BY <1>1, <1>2, <1>4, <1>5 DEF RunnerRow

LEMMA RunnerTypes ==
    ASSUME IdTypeOK, GrantsBacked,
           \/ \E c \in Codes : CreatePairingCode(c)
           \/ \E c \in Codes, n \in Runners : ExchangePairingCode(c, n)
           \/ \E n \in Runners : RevokeRunner(n) \/ LeaseEnds(n)
           \/ \E n \in Runners, ir \in Repositories : ClaimLease(n, ir)
    PROVE  IdTypeOK'
  <1>1. ASSUME NEW c \in Codes, CreatePairingCode(c) PROVE IdTypeOK'
    <2>1. [age |-> 0, grant |-> None, exchanged |-> FALSE] \in CodeRow
      BY DEF CodeRow
    <2> QED
      BY <1>1, <2>1 DEF CreatePairingCode, IdTypeOK, policyVars, signInVars, runnerVars
  <1>2. ASSUME NEW c \in Codes, NEW n \in Runners, ExchangePairingCode(c, n) PROVE IdTypeOK'
    <2>1. codes' = [codes EXCEPT ![c] = [codes[c] EXCEPT !.exchanged = TRUE]]
      BY <1>2 DEF ExchangePairingCode
    <2>2. codes' \in [Codes -> CodeRow \union {None}]
      BY <1>2, <2>1, ExchangeTypes DEF IdTypeOK
    <2>3. assignments' \in [Repositories -> Runners \union {None}]
      BY <1>2 DEF ExchangePairingCode, AssignRepositoriesToRunner, IdTypeOK
    <2>4. runners' \in [Runners -> RunnerRow \union {None}]
      BY <1>2, ExchangeTypes
    <2> QED
      BY <1>2, <2>2, <2>3, <2>4 DEF ExchangePairingCode, IdTypeOK, policyVars, signInVars
  <1>3. ASSUME NEW n \in Runners, RevokeRunner(n) PROVE IdTypeOK'
    <2>1. runners' \in [Runners -> RunnerRow \union {None}]
      BY <1>3, RevokeTypes
    <2> QED
      BY <1>3, <2>1 DEF RevokeRunner, IdTypeOK, policyVars, signInVars
  <1>4. ASSUME NEW n \in Runners, LeaseEnds(n) PROVE IdTypeOK'
    BY <1>4 DEF LeaseEnds, IdTypeOK, policyVars, signInVars
  <1>5. ASSUME NEW n \in Runners, NEW ir \in Repositories, ClaimLease(n, ir) PROVE IdTypeOK'
    BY <1>5 DEF ClaimLease, IdTypeOK, policyVars, signInVars
  <1> QED
    BY <1>1, <1>2, <1>3, <1>4, <1>5

\* What becomes of the request q: nothing is left of it, it is a new request of
\* runner n, or its runner was found to hold all it will be granted.
Released(q) == requests' = [requests EXCEPT ![q] = None]

Arrived(q) ==
    \E n \in Runners, kind \in {"rotate", "installation", "job"}, repos \in SUBSET Repositories :
        /\ runners[n] # None
        /\ kind = "job" => repos # {}
        /\ requests' = [requests EXCEPT ![q] = NewRequest(kind, n, runners[n].credential, repos)]

Granted(q) ==
    /\ requests[q] # None
    /\ \E repos \in SUBSET Repositories :
        LET n == requests[q].runner
        IN /\ repos # {}
           /\ \A ir \in repos : assignments[ir] = n /\ installations[ir[1]] = "active"
           /\ requests' = [requests EXCEPT ![q] =
                              [requests[q] EXCEPT !.kind = "mint", !.repos = repos]]

LEMMA RequestCases ==
    ASSUME IdTypeOK, RequestsOnRecord, NEW q \in Requests,
           \/ \E n \in Runners, kind \in {"rotate", "installation"} : AuthenticateRunner(q, n, kind)
           \/ \E n \in Runners : IssueJobToken(q, n)
           \/ IssueRunnerInstallationToken(q)
           \/ AuthorizeJobToken(q)
           \/ MintToken(q)
    PROVE  /\ Arrived(q) \/ Granted(q) \/ Released(q)
           /\ UNCHANGED <<installations, repositories, codes, states, binding, signIn, callback,
                          runners, assignments, lease>>
  <1>1. ASSUME NEW n \in Runners, NEW kind \in {"rotate", "installation"},
               AuthenticateRunner(q, n, kind)
        PROVE  Arrived(q)
    BY <1>1 DEF AuthenticateRunner, Becomes, Arrived
  <1>2. ASSUME NEW n \in Runners, IssueJobToken(q, n) PROVE Arrived(q)
    <2>1. {lease[n]} \in SUBSET Repositories /\ {lease[n]} # {}
      BY <1>2 DEF IssueJobToken, IdTypeOK
    <2> QED
      BY <1>2, <2>1 DEF IssueJobToken, Becomes, Arrived
  <1>3. ASSUME IssueRunnerInstallationToken(q) PROVE Granted(q) \/ Released(q)
    <2> DEFINE granted == AssignedRepositories(requests[q].runner)
    <2>1. CASE granted = {}
      BY <1>3, <2>1 DEF IssueRunnerInstallationToken, Becomes, Released
    <2>2. CASE granted # {}
      <3>1. granted \in SUBSET Repositories
        BY DEF AssignedRepositories, IdTypeOK
      <3>2. \A ir \in granted : assignments[ir] = requests[q].runner /\ installations[ir[1]] = "active"
        BY DEF AssignedRepositories
      <3>3. /\ requests[q] # None
            /\ requests' = [requests EXCEPT ![q] =
                              [requests[q] EXCEPT !.kind = "mint", !.repos = granted]]
        BY <1>3, <2>2 DEF IssueRunnerInstallationToken, Becomes
      <3> HIDE DEF granted
      <3> QED
        BY <2>2, <3>1, <3>2, <3>3 DEF Granted
    <2> QED
      BY <2>1, <2>2
  <1>4. ASSUME AuthorizeJobToken(q) PROVE Granted(q) \/ Released(q)
    <2>1. CASE \A ir \in requests[q].repos : AuthorizeRepository(requests[q].runner, ir)
      <3>1. requests[q] \in Request
        BY <1>4 DEF AuthorizeJobToken, IdTypeOK
      <3>2. requests[q].repos \in SUBSET Repositories /\ requests[q].repos # {}
        BY <1>4, <3>1 DEF AuthorizeJobToken, Request, RequestsOnRecord
      <3>3. [requests[q] EXCEPT !.kind = "mint"]
              = [requests[q] EXCEPT !.kind = "mint", !.repos = requests[q].repos]
        BY <3>1 DEF Request
      <3>4. requests[q] # None /\ requests' = [requests EXCEPT ![q] = [requests[q] EXCEPT !.kind = "mint"]]
        BY <1>4, <2>1 DEF AuthorizeJobToken, Becomes
      <3>5. \A ir \in requests[q].repos :
                assignments[ir] = requests[q].runner /\ installations[ir[1]] = "active"
        BY <2>1 DEF AuthorizeRepository
      <3> QED
        BY <3>2, <3>3, <3>4, <3>5 DEF Granted
    <2>2. CASE ~\A ir \in requests[q].repos : AuthorizeRepository(requests[q].runner, ir)
      BY <1>4, <2>2 DEF AuthorizeJobToken, Becomes, Released
    <2> QED
      BY <2>1, <2>2
  <1>5. ASSUME MintToken(q) PROVE Released(q)
    BY <1>5 DEF MintToken, Becomes, Released
  <1>6. UNCHANGED <<installations, repositories, codes, states, binding, signIn, callback,
                    runners, assignments, lease>>
    BY DEF AuthenticateRunner, IssueJobToken, IssueRunnerInstallationToken, AuthorizeJobToken,
           MintToken, Becomes, policyVars, signInVars, runnerVars
  <1> QED
    BY <1>1, <1>2, <1>3, <1>4, <1>5, <1>6

\* A request keeps what RequestsOnRecord and LateRequestMintsNothing say of it.
GoodRequest(r) ==
    /\ r \in Request
    /\ runners[r.runner] # None
    /\ r.installation = runners[r.runner].installation
    /\ r.kind = "job" => r.repos # {}
    /\ r.late => runners[r.runner].revoked \/ installations[r.installation] # "active"
    /\ r.kind = "mint" => ~r.late

LEMMA GoodRequests ==
    ASSUME IdTypeOK
    PROVE  (RequestsOnRecord /\ LateRequestMintsNothing)
             <=> \A q \in Requests : requests[q] # None => GoodRequest(requests[q])
  BY DEF IdTypeOK, RequestsOnRecord, LateRequestMintsNothing, GoodRequest

\* One request changes into nothing or into a good one.
LEMMA RequestChanges ==
    ASSUME IdTypeOK, RequestsOnRecord, LateRequestMintsNothing, UNCHANGED <<runners, installations>>,
           NEW q \in Requests, NEW r, r = None \/ GoodRequest(r),
           requests' = [requests EXCEPT ![q] = r]
    PROVE  /\ requests' \in [Requests -> Request \union {None}]
           /\ RequestsOnRecord' /\ LateRequestMintsNothing'
  <1>1. requests' \in [Requests -> Request \union {None}]
    BY DEF IdTypeOK, GoodRequest
  <1>2. \A p \in Requests : requests'[p] # None => GoodRequest(requests'[p])
    BY GoodRequests DEF IdTypeOK
  <1> QED
    BY <1>1, <1>2 DEF GoodRequest, RequestsOnRecord, LateRequestMintsNothing

LEMMA ArrivedIsGood ==
    ASSUME IdTypeOK, NEW n \in Runners, runners[n] # None,
           NEW kind \in {"rotate", "installation", "job"}, NEW repos \in SUBSET Repositories,
           kind = "job" => repos # {}
    PROVE  GoodRequest(NewRequest(kind, n, runners[n].credential, repos))
  <1> DEFINE late == runners[n].revoked \/ installations[runners[n].installation] # "active"
             r == [kind |-> kind, runner |-> n, credential |-> runners[n].credential,
                   repos |-> repos, installation |-> runners[n].installation, late |-> late]
  <1>1. runners[n] \in RunnerRow
    BY DEF IdTypeOK
  <1>2. runners[n].credential \in Nat \ {0} /\ runners[n].installation \in Installations
    BY <1>1 DEF RunnerRow
  <1>3. late \in BOOLEAN
    OBVIOUS
  <1>4. /\ r.kind = kind /\ r.runner = n /\ r.repos = repos
        /\ r.installation = runners[n].installation /\ r.late = late
    OBVIOUS
  <1>5. r \in Request
    <2> HIDE DEF late
    <2> QED
      BY <1>2, <1>3 DEF Request
  <1>6. NewRequest(kind, n, runners[n].credential, repos) = r
    BY DEF NewRequest
  <1>7. GoodRequest(r)
    <2>1. r.late => runners[n].revoked \/ installations[runners[n].installation] # "active"
      BY <1>4
    <2> HIDE DEF r
    <2> QED
      BY <1>4, <1>5, <2>1 DEF GoodRequest
  <1> QED
    BY <1>6, <1>7

LEMMA GrantedIsGood ==
    ASSUME IdTypeOK, RequestsOnRecord, LateRequestMintsNothing, AssignmentsBacked,
           NEW q \in Requests, requests[q] # None, NEW repos \in SUBSET Repositories, repos # {},
           \A ir \in repos : assignments[ir] = requests[q].runner /\ installations[ir[1]] = "active"
    PROVE  GoodRequest([requests[q] EXCEPT !.kind = "mint", !.repos = repos])
  <1>1. GoodRequest(requests[q])
    BY GoodRequests
  <1> DEFINE r == [requests[q] EXCEPT !.kind = "mint", !.repos = repos]
             n == requests[q].runner
  <1>2. /\ r \in Request /\ r.kind = "mint" /\ r.repos = repos
        /\ r.runner = n /\ r.installation = requests[q].installation
        /\ r.late = requests[q].late
    BY <1>1 DEF GoodRequest, Request
  <1>3. PICK ir \in repos : TRUE
    OBVIOUS
  <1>4. ir \in Repositories /\ n \in Runners
    BY <1>1, <1>3 DEF GoodRequest, Request
  <1>5. /\ ~runners[n].revoked
        /\ runners[n].installation = ir[1]
    <2>1. assignments[ir] # None
      BY <1>3, <1>4, IdentityAssumption
    <2> QED
      BY <1>3, <1>4, <2>1 DEF AssignmentsBacked
  <1>6. ~requests[q].late
    BY <1>1, <1>3, <1>5 DEF GoodRequest
  <1> QED
    BY <1>1, <1>2, <1>6 DEF GoodRequest

LEMMA RequestsKept ==
    ASSUME IdTypeOK, RequestsOnRecord, LateRequestMintsNothing, AssignmentsBacked,
           UNCHANGED <<runners, installations>>, NEW q \in Requests,
           Arrived(q) \/ Granted(q) \/ Released(q)
    PROVE  /\ requests' \in [Requests -> Request \union {None}]
           /\ RequestsOnRecord' /\ LateRequestMintsNothing'
  <1>1. CASE Released(q)
    BY <1>1, RequestChanges DEF Released
  <1>2. CASE Granted(q)
    <2>1. PICK repos \in SUBSET Repositories :
             /\ repos # {}
             /\ \A ir \in repos : assignments[ir] = requests[q].runner /\ installations[ir[1]] = "active"
             /\ requests' = [requests EXCEPT ![q] =
                                [requests[q] EXCEPT !.kind = "mint", !.repos = repos]]
      BY <1>2 DEF Granted
    <2>2. GoodRequest([requests[q] EXCEPT !.kind = "mint", !.repos = repos])
      BY <1>2, <2>1, GrantedIsGood DEF Granted
    <2> QED
      BY <2>1, <2>2, RequestChanges
  <1>3. CASE Arrived(q)
    <2>1. PICK n \in Runners, kind \in {"rotate", "installation", "job"},
               repos \in SUBSET Repositories :
             /\ runners[n] # None
             /\ kind = "job" => repos # {}
             /\ requests' = [requests EXCEPT ![q] = NewRequest(kind, n, runners[n].credential, repos)]
      BY <1>3 DEF Arrived
    <2>2. GoodRequest(NewRequest(kind, n, runners[n].credential, repos))
      BY <2>1, ArrivedIsGood
    <2> QED
      BY <2>1, <2>2, RequestChanges
  <1> QED
    BY <1>1, <1>2, <1>3

\* A rotation that still matches moves its runner to the next credential; any
\* other leaves the runners alone.
LEMMA RotateTypes ==
    ASSUME IdTypeOK, RequestsOnRecord, NEW q \in Requests, RotateRunnerCredential(q)
    PROVE  LET n == requests[q].runner
           IN /\ n \in Runners /\ runners[n] \in RunnerRow
              /\ runners' \in [Runners -> RunnerRow \union {None}]
              /\ \A m \in Runners \ {n} : runners'[m] = runners[m]
              /\ runners'[n] \in RunnerRow
              /\ runners'[n].user = runners[n].user
              /\ runners'[n].installation = runners[n].installation
              /\ runners'[n].revoked = runners[n].revoked
              /\ runners'[n].code = runners[n].code
              /\ \/ runners'[n] = runners[n]
                 \/ /\ runners'[n].credential = runners[n].credential + 1
                    /\ runners'[n].presented = runners[n].presented \union {runners[n].credential}
  <1> DEFINE n == requests[q].runner
             v == requests[q].credential
             row == [runners[n] EXCEPT !.credential = @ + 1, !.presented = @ \union {v}]
  <1>1. requests[q] \in Request
    BY DEF RotateRunnerCredential, IdTypeOK
  <1>2. n \in Runners /\ v \in Nat \ {0}
    BY <1>1 DEF Request
  <1>3. runners[n] \in RunnerRow
    BY <1>1, <1>2 DEF RequestsOnRecord, IdTypeOK, RotateRunnerCredential
  <1>4. CASE ~Rotatable(q)
    <2>1. runners' = runners
      BY <1>4 DEF RotateRunnerCredential
    <2> QED
      BY <1>2, <1>3, <2>1 DEF IdTypeOK
  <1>5. CASE Rotatable(q)
    <2>1. runners' = [runners EXCEPT ![n].credential = @ + 1, ![n].presented = @ \union {v}]
      BY <1>5 DEF RotateRunnerCredential
    <2>2. runners' = [runners EXCEPT ![n] = row]
      BY <1>2, <2>1 DEF IdTypeOK
    <2>3. v = runners[n].credential
      BY <1>5 DEF Rotatable, Authenticates
    <2>4. row \in RunnerRow
      <3>1. runners[n].credential + 1 \in Nat \ {0} /\ runners[n].presented \union {v} \in SUBSET Nat
        BY <1>2, <1>3 DEF RunnerRow
      <3> QED
        BY <1>3, <3>1 DEF RunnerRow
    <2>5. /\ row.user = runners[n].user /\ row.installation = runners[n].installation
          /\ row.revoked = runners[n].revoked /\ row.code = runners[n].code
          /\ row.credential = runners[n].credential + 1
          /\ row.presented = runners[n].presented \union {v}
      BY <1>3 DEF RunnerRow
    <2>6. runners'[n] = row /\ \A m \in Runners \ {n} : runners'[m] = runners[m]
      BY <1>2, <2>2 DEF IdTypeOK
    <2>7. runners' \in [Runners -> RunnerRow \union {None}]
      BY <1>2, <2>2, <2>4 DEF IdTypeOK
    <2> HIDE DEF row
    <2> QED
      BY <1>2, <1>3, <2>3, <2>4, <2>5, <2>6, <2>7
  <1> QED
    BY <1>4, <1>5

LEMMA TickTypes ==
    ASSUME IdTypeOK, Tick
    PROVE  IdTypeOK'
  <1>1. ASSUME NEW c \in Codes, Fresh(codes[c])
        PROVE  [codes[c] EXCEPT !.age = @ + 1] \in CodeRow
    BY <1>1, CodesFresh DEF CodeRow
  <1>2. codes' \in [Codes -> CodeRow \union {None}]
    BY <1>1 DEF Tick, Older, IdTypeOK
  <1>3. ASSUME NEW s \in States, Fresh(states[s])
        PROVE  [states[s] EXCEPT !.age = @ + 1] \in StateRow
    BY <1>3 DEF IdTypeOK, Fresh, StateRow
  <1>4. Older(states) \in [States -> StateRow \union {None}]
    BY <1>3 DEF Older, IdTypeOK
  <1>5. states' \in [States -> StateRow \union {None}]
    BY <1>4 DEF Tick, Kept
  <1>6. ASSUME NEW u \in Users, Fresh(signIn[u])
        PROVE  [signIn[u] EXCEPT !.age = @ + 1] \in SignInCookie
    BY <1>6 DEF IdTypeOK, Fresh, SignInCookie
  <1>7. Older(signIn) \in [Users -> SignInCookie \union {None}]
    BY <1>6 DEF Older, IdTypeOK
  <1>8. signIn' \in [Users -> SignInCookie \union {None}]
    BY <1>7 DEF Tick, Kept
  <1> QED
    BY <1>2, <1>5, <1>8 DEF Tick, IdTypeOK, policyVars, runnerVars

-----------------------------------------------------------------------------
(* The codes.                                                              *)

\* A code stays on record, keeps its approval and stays exchanged.
CodesAdvance ==
    \A c \in Codes : codes[c] # None =>
        /\ codes'[c] # None
        /\ codes[c].grant # None => codes'[c].grant = codes[c].grant
        /\ codes[c].exchanged => codes'[c].exchanged

\* An approval only enters a code together with what backs it.
GrantsEnter ==
    /\ repositories \subseteq repositories'
    /\ \A c \in Codes : codes'[c] # None =>
           \/ codes[c] # None /\ codes'[c].grant = codes[c].grant
           \/ codes'[c].grant = None
           \/ Backed(codes[c].grant)'
    /\ \A c \in Codes : codes'[c] # None =>
           \/ ~codes'[c].exchanged
           \/ codes[c] # None /\ codes[c].grant # None /\ codes'[c].grant = codes[c].grant

LEMMA GrantsKept ==
    ASSUME IdTypeOK, IdTypeOK', GrantsBacked, GrantsEnter
    PROVE  GrantsBacked'
  BY DEF GrantsBacked, GrantsEnter, Backed

LEMMA CodesUnchanged ==
    ASSUME IdTypeOK, GrantsBacked, UNCHANGED codes, repositories \subseteq repositories'
    PROVE  CodesAdvance /\ GrantsEnter
  BY DEF CodesAdvance, GrantsEnter, GrantsBacked, IdTypeOK

LEMMA ApproveAdvances ==
    ASSUME IdTypeOK, GrantsBacked, NEW u \in Users, NEW c \in Codes, NEW i \in Controls[u],
           NEW rs \in SUBSET Repos, ApprovePairing(c, u, i, rs)
    PROVE  CodesAdvance /\ GrantsEnter
  <1> DEFINE g == [user |-> u, installation |-> i, repos |-> {i} \X rs]
  <1>1. i \in Installations
    BY IdentityAssumption
  <1>2. CASE Approvable(c) /\ installations[i] = "active" /\ Requestable(i, rs)
    <2>1. codes[c] \in CodeRow /\ codes[c].grant = None
      BY <1>2, CodesFresh DEF Approvable
    <2>2. /\ codes' = [codes EXCEPT ![c] = [codes[c] EXCEPT !.grant = g]]
          /\ repositories' = repositories \union ({i} \X rs)
      BY <1>2 DEF ApprovePairing, RegisterRepositories
    <2>3. g \in Grant /\ g.repos = {i} \X rs /\ g.user = u /\ g.installation = i
      BY <1>1, <1>2, GrantTypes DEF Requestable
    <2>4. Backed(g)'
      BY <2>2, <2>3 DEF Backed
    <2>5. /\ [codes[c] EXCEPT !.grant = g] \in CodeRow
          /\ [codes[c] EXCEPT !.grant = g].grant = g
          /\ [codes[c] EXCEPT !.grant = g].exchanged = codes[c].exchanged
      BY <2>1, <2>3 DEF CodeRow
    <2>6. /\ codes'[c] = [codes[c] EXCEPT !.grant = g]
          /\ \A d \in Codes \ {c} : codes'[d] = codes[d]
      BY <2>2 DEF IdTypeOK
    <2>7. codes[c] # None /\ codes'[c] # None /\ ~codes[c].exchanged
      BY <2>1, <2>5, <2>6, IdentityAssumption DEF GrantsBacked
    <2> HIDE DEF g
    <2>8. CodesAdvance
      BY <2>1, <2>5, <2>6, <2>7 DEF CodesAdvance
    <2>9. GrantsEnter
      BY <2>1, <2>2, <2>4, <2>5, <2>6, <2>7 DEF GrantsEnter, GrantsBacked
    <2> QED
      BY <2>8, <2>9
  <1>3. CASE ~(Approvable(c) /\ installations[i] = "active" /\ Requestable(i, rs))
    BY <1>3, CodesUnchanged DEF ApprovePairing
  <1> QED
    BY <1>2, <1>3

LEMMA TickAdvances ==
    ASSUME IdTypeOK, GrantsBacked, Tick
    PROVE  CodesAdvance /\ GrantsEnter
  <1>1. ASSUME NEW c \in Codes, codes[c] # None
        PROVE  /\ codes'[c] # None /\ codes'[c].grant = codes[c].grant
               /\ codes'[c].exchanged = codes[c].exchanged
    <2>1. codes[c] \in CodeRow
      BY <1>1 DEF IdTypeOK
    <2>2. /\ [codes[c] EXCEPT !.age = @ + 1] \in CodeRow
          /\ [codes[c] EXCEPT !.age = @ + 1].grant = codes[c].grant
          /\ [codes[c] EXCEPT !.age = @ + 1].exchanged = codes[c].exchanged
      BY <2>1 DEF CodeRow
    <2>3. codes'[c] = codes[c] \/ codes'[c] = [codes[c] EXCEPT !.age = @ + 1]
      BY DEF Tick, Older, IdTypeOK
    <2> QED
      BY <2>1, <2>2, <2>3, IdentityAssumption
  <1>2. ASSUME NEW c \in Codes, codes[c] = None PROVE codes'[c] = None
    BY <1>2 DEF Tick, Older, IdTypeOK, Fresh
  <1>3. UNCHANGED repositories
    BY DEF Tick, policyVars
  <1> QED
    BY <1>1, <1>2, <1>3 DEF CodesAdvance, GrantsEnter, GrantsBacked

LEMMA CreateAdvances ==
    ASSUME IdTypeOK, GrantsBacked, NEW c \in Codes, CreatePairingCode(c)
    PROVE  CodesAdvance /\ GrantsEnter
  <1>1. /\ codes'[c].grant = None /\ ~codes'[c].exchanged
        /\ \A d \in Codes \ {c} : codes'[d] = codes[d]
    BY DEF CreatePairingCode, IdTypeOK
  <1>2. UNCHANGED repositories /\ codes[c] = None
    BY DEF CreatePairingCode, policyVars
  <1> QED
    BY <1>1, <1>2 DEF CodesAdvance, GrantsEnter, GrantsBacked

LEMMA ExchangeAdvances ==
    ASSUME IdTypeOK, GrantsBacked, NEW c \in Codes, NEW n \in Runners, ExchangePairingCode(c, n)
    PROVE  /\ CodesAdvance /\ GrantsEnter
           /\ ~codes[c].exchanged /\ codes'[c].exchanged
  <1>1. /\ codes' = [codes EXCEPT ![c] = [codes[c] EXCEPT !.exchanged = TRUE]]
        /\ ~codes[c].exchanged /\ codes[c].grant # None /\ codes[c] # None
    BY DEF ExchangePairingCode, Exchangeable, Fresh
  <1>2. codes[c] \in CodeRow /\ [codes[c] EXCEPT !.exchanged = TRUE] \in CodeRow
    BY ExchangeTypes
  <1>3. /\ codes'[c] \in CodeRow /\ codes'[c].grant = codes[c].grant /\ codes'[c].exchanged
        /\ \A d \in Codes \ {c} : codes'[d] = codes[d]
    BY <1>1, <1>2 DEF IdTypeOK, CodeRow
  <1>4. codes'[c] # None
    BY <1>3, IdentityAssumption
  <1>5. UNCHANGED repositories
    BY DEF ExchangePairingCode, policyVars
  <1> QED
    BY <1>1, <1>3, <1>4, <1>5 DEF CodesAdvance, GrantsEnter, GrantsBacked

-----------------------------------------------------------------------------
(* The runners.                                                            *)

\* What every step but an exchange does to the runners: a row keeps its user, its
\* installation and its code, and is not revived; no row is added.
RunnersAdvance ==
    \A n \in Runners :
        /\ runners[n] = None <=> runners'[n] = None
        /\ runners[n] # None =>
              /\ runners'[n].user = runners[n].user
              /\ runners'[n].installation = runners[n].installation
              /\ runners'[n].code = runners[n].code
              /\ runners[n].revoked => runners'[n].revoked

LEMMA OneRunnerKept ==
    ASSUME IdTypeOK, CodesOnRecord, OneRunnerPerCode, CodesAdvance, RunnersAdvance
    PROVE  CodesOnRecord' /\ OneRunnerPerCode'
  <1>1. ASSUME NEW n \in Runners, runners'[n] # None
        PROVE  /\ runners[n] # None /\ runners'[n].code = runners[n].code
               /\ runners[n].code \in Codes
    BY <1>1 DEF RunnersAdvance, IdTypeOK, RunnerRow
  <1> QED
    BY <1>1 DEF CodesOnRecord, OneRunnerPerCode, CodesAdvance

LEMMA OneRunnerEnters ==
    ASSUME IdTypeOK, GrantsBacked, CodesOnRecord, OneRunnerPerCode, NEW c \in Codes, NEW n \in Runners,
           ExchangePairingCode(c, n)
    PROVE  CodesOnRecord' /\ OneRunnerPerCode'
  <1>1. CodesAdvance /\ ~codes[c].exchanged /\ codes'[c].exchanged
    BY ExchangeAdvances
  <1>2. /\ runners'[n].code = c /\ runners[n] = None
        /\ \A m \in Runners \ {n} : runners'[m] = runners[m]
    BY ExchangeTypes, ExchangeOthers
  <1>3. codes[c] # None
    BY DEF ExchangePairingCode, Exchangeable, Fresh
  <1>4. ASSUME NEW m \in Runners, m # n, runners'[m] # None
        PROVE  /\ runners'[m] = runners[m] /\ runners[m] # None
               /\ runners[m].code \in Codes /\ codes[runners[m].code] # None
               /\ codes[runners[m].code].exchanged
    BY <1>2, <1>4 DEF CodesOnRecord, OneRunnerPerCode, IdTypeOK, RunnerRow
  <1>5. CodesOnRecord'
    BY <1>1, <1>2, <1>3, <1>4 DEF CodesOnRecord, CodesAdvance
  <1>6. OneRunnerPerCode'
    <2> SUFFICES ASSUME NEW x \in Runners, runners'[x] # None
                 PROVE  /\ codes'[runners'[x].code].exchanged
                        /\ \A m \in Runners \ {x} :
                              runners'[m] # None => runners'[m].code # runners'[x].code
      BY DEF OneRunnerPerCode
    <2>1. CASE x = n
      BY <1>1, <1>2, <1>4, <2>1
    <2>2. CASE x # n
      <3>1. codes'[runners'[x].code].exchanged
        BY <1>1, <1>4, <2>2 DEF CodesAdvance
      <3>2. runners'[n].code # runners'[x].code
        BY <1>1, <1>2, <1>4, <2>2
      <3> QED
        BY <1>4, <2>2, <3>1, <3>2 DEF OneRunnerPerCode
    <2> QED
      BY <2>1, <2>2
  <1> QED
    BY <1>5, <1>6

\* Rows of runners that did not change, or that rotated or were revoked.
LEMMA RunnersUnchanged == UNCHANGED runners => RunnersAdvance
  BY DEF RunnersAdvance

LEMMA RevokeAdvances ==
    ASSUME IdTypeOK, NEW n \in Runners, RevokeRunner(n)
    PROVE  RunnersAdvance
  <1>1. runners'[n].user = runners[n].user
    BY DEF RevokeRunner, IdTypeOK, RunnerRow
  <1> QED
    BY <1>1, RevokeTypes, IdentityAssumption DEF RunnersAdvance, RevokeRunner

LEMMA RotateAdvances ==
    ASSUME IdTypeOK, RequestsOnRecord, NEW q \in Requests, RotateRunnerCredential(q)
    PROVE  RunnersAdvance
  <1> DEFINE n == requests[q].runner
  <1>1. /\ n \in Runners /\ runners[n] \in RunnerRow /\ runners'[n] \in RunnerRow
        /\ runners'[n].user = runners[n].user
        /\ runners'[n].installation = runners[n].installation
        /\ runners'[n].revoked = runners[n].revoked /\ runners'[n].code = runners[n].code
        /\ \A m \in Runners \ {n} : runners'[m] = runners[m]
    BY RotateTypes
  <1> QED
    BY <1>1, IdentityAssumption DEF RunnersAdvance

LEMMA LineageRotates ==
    ASSUME IdTypeOK, RequestsOnRecord, CredentialLineage, NEW q \in Requests,
           RotateRunnerCredential(q)
    PROVE  CredentialLineage'
  <1> DEFINE n == requests[q].runner
  <1>1. /\ n \in Runners /\ runners[n] \in RunnerRow
        /\ \A m \in Runners \ {n} : runners'[m] = runners[m]
        /\ \/ runners'[n] = runners[n]
           \/ /\ runners'[n].credential = runners[n].credential + 1
              /\ runners'[n].presented = runners[n].presented \union {runners[n].credential}
    BY RotateTypes
  <1>2. /\ runners[n].presented = 1..(runners[n].credential - 1)
        /\ runners[n].credential \in Nat \ {0}
    BY <1>1, IdentityAssumption DEF CredentialLineage, RunnerRow
  <1>3. runners'[n].presented = 1..(runners'[n].credential - 1)
    <2>1. ASSUME NEW v \in Nat \ {0}
          PROVE  (1..(v - 1)) \union {v} = 1..v /\ (v + 1) - 1 = v
      OBVIOUS
    <2>2. CASE runners'[n] = runners[n]
      BY <1>2, <2>2
    <2>3. CASE /\ runners'[n].credential = runners[n].credential + 1
               /\ runners'[n].presented = runners[n].presented \union {runners[n].credential}
      BY <1>2, <2>1, <2>3
    <2> QED
      BY <1>1, <2>2, <2>3
  <1> QED
    BY <1>1, <1>3 DEF CredentialLineage

-----------------------------------------------------------------------------
(* The assignments, the requests and the cookies.                          *)

LEMMA AssignmentsKept ==
    ASSUME IdTypeOK, AssignmentsBacked, UNCHANGED assignments, repositories \subseteq repositories',
           RunnersAdvance, \A n \in Runners : runners'[n] # None => runners'[n].revoked = runners[n].revoked
    PROVE  AssignmentsBacked'
  BY DEF AssignmentsBacked, RunnersAdvance, IdTypeOK

LEMMA AssignmentsEnter ==
    ASSUME IdTypeOK, GrantsBacked, AssignmentsBacked, NEW c \in Codes, NEW n \in Runners,
           ExchangePairingCode(c, n)
    PROVE  AssignmentsBacked'
  <1> DEFINE g == codes[c].grant
  <1>1. g # None /\ codes[c] # None /\ runners[n] = None
    BY DEF ExchangePairingCode, Exchangeable, Fresh
  <1>2. Backed(g)
    BY <1>1 DEF GrantsBacked
  <1>3. /\ runners'[n] \in RunnerRow
        /\ ~runners'[n].revoked
        /\ runners'[n].user = g.user
        /\ runners'[n].installation = g.installation
        /\ \A m \in Runners \ {n} : runners'[m] = runners[m]
    <2>1. runners'[n] \in RunnerRow
      BY ExchangeTypes
    <2>2. ~runners'[n].revoked
      BY ExchangeTypes
    <2>3. runners'[n].user = g.user /\ runners'[n].installation = g.installation
      BY ExchangeTypes
    <2>4. \A m \in Runners \ {n} : runners'[m] = runners[m]
      BY ExchangeOthers
    <2> QED
      BY <2>1, <2>2, <2>3, <2>4
  <1>4. runners'[n] # None
    BY <1>3, IdentityAssumption
  <1>5. /\ assignments' = [ir \in Repositories |-> IF ir \in g.repos THEN n ELSE assignments[ir]]
        /\ UNCHANGED repositories
    BY DEF ExchangePairingCode, AssignRepositoriesToRunner, policyVars
  <1> SUFFICES ASSUME NEW ir \in Repositories, assignments'[ir] # None
               PROVE  /\ runners'[assignments'[ir]] # None /\ ~runners'[assignments'[ir]].revoked
                      /\ runners'[assignments'[ir]].installation = ir[1]
                      /\ ir[1] \in Controls[runners'[assignments'[ir]].user]
                      /\ ir \in repositories'
    BY DEF AssignmentsBacked
  <1>6. CASE ir \in g.repos
    BY <1>2, <1>3, <1>4, <1>5, <1>6 DEF Backed
  <1>7. CASE ir \notin g.repos
    <2>1. assignments'[ir] = assignments[ir] /\ assignments[ir] \in Runners
      BY <1>5, <1>7 DEF IdTypeOK
    <2>2. assignments[ir] # n
      BY <1>1, <2>1 DEF AssignmentsBacked
    <2> QED
      BY <1>3, <1>5, <2>1, <2>2 DEF AssignmentsBacked
  <1> QED
    BY <1>6, <1>7

\* A revoked runner loses its assignments in the same transaction.
LEMMA AssignmentsReleased ==
    ASSUME IdTypeOK, AssignmentsBacked, NEW n \in Runners, RevokeRunner(n)
    PROVE  AssignmentsBacked'
  <1>1. /\ assignments' = [ir \in Repositories |-> IF assignments[ir] = n THEN None ELSE assignments[ir]]
        /\ UNCHANGED repositories
    BY DEF RevokeRunner, policyVars
  <1>2. \A m \in Runners \ {n} : runners'[m] = runners[m]
    BY RevokeTypes
  <1>3. ASSUME NEW ir \in Repositories, assignments'[ir] # None
        PROVE  assignments'[ir] = assignments[ir] /\ assignments[ir] \in Runners \ {n}
    BY <1>1, <1>3 DEF IdTypeOK
  <1> QED
    BY <1>1, <1>2, <1>3 DEF AssignmentsBacked

LEMMA RequestsStay ==
    ASSUME IdTypeOK, RequestsOnRecord, RunnersAdvance, UNCHANGED requests,
           \A i \in Installations : installations[i] # "active" => installations'[i] # "active"
    PROVE  RequestsOnRecord'
  <1>1. ASSUME NEW q \in Requests, requests[q] # None
        PROVE  requests[q].runner \in Runners /\ requests[q].installation \in Installations
    BY <1>1 DEF IdTypeOK, Request
  <1> QED
    BY <1>1 DEF RequestsOnRecord, RunnersAdvance

LEMMA RequestsPardoned ==
    ASSUME IdTypeOK, RequestsOnRecord, LateRequestMintsNothing, NEW i \in Installations,
           UNCHANGED runners, Pardon(i), RegisterInstallation(i)
    PROVE  RequestsOnRecord' /\ LateRequestMintsNothing'
  <1> SUFFICES ASSUME NEW q \in Requests, requests'[q] # None
               PROVE  /\ runners[requests'[q].runner] # None
                      /\ requests'[q].installation = runners[requests'[q].runner].installation
                      /\ requests'[q].kind = "job" => requests'[q].repos # {}
                      /\ requests'[q].late => \/ runners[requests'[q].runner].revoked
                                              \/ installations'[requests'[q].installation] # "active"
                      /\ requests'[q].kind = "mint" => ~requests'[q].late
    BY DEF RequestsOnRecord, LateRequestMintsNothing
  <1>1. requests[q] # None
    BY DEF Pardon
  <1>2. GoodRequest(requests[q])
    BY <1>1, GoodRequests
  <1>3. CASE requests[q].installation # i
    <2>1. requests'[q] = requests[q]
      BY <1>3 DEF Pardon
    <2>2. installations'[requests[q].installation] = installations[requests[q].installation]
      BY <1>2, <1>3 DEF RegisterInstallation, IdTypeOK, GoodRequest, Request
    <2> QED
      BY <1>2, <2>1, <2>2 DEF GoodRequest
  <1>4. CASE requests[q].installation = i
    <2>1. requests'[q] = [requests[q] EXCEPT !.late =
                             requests[q].late /\ runners[requests[q].runner].revoked]
      BY <1>1, <1>4 DEF Pardon
    <2>2. /\ requests'[q].runner = requests[q].runner /\ requests'[q].kind = requests[q].kind
          /\ requests'[q].repos = requests[q].repos
          /\ requests'[q].installation = requests[q].installation
          /\ requests'[q].late = (requests[q].late /\ runners[requests[q].runner].revoked)
      BY <1>2, <2>1 DEF GoodRequest, Request
    <2> QED
      BY <1>2, <2>2 DEF GoodRequest
  <1> QED
    BY <1>3, <1>4

\* An exchange adds a runner that no request can be about.
LEMMA RequestsOfOthers ==
    ASSUME IdTypeOK, GrantsBacked, RequestsOnRecord, NEW c \in Codes, NEW n \in Runners,
           ExchangePairingCode(c, n)
    PROVE  RequestsOnRecord'
  <1>1. /\ \A m \in Runners \ {n} : runners'[m] = runners[m]
        /\ runners[n] = None /\ UNCHANGED <<requests, installations>>
    BY ExchangeOthers DEF ExchangePairingCode, policyVars
  <1>2. ASSUME NEW q \in Requests, requests[q] # None
        PROVE  requests[q].runner \in Runners \ {n}
    BY <1>1, <1>2 DEF RequestsOnRecord, IdTypeOK, Request
  <1> QED
    BY <1>1, <1>2 DEF RequestsOnRecord

LEMMA StatesBoundKept ==
    ASSUME IdTypeOK, StatesBound,
           \A s \in States : states'[s] # None => states[s] # None /\ states'[s].by = states[s].by,
           \A u \in Users : binding'[u] = binding[u] \/ binding'[u] = None
    PROVE  StatesBound'
  BY IdentityAssumption DEF StatesBound, IdTypeOK

LEMMA StatesBoundBegin ==
    ASSUME IdTypeOK, StatesBound, NEW u \in Users, NEW s \in States, NEW c,
           BeginSignInRoute(u, s, c)
    PROVE  StatesBound'
  <1>1. binding' = [x \in Users |-> IF x = u THEN s ELSE IF binding[x] = s THEN None ELSE binding[x]]
    BY DEF BeginSignInRoute
  <1>2. states'[s].by = u /\ \A t \in States \ {s} : states'[t] = states[t]
    BY DEF BeginSignInRoute, BeginSignIn, IdTypeOK
  <1> SUFFICES ASSUME NEW x \in Users, NEW t \in States, states'[t] # None, binding'[x] = t
               PROVE  states'[t].by = x
    BY DEF StatesBound
  <1>3. CASE x = u
    BY <1>1, <1>2, <1>3
  <1>4. CASE x # u
    <2>1. binding'[x] = IF binding[x] = s THEN None ELSE binding[x]
      BY <1>1, <1>4
    <2>2. t # s /\ binding[x] = t
      BY <2>1, IdentityAssumption
    <2> QED
      BY <1>2, <2>2 DEF StatesBound
  <1> QED
    BY <1>3, <1>4

LEMMA StatesBoundTick ==
    ASSUME IdTypeOK, StatesBound, Tick
    PROVE  StatesBound'
  <1>1. ASSUME NEW s \in States, states'[s] # None
        PROVE  states[s] # None /\ states'[s].by = states[s].by
    <2>1. states'[s] = Older(states)[s]
      BY <1>1 DEF Tick, Kept, Older, IdTypeOK
    <2>2. Older(states)[s] = states[s] \/ Older(states)[s] = [states[s] EXCEPT !.age = @ + 1]
      BY DEF Older, IdTypeOK
    <2>3. states[s] # None
      BY <1>1, <2>1 DEF Older, Fresh, IdTypeOK
    <2>4. states[s] \in StateRow
      BY <2>3 DEF IdTypeOK
    <2> QED
      BY <2>1, <2>2, <2>3, <2>4 DEF StateRow
  <1> QED
    BY <1>1, StatesBoundKept DEF Tick

-----------------------------------------------------------------------------
(* The invariant is inductive.                                             *)

\* Steps that leave the runners, the assignments and the requests alone.
LEMMA PolicyStep ==
    ASSUME IdInv, IdTypeOK', CodesAdvance, GrantsEnter, StatesBound',
           UNCHANGED <<installations, runners, assignments, requests>>
    PROVE  IdInv'
  <1>1. GrantsBacked'
    BY GrantsKept DEF IdInv
  <1>2. CodesOnRecord' /\ OneRunnerPerCode'
    BY OneRunnerKept, RunnersUnchanged DEF IdInv
  <1>3. AssignmentsBacked'
    BY AssignmentsKept, RunnersUnchanged DEF IdInv, GrantsEnter
  <1>4. RequestsOnRecord'
    BY RequestsStay, RunnersUnchanged DEF IdInv
  <1>5. CredentialLineage' /\ LateRequestMintsNothing'
    BY DEF IdInv, CredentialLineage, LateRequestMintsNothing
  <1> QED
    BY <1>1, <1>2, <1>3, <1>4, <1>5 DEF IdInv

LEMMA InstallationInv ==
    ASSUME IdInv,
           \/ \E i \in Installations, listed \in BOOLEAN : HandleInstallationRegistered(i, listed)
           \/ \E i \in Installations : HandleInstallationRevoked(i)
           \/ \E ir \in Repositories : HandleInstallationRepositories(ir)
    PROVE  IdInv' /\ CodesAdvance
  <1>1. /\ UNCHANGED <<codes, states, binding, signIn, callback, runners, assignments, lease>>
        /\ repositories \subseteq repositories'
    BY DEF HandleInstallationRegistered, HandleInstallationRevoked, HandleInstallationRepositories,
           SyncRepositories, RegisterRepositories, signInVars, runnerVars
  <1>2. IdTypeOK'
    BY InstallationTypes DEF IdInv
  <1>3. CodesAdvance /\ GrantsEnter
    BY <1>1, CodesUnchanged DEF IdInv
  <1>4. GrantsBacked'
    BY <1>2, <1>3, GrantsKept DEF IdInv
  <1>5. CodesOnRecord' /\ OneRunnerPerCode'
    BY <1>1, <1>3, OneRunnerKept, RunnersUnchanged DEF IdInv
  <1>6. AssignmentsBacked'
    BY <1>1, AssignmentsKept, RunnersUnchanged DEF IdInv
  <1>7. StatesBound' /\ CredentialLineage'
    BY <1>1 DEF IdInv, StatesBound, CredentialLineage
  <1>8. RequestsOnRecord' /\ LateRequestMintsNothing'
    <2>1. ASSUME NEW i \in Installations, NEW listed \in BOOLEAN,
                 HandleInstallationRegistered(i, listed)
          PROVE  RequestsOnRecord' /\ LateRequestMintsNothing'
      BY <1>1, <2>1, RequestsPardoned DEF HandleInstallationRegistered, IdInv
    <2>2. ASSUME NEW i \in Installations, HandleInstallationRevoked(i)
          PROVE  RequestsOnRecord' /\ LateRequestMintsNothing'
      <3>1. \A j \in Installations : installations[j] # "active" => installations'[j] # "active"
        BY <2>2 DEF HandleInstallationRevoked, IdInv, IdTypeOK
      <3>2. UNCHANGED requests
        BY <2>2 DEF HandleInstallationRevoked
      <3> QED
        BY <1>1, <3>1, <3>2, RequestsStay, RunnersUnchanged DEF IdInv, LateRequestMintsNothing
    <2>3. ASSUME NEW ir \in Repositories, HandleInstallationRepositories(ir)
          PROVE  RequestsOnRecord' /\ LateRequestMintsNothing'
      <3>1. UNCHANGED <<requests, installations>>
        BY <2>3 DEF HandleInstallationRepositories
      <3> QED
        BY <1>1, <3>1, RequestsStay, RunnersUnchanged DEF IdInv, LateRequestMintsNothing
    <2> QED
      BY <2>1, <2>2, <2>3
  <1> QED
    BY <1>2, <1>3, <1>4, <1>5, <1>6, <1>7, <1>8 DEF IdInv

LEMMA BrowserInv ==
    ASSUME IdInv, NEW u \in Users,
           \/ \E s \in States, c \in Codes \union {None} : BeginSignInRoute(u, s, c)
           \/ \E s \in States : CompleteSignIn(u, s)
           \/ CallbackFails(u)
           \/ SignOut(u)
           \/ CallbackReturns(u)
           \/ \E c \in Codes, i \in Installations, rs \in SUBSET Repos :
                  ApprovePairingRoute(u, c, i, rs)
    PROVE  IdInv' /\ CodesAdvance
  <1>1. UNCHANGED <<installations, runners, assignments, requests>>
    BY DEF BeginSignInRoute, CompleteSignIn, CallbackFails, SignOut, CallbackReturns,
           ApprovePairingRoute, policyVars, runnerVars
  <1>2. IdTypeOK'
    BY SignInTypes, ApprovalTypes DEF IdInv
  <1>3. CodesAdvance /\ GrantsEnter
    <2>1. CASE CallbackReturns(u) \/ \E c \in Codes, i \in Installations, rs \in SUBSET Repos :
                  ApprovePairingRoute(u, c, i, rs)
      BY <2>1, ApprovedByController, ApproveAdvances, CodesUnchanged DEF IdInv
    <2>2. CASE UNCHANGED <<codes, repositories>>
      BY <2>2, CodesUnchanged DEF IdInv
    <2> QED
      BY <2>1, <2>2 DEF BeginSignInRoute, CompleteSignIn, CallbackFails, SignOut, policyVars
  <1>4. StatesBound'
    <2>1. ASSUME NEW s \in States, NEW c, BeginSignInRoute(u, s, c) PROVE StatesBound'
      BY <2>1, StatesBoundBegin DEF IdInv
    <2>2. ASSUME NEW s \in States, CompleteSignIn(u, s) PROVE StatesBound'
      BY <2>2, StatesBoundKept DEF CompleteSignIn, IdInv, IdTypeOK
    <2>3. ASSUME CallbackFails(u) \/ SignOut(u) \/ CallbackReturns(u)
                 \/ \E c \in Codes, i \in Installations, rs \in SUBSET Repos :
                       ApprovePairingRoute(u, c, i, rs)
          PROVE  StatesBound'
      <3>1. UNCHANGED states
        BY <2>3 DEF CallbackFails, SignOut, CallbackReturns, ApprovePairingRoute
      <3>2. \A x \in Users : binding'[x] = binding[x] \/ binding'[x] = None
        BY <2>3 DEF CallbackFails, SignOut, CallbackReturns, ApprovePairingRoute, IdInv, IdTypeOK
      <3> QED
        BY <3>1, <3>2, StatesBoundKept DEF IdInv
    <2> QED
      BY <2>1, <2>2, <2>3
  <1> QED
    BY <1>1, <1>2, <1>3, <1>4, PolicyStep

LEMMA RunnerInv ==
    ASSUME IdInv,
           \/ \E c \in Codes : CreatePairingCode(c)
           \/ \E c \in Codes, n \in Runners : ExchangePairingCode(c, n)
           \/ \E n \in Runners : RevokeRunner(n) \/ LeaseEnds(n)
           \/ \E n \in Runners, ir \in Repositories : ClaimLease(n, ir)
    PROVE  IdInv' /\ CodesAdvance
  <1>1. IdTypeOK'
    BY RunnerTypes DEF IdInv
  <1>2. ASSUME NEW c \in Codes, CreatePairingCode(c) PROVE IdInv' /\ CodesAdvance
    <2>1. UNCHANGED <<installations, states, binding, runners, assignments, requests>>
      BY <1>2 DEF CreatePairingCode, policyVars, signInVars, runnerVars
    <2>2. StatesBound'
      BY <2>1 DEF IdInv, StatesBound
    <2> QED
      BY <1>1, <1>2, <2>1, <2>2, CreateAdvances, PolicyStep DEF IdInv
  <1>3. ASSUME NEW c \in Codes, NEW n \in Runners, ExchangePairingCode(c, n)
        PROVE  IdInv' /\ CodesAdvance
    <2>1. CodesAdvance /\ GrantsEnter
      BY <1>3, ExchangeAdvances DEF IdInv
    <2>2. GrantsBacked'
      BY <1>1, <2>1, GrantsKept DEF IdInv
    <2>3. CodesOnRecord' /\ OneRunnerPerCode'
      BY <1>3, OneRunnerEnters DEF IdInv
    <2>4. AssignmentsBacked'
      BY <1>3, AssignmentsEnter DEF IdInv
    <2>5. RequestsOnRecord'
      BY <1>3, RequestsOfOthers DEF IdInv
    <2>6. LateRequestMintsNothing' /\ StatesBound'
      BY <1>3 DEF ExchangePairingCode, signInVars, IdInv, LateRequestMintsNothing, StatesBound
    <2>7. CredentialLineage'
      <3>1. /\ runners'[n].credential = 1 /\ runners'[n].presented = {}
            /\ \A m \in Runners \ {n} : runners'[m] = runners[m]
        BY <1>3, ExchangeTypes, ExchangeOthers DEF IdInv
      <3>2. runners'[n].presented = 1..(runners'[n].credential - 1)
        BY <3>1
      <3> QED
        BY <3>1, <3>2 DEF CredentialLineage, IdInv
    <2> QED
      BY <1>1, <2>1, <2>2, <2>3, <2>4, <2>5, <2>6, <2>7 DEF IdInv
  <1>4. ASSUME NEW n \in Runners, RevokeRunner(n) PROVE IdInv' /\ CodesAdvance
    <2>1. UNCHANGED <<installations, repositories, codes, states, binding, requests>>
      BY <1>4 DEF RevokeRunner, policyVars, signInVars
    <2>2. RunnersAdvance
      BY <1>4, RevokeAdvances DEF IdInv
    <2>3. CodesAdvance /\ GrantsEnter
      BY <2>1, CodesUnchanged DEF IdInv
    <2>4. GrantsBacked'
      BY <1>1, <2>3, GrantsKept DEF IdInv
    <2>5. CodesOnRecord' /\ OneRunnerPerCode'
      BY <2>2, <2>3, OneRunnerKept DEF IdInv
    <2>6. AssignmentsBacked'
      BY <1>4, AssignmentsReleased DEF IdInv
    <2>7. RequestsOnRecord'
      BY <2>1, <2>2, RequestsStay DEF IdInv
    <2>8. LateRequestMintsNothing' /\ StatesBound'
      BY <2>1 DEF IdInv, LateRequestMintsNothing, StatesBound
    <2>9. CredentialLineage'
      <3>1. /\ runners'[n].credential = runners[n].credential
            /\ runners'[n].presented = runners[n].presented
            /\ runners[n] # None
            /\ \A m \in Runners \ {n} : runners'[m] = runners[m]
        BY <1>4, RevokeTypes DEF IdInv, RevokeRunner
      <3> QED
        BY <3>1 DEF CredentialLineage, IdInv
    <2> QED
      BY <1>1, <2>3, <2>4, <2>5, <2>6, <2>7, <2>8, <2>9 DEF IdInv
  <1>5. ASSUME \/ \E n \in Runners : LeaseEnds(n)
               \/ \E n \in Runners, ir \in Repositories : ClaimLease(n, ir)
        PROVE  IdInv' /\ CodesAdvance
    <2>1. UNCHANGED <<installations, repositories, codes, states, binding, runners, assignments, requests>>
      BY <1>5 DEF LeaseEnds, ClaimLease, policyVars, signInVars
    <2>2. StatesBound'
      BY <2>1 DEF IdInv, StatesBound
    <2> QED
      BY <1>1, <2>1, <2>2, CodesUnchanged, PolicyStep DEF IdInv
  <1> QED
    BY <1>2, <1>3, <1>4, <1>5

LEMMA RequestInv ==
    ASSUME IdInv, NEW q \in Requests,
           \/ \E n \in Runners, kind \in {"rotate", "installation"} : AuthenticateRunner(q, n, kind)
           \/ \E n \in Runners : IssueJobToken(q, n)
           \/ IssueRunnerInstallationToken(q)
           \/ AuthorizeJobToken(q)
           \/ MintToken(q)
    PROVE  IdInv' /\ CodesAdvance
  <1>1. /\ Arrived(q) \/ Granted(q) \/ Released(q)
        /\ UNCHANGED <<installations, repositories, codes, states, binding, signIn, callback,
                       runners, assignments, lease>>
    BY RequestCases DEF IdInv
  <1>2. /\ requests' \in [Requests -> Request \union {None}]
        /\ RequestsOnRecord' /\ LateRequestMintsNothing'
    BY <1>1, RequestsKept DEF IdInv
  <1>3. IdTypeOK'
    BY <1>1, <1>2 DEF IdInv, IdTypeOK
  <1>4. CodesAdvance /\ GrantsEnter
    BY <1>1, CodesUnchanged DEF IdInv
  <1>5. GrantsBacked'
    BY <1>3, <1>4, GrantsKept DEF IdInv
  <1>6. CodesOnRecord' /\ OneRunnerPerCode'
    BY <1>1, <1>4, OneRunnerKept, RunnersUnchanged DEF IdInv
  <1>7. AssignmentsBacked'
    BY <1>1, AssignmentsKept, RunnersUnchanged DEF IdInv
  <1>8. CredentialLineage' /\ StatesBound'
    BY <1>1 DEF IdInv, CredentialLineage, StatesBound
  <1> QED
    BY <1>2, <1>3, <1>4, <1>5, <1>6, <1>7, <1>8 DEF IdInv

LEMMA RotateInv ==
    ASSUME IdInv, NEW q \in Requests, RotateRunnerCredential(q)
    PROVE  IdInv' /\ CodesAdvance
  <1>1. /\ UNCHANGED <<installations, repositories, codes, states, binding, signIn, callback,
                       assignments, lease>>
        /\ requests' = [requests EXCEPT ![q] = None]
    BY DEF RotateRunnerCredential, policyVars, signInVars
  <1>2. RunnersAdvance
    BY RotateAdvances DEF IdInv
  <1>3. IdTypeOK'
    <2>1. runners' \in [Runners -> RunnerRow \union {None}]
      BY RotateTypes DEF IdInv
    <2>2. requests' \in [Requests -> Request \union {None}]
      BY <1>1 DEF IdInv, IdTypeOK
    <2> QED
      BY <1>1, <2>1, <2>2 DEF IdInv, IdTypeOK
  <1>4. CodesAdvance /\ GrantsEnter
    BY <1>1, CodesUnchanged DEF IdInv
  <1>5. GrantsBacked'
    BY <1>3, <1>4, GrantsKept DEF IdInv
  <1>6. CodesOnRecord' /\ OneRunnerPerCode'
    BY <1>2, <1>4, OneRunnerKept DEF IdInv
  <1>7. AssignmentsBacked'
    <2>1. \A n \in Runners : runners'[n] # None => runners'[n].revoked = runners[n].revoked
      BY RotateTypes DEF IdInv
    <2> QED
      BY <1>1, <1>2, <2>1, AssignmentsKept DEF IdInv
  <1>8. RequestsOnRecord' /\ LateRequestMintsNothing'
    <2>1. ASSUME NEW p \in Requests, requests'[p] # None
          PROVE  /\ requests'[p] = requests[p] /\ requests[p] # None
                 /\ requests[p].runner \in Runners
      BY <1>1, <2>1 DEF IdInv, IdTypeOK, Request
    <2>2. RequestsOnRecord'
      BY <1>1, <1>2, <2>1 DEF IdInv, RequestsOnRecord, RunnersAdvance
    <2>3. LateRequestMintsNothing'
      BY <2>1 DEF IdInv, LateRequestMintsNothing
    <2> QED
      BY <2>2, <2>3
  <1>9. CredentialLineage' /\ StatesBound'
    BY <1>1, LineageRotates DEF IdInv, StatesBound
  <1> QED
    BY <1>3, <1>4, <1>5, <1>6, <1>7, <1>8, <1>9 DEF IdInv

LEMMA NextInv ==
    ASSUME IdInv, [IdNext]_idVars
    PROVE  IdInv' /\ CodesAdvance
  <1>1. CASE InstallationStep
    BY <1>1, InstallationInv DEF InstallationStep
  <1>2. CASE BrowserStep
    BY <1>2, BrowserInv DEF BrowserStep
  <1>3. CASE RunnerStep
    BY <1>3, RunnerInv DEF RunnerStep
  <1>4. CASE RequestStep
    BY <1>4, RequestInv, RotateInv
       DEF RequestStep, RotateRunnerCredentialRoute, IssueInstallationTokenRoute
  <1>5. CASE Tick
    <2>1. UNCHANGED <<installations, runners, assignments, requests>>
      BY <1>5 DEF Tick, policyVars, runnerVars
    <2> QED
      BY <1>5, <2>1, TickTypes, TickAdvances, StatesBoundTick, PolicyStep DEF IdInv
  <1>6. CASE UNCHANGED idVars
    BY <1>6 DEF idVars, IdInv, IdTypeOK, GrantsBacked, Backed, CodesOnRecord, RequestsOnRecord,
                StatesBound, AssignmentsBacked, OneRunnerPerCode, CredentialLineage,
                LateRequestMintsNothing, CodesAdvance
  <1> QED
    BY <1>1, <1>2, <1>3, <1>4, <1>5, <1>6 DEF IdNext

-----------------------------------------------------------------------------
(* The theorems.                                                           *)

LEMMA InvHolds == IdSpec => []IdInv
  BY InitInv, NextInv, PTL DEF IdSpec

\* Every table, cookie and request of the hosted side has its type, and what an
\* approval wrote into a pairing code stays backed by registered repositories of
\* an installation its user controls.
THEOREM IdentityTypes == IdSpec => [](IdTypeOK /\ GrantsBacked)
  <1>1. IdInv => IdTypeOK /\ GrantsBacked
    BY DEF IdInv
  <1> QED
    BY <1>1, InvHolds, PTL

\* A repository is assigned to a live runner of its own installation that a user
\* who controls it paired, for any number of codes, runners, users and requests
\* and any order of approvals, exchanges, revocations and webhooks.
THEOREM AssignmentsAlwaysBacked == IdSpec => []AssignmentsBacked
  <1>1. IdInv => AssignmentsBacked
    BY DEF IdInv
  <1> QED
    BY <1>1, InvHolds, PTL

\* No pairing code ever becomes two runners, and a runner's code stays exchanged.
THEOREM OneRunnerPerCodeHolds == IdSpec => []OneRunnerPerCode
  <1>1. IdInv => OneRunnerPerCode
    BY DEF IdInv
  <1> QED
    BY <1>1, InvHolds, PTL

\* A request that arrived after its runner or installation was revoked reaches no
\* mint, however many requests run between the transactions of each other.
THEOREM LateRequestsMintNothing == IdSpec => []LateRequestMintsNothing
  <1>1. IdInv => LateRequestMintsNothing
    BY DEF IdInv
  <1> QED
    BY <1>1, InvHolds, PTL

\* Each credential of a runner but its current one was presented to the rotation
\* that replaced it, for any number of concurrent rotations and credentials.
THEOREM CredentialsKeepLineage == IdSpec => []CredentialLineage
  <1>1. IdInv => CredentialLineage
    BY DEF IdInv
  <1> QED
    BY <1>1, InvHolds, PTL

\* No step of any actor repoints or takes back an approval, nor an exchange.
THEOREM ApprovalsAreFinal == IdSpec => ApprovalIsFinal
  <1>1. IdInv /\ [IdNext]_idVars =>
            [\A c \in Codes : (codes[c] # None /\ codes[c].grant # None) =>
                 /\ codes'[c].grant = codes[c].grant
                 /\ codes[c].exchanged => codes'[c].exchanged]_idVars
    BY NextInv DEF CodesAdvance
  <1> QED
    BY <1>1, InvHolds, PTL DEF IdSpec, ApprovalIsFinal

LEMMA CallbackStep ==
    ASSUME IdInv, IdNext, NEW u \in Users, NEW s \in States,
           states[s] # None, states'[s] = None, callback[u] = None, callback'[u] # None
    PROVE  states[s].by = u
  <1>1. \E x \in Users, t \in States : CompleteSignIn(x, t)
    <2>1. CASE InstallationStep \/ RunnerStep \/ RequestStep \/ Tick
      <3>1. UNCHANGED callback
        BY <2>1 DEF InstallationStep, HandleInstallationRegistered, HandleInstallationRevoked,
             HandleInstallationRepositories, RunnerStep, CreatePairingCode, ExchangePairingCode,
             RevokeRunner, ClaimLease, LeaseEnds, RequestStep, RotateRunnerCredentialRoute,
             IssueInstallationTokenRoute, AuthenticateRunner, IssueJobToken,
             RotateRunnerCredential, IssueRunnerInstallationToken, AuthorizeJobToken, MintToken,
             Becomes, Tick, signInVars
      <3> QED
        BY <3>1
    <2>2. ASSUME NEW x \in Users, CallbackReturns(x) \/ CallbackFails(x) PROVE FALSE
      BY <2>2 DEF CallbackReturns, CallbackFails, IdInv, IdTypeOK
    <2>3. ASSUME NEW x \in Users,
                 \/ \E t \in States, c \in Codes \union {None} : BeginSignInRoute(x, t, c)
                 \/ \E c \in Codes, i \in Installations, rs \in SUBSET Repos :
                        ApprovePairingRoute(x, c, i, rs)
                 \/ SignOut(x)
          PROVE  FALSE
      BY <2>3 DEF BeginSignInRoute, ApprovePairingRoute, SignOut
    <2> QED
      BY <2>1, <2>2, <2>3 DEF IdNext, BrowserStep
  <1>2. PICK x \in Users, t \in States : CompleteSignIn(x, t)
    BY <1>1
  <1>3. x = u /\ t = s
    BY <1>2 DEF CompleteSignIn, IdInv, IdTypeOK
  <1> QED
    BY <1>2, <1>3 DEF CompleteSignIn, StateMatches, IdInv, StatesBound

\* A callback only ever spends a state that was issued to its own browser, for
\* any number of browsers, states and retried sign-ins.
THEOREM CallbacksInTheirOwnBrowser == IdSpec => CallbackInItsOwnBrowser
  <1>1. IdInv /\ [IdNext]_idVars =>
            [\A u \in Users, s \in States :
                (states[s] # None /\ states'[s] = None /\ callback[u] = None /\ callback'[u] # None)
                    => states[s].by = u]_idVars
    BY CallbackStep
  <1> QED
    BY <1>1, InvHolds, PTL DEF IdSpec, CallbackInItsOwnBrowser

=============================================================================
