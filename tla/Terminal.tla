------------------------------ MODULE Terminal ------------------------------
(***************************************************************************)
(* The terminal interface of the runner: signing in with a pairing code,   *)
(* the secrets and the installation snapshot it keeps, its sections, auto  *)
(* review, and logging out.  The worker thread of a sign-in, the message   *)
(* queue of the interface, its timers, the person at the keyboard and in   *)
(* the browser, and the hosted plane interleave.                           *)
(*                                                                         *)
(* A handler of the interface runs to its end before the next one, so it   *)
(* is one action, with the answers of the HTTP calls it makes as choices.  *)
(* Closing the interface, or killing it, loses what it keeps in memory and *)
(* leaves the secrets and the snapshot file.                               *)
(***************************************************************************)
EXTENDS Naturals, Sequences, FiniteSets

CONSTANTS
    Accounts,       \* GitHub accounts a browser may approve a pairing with
    Codes,          \* pairing codes; the runner a code becomes has its name
    PullRequests,   \* pull requests auto review hears of
    Heads,          \* their head commits
    MaxPolls,       \* polls of the pairing status before the deadline
    None

ASSUME TerminalAssumption ==
    /\ MaxPolls \in Nat \ {0}
    /\ None \notin Codes

Sections == {"repositories", "reviews", "agent-prompts", "profile"}

VARIABLES
    open,           \* the interface is running
    screen,         \* what the content pane shows
    shown,          \* the account whose snapshot the pane shows, or None
    dialog,         \* the log out confirmation is on top
    started,        \* ConnectPanel._sign_in_started
    status,         \* ConnectPanel.pairing_status
    worker,         \* the sign-in thread: its stage, code and polls
    mail,           \* messages posted to the interface, oldest first
    countdown,      \* the timer between "signed in" and the connected view runs
    credential,     \* runner_credential in the secret store: a code, or None
    modelKey,       \* a model key is in the secret store
    memory,         \* ReviewerApp._installation_snapshot: an account, or None
    disk,           \* installation.json: an account, or None
    auto,           \* AutoReviewCoordinator.running
    heads,          \* its active heads
    beside,         \* history: the credential was taken from beside the open interface
    codes,          \* the hosted plane: code -> its state and account
    live            \* the hosted plane: runners that are paired and not revoked

secretVars == <<credential, modelKey>>
panelVars == <<started, status, worker, mail>>
paneVars == <<screen, shown, dialog>>
autoVars == <<auto, heads>>
hostedVars == <<codes, live>>
snapshotVars == <<memory, disk>>
termVars == <<open, beside, countdown, secretVars, panelVars, paneVars, autoVars, hostedVars,
              snapshotVars>>

Idle == [stage |-> "idle", code |-> None, polls |-> 0]

GithubConnected == credential # None

NoHeads == [p \in PullRequests |-> None]

AccountOf(c) == codes[c].account

\* Nobody may press a key underneath the confirmation.
AtKeyboard == open /\ ~dialog

-----------------------------------------------------------------------------
\* The installation snapshot: memory first, then the hosted plane, then the file.

Fetches(answered) == memory = None /\ GithubConnected /\ answered /\ credential \in live

ResolvedSnapshot(answered) ==
    CASE memory # None -> memory
      [] memory = None /\ Fetches(answered) -> AccountOf(credential)
      [] OTHER -> disk

ResolveInstallationSnapshot(answered) ==
    IF Fetches(answered)
    THEN memory' = AccountOf(credential) /\ disk' = AccountOf(credential)
    ELSE UNCHANGED snapshotVars

ShowSection(s, answered) ==
    /\ screen' = s
    /\ shown' = ResolvedSnapshot(answered)
    /\ ResolveInstallationSnapshot(answered)

\* Without a snapshot the pane says why.
ShowSectionOrProblem(s, answered) ==
    ShowSection(IF ResolvedSnapshot(answered) = None THEN "missing" ELSE s, answered)

CanStartReview == GithubConnected /\ modelKey

\* A review is shown only to a terminal that can start one; otherwise the pane stays.
ShowReview(answered) ==
    IF ResolvedSnapshot(answered) # None /\ CanStartReview
    THEN ShowSection("review", answered)
    ELSE ResolveInstallationSnapshot(answered) /\ UNCHANGED <<screen, shown>>

StartAutoReview == auto' = (auto \/ (GithubConnected /\ modelKey)) /\ UNCHANGED heads

StopAutoReviewFault == auto' = FALSE /\ UNCHANGED heads

StopAutoReview == auto' = FALSE /\ heads' = NoHeads

MountConnected(answered) ==
    IF modelKey
    THEN ShowSectionOrProblem("repositories", answered) /\ StartAutoReview
    ELSE screen' = "model-access" /\ shown' = None /\ UNCHANGED <<snapshotVars, autoVars>>

-----------------------------------------------------------------------------
\* Opening and closing.

OpenApp(answered) ==
    /\ ~open
    /\ open' = TRUE
    /\ IF GithubConnected
       THEN MountConnected(answered)
       ELSE screen' = "connect" /\ shown' = None /\ UNCHANGED <<snapshotVars, autoVars>>
    /\ UNCHANGED <<beside, dialog, panelVars, countdown, secretVars, hostedVars>>

\* Quitting and being killed are the same: on_unmount stops what would end anyway.
CloseApp ==
    /\ open
    /\ open' = FALSE /\ screen' = "connect" /\ shown' = None /\ dialog' = FALSE
    /\ started' = FALSE /\ status' = "not_started" /\ worker' = Idle /\ mail' = <<>>
    /\ countdown' = FALSE /\ beside' = FALSE
    /\ memory' = None
    /\ StopAutoReview
    /\ UNCHANGED <<secretVars, disk, hostedVars>>

-----------------------------------------------------------------------------
\* The connect panel and its worker thread.

MayStartFault == TRUE

MayStart == ~started

StartSignIn ==
    /\ AtKeyboard /\ screen = "connect"
    /\ status # "signed_in"         \* show_signed_in takes the button away
    /\ MayStart
    /\ started' = TRUE
    /\ status' = "creating"
    /\ worker' = [stage |-> "creating", code |-> None, polls |-> 0]
    /\ UNCHANGED <<open, beside, paneVars, mail, countdown, secretVars, snapshotVars, autoVars,
                   hostedVars>>

Post(message) == mail' = Append(mail, message)

\* The worker asks the hosted plane for a code and posts the link, or the failure.
RunSignIn(c) ==
    /\ worker.stage = "creating"
    /\ \/ /\ codes[c].state = "none"
          /\ codes' = [codes EXCEPT ![c].state = "pending"]
          /\ worker' = [stage |-> "waiting", code |-> c, polls |-> 0]
          /\ Post([kind |-> "ready", code |-> c])
       \/ /\ worker' = Idle
          /\ Post([kind |-> "failed", code |-> None])
          /\ UNCHANGED codes
    /\ UNCHANGED <<open, beside, paneVars, started, status, countdown, secretVars, snapshotVars,
                   autoVars, live>>

PairingStatus(c) ==
    CASE codes[c].state = "approved" -> "exchangeable"
      [] codes[c].state = "pending" -> "pending"
      [] OTHER -> "invalid_or_expired"

\* The wait as it would be without its deadline.
DeadlinePassedFault == FALSE

DeadlinePassed == worker.polls >= MaxPolls

\* One turn of the wait: the deadline, then a poll, which may also lose contact.
WaitForPairing(answered) ==
    /\ worker.stage = "waiting"
    /\ LET state == IF answered THEN PairingStatus(worker.code) ELSE "lost_contact"
       IN CASE DeadlinePassed \/ state \in {"invalid_or_expired", "lost_contact"} ->
                   worker' = Idle /\ Post([kind |-> "failed", code |-> None])
            [] ~DeadlinePassed /\ state = "exchangeable" ->
                   worker' = Idle /\ Post([kind |-> "completed", code |-> worker.code])
            [] ~DeadlinePassed /\ state = "pending" ->
                   /\ worker' = [worker EXCEPT !.polls =
                                     IF @ < MaxPolls THEN @ + 1 ELSE @]
                   /\ UNCHANGED mail
    /\ UNCHANGED <<open, beside, paneVars, started, status, countdown, secretVars, snapshotVars,
                   autoVars, hostedVars>>

Receives(kind) == open /\ mail # <<>> /\ Head(mail).kind = kind

OnSignInReady ==
    /\ Receives("ready")
    /\ status' = "waiting"
    /\ mail' = Tail(mail)
    /\ UNCHANGED <<open, beside, paneVars, started, worker, countdown, secretVars, snapshotVars,
                   autoVars, hostedVars>>

OnSignInFailed ==
    /\ Receives("failed")
    /\ started' = FALSE
    /\ status' = "failed"
    /\ mail' = Tail(mail)
    /\ UNCHANGED <<open, beside, paneVars, worker, countdown, secretVars, snapshotVars, autoVars,
                   hostedVars>>

ApprovedText == "finishing"

\* The panel hands the code on to the application.
OnPairingCompleted ==
    /\ Receives("completed")
    /\ status' = ApprovedText
    /\ mail' = Append(Tail(mail), [kind |-> "exchangeable", code |-> Head(mail).code])
    /\ UNCHANGED <<open, beside, paneVars, started, worker, countdown, secretVars, snapshotVars,
                   autoVars, hostedVars>>

\* The hosted plane exchanges an approved code unless another runner of the
\* account holds a repository (409).
Exchanges(c) ==
    codes[c].state = "approved" /\ \A d \in live : AccountOf(d) # AccountOf(c)

ExchangeCommits(c) ==
    /\ codes' = [codes EXCEPT ![c].state = "exchanged"]
    /\ live' = live \union {c}

\* The answer arrives: the credential is stored and the countdown starts.
ExchangeSucceeds ==
    /\ Receives("exchangeable")
    /\ LET c == Head(mail).code
       IN Exchanges(c) /\ ExchangeCommits(c) /\ credential' = c
    /\ mail' = Tail(mail)
    /\ status' = "signed_in"
    /\ countdown' = TRUE
    /\ UNCHANGED <<open, beside, paneVars, started, worker, modelKey, snapshotVars, autoVars>>

\* Refused, unreachable, or committed with the answer lost: a failure on the
\* panel, whose Sign in button stays taken.
ReportExchangeFailure(committed) ==
    /\ Receives("exchangeable")
    /\ LET c == Head(mail).code
       IN IF committed THEN Exchanges(c) /\ ExchangeCommits(c) ELSE UNCHANGED hostedVars
    /\ mail' = Tail(mail)
    /\ status' = "failed"
    /\ UNCHANGED <<open, beside, paneVars, started, worker, countdown, secretVars, snapshotVars,
                   autoVars>>

\* The last tick of the countdown rebuilds the view. It takes the connect screen
\* away whoever is signed in by then.
RebuildAfterPairing(answered) ==
    /\ open /\ countdown
    /\ countdown' = FALSE
    /\ MountConnected(answered)
    /\ UNCHANGED <<open, beside, dialog, panelVars, secretVars, hostedVars>>

-----------------------------------------------------------------------------
\* The connected view.

\* A key the provider rejects, or cannot be asked about, is not stored.
OnModelKeyStored(answered) ==
    /\ AtKeyboard /\ screen = "model-access"
    /\ modelKey' = TRUE
    /\ ShowSectionOrProblem("repositories", answered)
    /\ auto' = (auto \/ GithubConnected)
    /\ UNCHANGED <<open, beside, dialog, panelVars, countdown, credential, heads, hostedVars>>

OnSectionSelected(s, answered) ==
    /\ AtKeyboard /\ screen # "connect"
    /\ CanStartReview
    /\ ShowSectionOrProblem(s, answered)
    /\ UNCHANGED <<open, beside, dialog, panelVars, countdown, secretVars, autoVars, hostedVars>>

OnPullRequestSelected(answered) ==
    /\ AtKeyboard /\ screen = "repositories"
    /\ ShowReview(answered)
    /\ UNCHANGED <<open, beside, dialog, panelVars, countdown, secretVars, autoVars, hostedVars>>

\* An event of the source while auto review runs; a new head shows its review.
HandleStartEvent(p, h, answered) ==
    /\ open /\ auto
    /\ heads[p] # h
    /\ heads' = [heads EXCEPT ![p] = h]
    /\ ShowReview(answered)
    /\ UNCHANGED <<open, beside, dialog, panelVars, countdown, secretVars, auto, hostedVars>>

HandleCancelEvent(p) ==
    /\ open /\ auto /\ heads[p] # None
    /\ heads' = [heads EXCEPT ![p] = None]
    /\ UNCHANGED <<open, beside, paneVars, panelVars, countdown, secretVars, snapshotVars, auto,
                   hostedVars>>

-----------------------------------------------------------------------------
\* Logging out.

ActionLogOut ==
    /\ AtKeyboard /\ GithubConnected
    /\ dialog' = TRUE
    /\ UNCHANGED <<open, beside, screen, shown, panelVars, countdown, secretVars, snapshotVars,
                   autoVars, hostedVars>>

DismissLogOut ==
    /\ open /\ dialog
    /\ dialog' = FALSE
    /\ UNCHANGED <<open, beside, screen, shown, panelVars, countdown, secretVars, snapshotVars,
                   autoVars, hostedVars>>

\* The hosted plane is told if it can be, and the credential goes in any case.
LogOut(answered) ==
    /\ live' = IF answered THEN live \ {credential} ELSE live
    /\ credential' = None
    /\ UNCHANGED <<modelKey, codes>>

\* The file goes, the snapshot in memory stays, and the countdown runs on.
LogOutIfConfirmed(answered) ==
    /\ open /\ dialog
    /\ dialog' = FALSE
    /\ LogOut(answered)
    /\ disk' = None
    /\ StopAutoReview
    /\ screen' = "connect" /\ shown' = None
    /\ started' = FALSE /\ status' = "not_started" /\ worker' = Idle /\ mail' = <<>>
    /\ beside' = FALSE
    /\ UNCHANGED <<open, countdown, memory>>

\* reviewer logout --yes, in a shell: the command deletes the credential whether or
\* not an interface runs beside it, which hears nothing of it.
CliLogOut(answered) ==
    /\ GithubConnected
    /\ LogOut(answered)
    /\ beside' = open
    /\ UNCHANGED <<open, paneVars, panelVars, countdown, snapshotVars, autoVars>>

-----------------------------------------------------------------------------
\* The browser and the hosted plane.

BrowserApproves(c, a) ==
    /\ codes[c].state = "pending"
    /\ codes' = [codes EXCEPT ![c] = [state |-> "approved", account |-> a]]
    /\ UNCHANGED <<open, beside, paneVars, panelVars, countdown, secretVars, snapshotVars, autoVars,
                   live>>

CodeExpires(c) ==
    /\ codes[c].state \in {"pending", "approved"}
    /\ codes' = [codes EXCEPT ![c].state = "expired"]
    /\ UNCHANGED <<open, beside, paneVars, panelVars, countdown, secretVars, snapshotVars, autoVars,
                   live>>

HostedRevokes(c) ==
    /\ c \in live
    /\ live' = live \ {c}
    /\ UNCHANGED <<open, beside, paneVars, panelVars, countdown, secretVars, snapshotVars, autoVars,
                   codes>>

-----------------------------------------------------------------------------
TermInit ==
    /\ open = FALSE /\ screen = "connect" /\ shown = None /\ dialog = FALSE
    /\ started = FALSE /\ status = "not_started" /\ worker = Idle /\ mail = <<>>
    /\ countdown = FALSE /\ credential = None /\ modelKey = FALSE
    /\ memory = None /\ disk = None
    /\ auto = FALSE /\ heads = NoHeads /\ beside = FALSE
    /\ codes = [c \in Codes |-> [state |-> "none", account |-> None]]
    /\ live = {}

WorkerStep == (\E c \in Codes : RunSignIn(c)) \/ (\E r \in BOOLEAN : WaitForPairing(r))

MailStep ==
    \/ OnSignInReady \/ OnSignInFailed \/ OnPairingCompleted
    \/ ExchangeSucceeds
    \/ \E r \in BOOLEAN : ReportExchangeFailure(r)

PersonStep ==
    \E r \in BOOLEAN :
        \/ OpenApp(r) \/ OnModelKeyStored(r) \/ OnPullRequestSelected(r)
        \/ \E s \in Sections : OnSectionSelected(s, r)
        \/ LogOutIfConfirmed(r) \/ CliLogOut(r)

TermNext ==
    \/ WorkerStep \/ MailStep \/ PersonStep
    \/ CloseApp \/ StartSignIn \/ ActionLogOut \/ DismissLogOut
    \/ \E r \in BOOLEAN : RebuildAfterPairing(r)
    \/ \E p \in PullRequests :
           \/ \E h \in Heads, r \in BOOLEAN : HandleStartEvent(p, h, r)
           \/ HandleCancelEvent(p)
    \/ \E c \in Codes : CodeExpires(c) \/ HostedRevokes(c)
                        \/ \E a \in Accounts : BrowserApproves(c, a)

TermSpec == TermInit /\ [][TermNext]_termVars

\* The thread keeps running while the hosted side answers, and the interface keeps
\* handling its messages. That a poll is ever lost is not assumed.
TermFairSpec ==
    /\ TermSpec
    /\ WF_termVars(\E c \in Codes : RunSignIn(c))
    /\ WF_termVars(WaitForPairing(TRUE))
    /\ WF_termVars(MailStep)

-----------------------------------------------------------------------------
\* Reviews are on screen, and auto review runs, only while a credential and a model
\* key are stored, whichever timers and messages are still under way when the person
\* logs out or the pairing is replaced; an interface keeps them beyond the credential
\* only after a log out in a shell beside it.  Heads are remembered by auto review only.
ReviewsOnlySignedIn ==
    /\ (auto \/ screen \in {"review", "reviews"}) => modelKey /\ (GithubConnected \/ beside)
    /\ ~auto => heads = NoHeads

\* Pressing Sign in again never gives up a code the thread is still waiting on:
\* its wait ends with a message, or with the interface.
AttemptNotAbandoned ==
    [][(worker.stage = "waiting" /\ open') =>
           \/ worker'.stage = "waiting" /\ worker'.code = worker.code
           \/ Len(mail') > Len(mail)]_termVars

\* Every attempt to sign in comes to an end the person can see: the panel says
\* signed in or failed, unless the interface is closed.
SignInResolves == started ~> (status \in {"signed_in", "failed"} \/ ~open)
=============================================================================
