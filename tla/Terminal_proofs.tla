--------------------------- MODULE Terminal_proofs ---------------------------
(***************************************************************************)
(* Proofs about Terminal, for any number of accounts, pairing codes, pull  *)
(* requests and heads and any deadline.  Both results rest on one fact:    *)
(* at most one attempt to sign in is under way, and only while nobody is   *)
(* signed in.  The thread and the mail of that attempt have one of a few   *)
(* shapes.                                                                 *)
(***************************************************************************)
EXTENDS Terminal, TLAPS

Flags ==
    /\ open \in BOOLEAN /\ dialog \in BOOLEAN /\ started \in BOOLEAN
    /\ auto \in BOOLEAN /\ modelKey \in BOOLEAN /\ beside \in BOOLEAN

\* A closed interface runs nothing.
ClosedIsQuiet ==
    ~open => /\ ~auto /\ ~dialog /\ ~started
             /\ screen = "connect" /\ worker = Idle /\ mail = <<>>

Message(k, c) == [kind |-> k, code |-> c]

\* What the thread posts last.
Verdicts(c) == {Message("failed", None), Message("completed", c)}

Thread == [stage: {"idle", "creating", "waiting"}, code: Codes \cup {None}, polls: Nat]

\* The attempt that is under way: asking for a code, waiting for the browser,
\* its verdict in the mail, or the code on its way to the exchange.
UnderWay ==
    \/ worker \in Thread /\ worker.stage = "creating" /\ mail = <<>>
    \/ /\ worker \in Thread /\ worker.stage = "waiting" /\ worker.code \in Codes
       /\ mail = <<>> \/ mail = <<Message("ready", worker.code)>>
    \/ /\ worker = Idle
       /\ \E c \in Codes : \E v \in Verdicts(c) :
              mail = <<v>> \/ mail = <<Message("ready", c), v>>
    \/ worker = Idle /\ \E c \in Codes : mail = <<Message("exchangeable", c)>>

OneAttempt ==
    \/ worker = Idle /\ mail = <<>>
    \/ started /\ credential = None /\ UnderWay

\* Nobody is asked whether to log out during an attempt, not even after a log out in
\* a shell has taken the credential from under the question, and an unused connect
\* panel is shown to nobody who is signed in.
AsksSignedIn == dialog => worker = Idle /\ mail = <<>>
ConnectsSignedOut == open /\ screen = "connect" /\ ~started => credential = None

ReviewScreens == {"review", "reviews"}

TInv ==
    /\ Flags
    /\ ClosedIsQuiet
    /\ OneAttempt
    /\ AsksSignedIn
    /\ ConnectsSignedOut
    /\ ReviewsOnlySignedIn

-----------------------------------------------------------------------------
(* Short mails, messages and the thread.                                   *)

LEMMA ShortMails ==
    ASSUME NEW a, NEW b
    PROVE  /\ Head(<<a>>) = a /\ Tail(<<a>>) = <<>> /\ <<a>> # <<>>
           /\ Head(<<a, b>>) = a /\ Tail(<<a, b>>) = <<b>> /\ <<a, b>> # <<>>
           /\ Append(<<>>, a) = <<a>> /\ Append(<<a>>, b) = <<a, b>>
           /\ Len(<<>>) = 0 /\ Len(<<a>>) = 1 /\ Len(<<a, b>>) = 2
  <1>1. Head(<<a>>) = a /\ <<a>> # <<>> /\ Head(<<a, b>>) = a /\ <<a, b>> # <<>>
    OBVIOUS
  <1>2. Tail(<<a>>) = <<>>
    OBVIOUS
  <1>3. Tail(<<a, b>>) = <<b>>
    OBVIOUS
  <1>4. Append(<<>>, a) = <<a>>
    OBVIOUS
  <1>5. Append(<<a>>, b) = <<a, b>>
    <2>1. PICK s : s = Append(<<a>>, b)
      OBVIOUS
    <2>2. <<a>> \in Seq({a, b}) /\ <<a, b>> \in Seq({a, b})
      OBVIOUS
    <2>3. /\ s \in Seq({a, b}) /\ Len(s) = 2
          /\ s[1] = a /\ s[2] = b
      BY <2>1, <2>2
    <2>4. s = <<a, b>>
      BY <2>2, <2>3
    <2> QED
      BY <2>1, <2>4
  <1>6. Len(<<>>) = 0 /\ Len(<<a>>) = 1 /\ Len(<<a, b>>) = 2
    OBVIOUS
  <1> QED
    BY <1>1, <1>2, <1>3, <1>4, <1>5, <1>6

LEMMA MessageParts ==
    ASSUME NEW k, NEW c PROVE Message(k, c).kind = k /\ Message(k, c).code = c
  BY DEF Message

LEMMA IdleParts == Idle.stage = "idle"
  BY DEF Idle

\* The first message, for each of its kinds, says where the attempt stands.
LEMMA FirstMessage ==
    ASSUME OneAttempt, mail # <<>>
    PROVE  /\ started /\ credential = None
           /\ Head(mail).kind = "ready" =>
                 \E c \in Codes :
                    \/ /\ worker \in Thread /\ worker.stage = "waiting" /\ worker.code = c
                       /\ Tail(mail) = <<>>
                    \/ worker = Idle /\ \E v \in Verdicts(c) : Tail(mail) = <<v>>
           /\ Head(mail).kind = "failed" => worker = Idle /\ Tail(mail) = <<>>
           /\ Head(mail).kind = "completed" =>
                 worker = Idle /\ Tail(mail) = <<>> /\ Head(mail).code \in Codes
           /\ Head(mail).kind = "exchangeable" =>
                 worker = Idle /\ Tail(mail) = <<>> /\ Head(mail).code \in Codes
  <1>1. started /\ credential = None /\ UnderWay
    BY DEF OneAttempt
  <1>2. CASE worker \in Thread /\ worker.stage = "waiting" /\ worker.code \in Codes
             /\ mail = <<Message("ready", worker.code)>>
    BY <1>1, <1>2, ShortMails, MessageParts
  <1>3. ASSUME NEW c \in Codes, NEW v \in Verdicts(c), worker = Idle, mail = <<v>>
        PROVE  /\ Tail(mail) = <<>> /\ Head(mail).kind \in {"failed", "completed"}
               /\ Head(mail).kind = "completed" => Head(mail).code \in Codes
    BY <1>3, ShortMails, MessageParts DEF Verdicts
  <1>4. ASSUME NEW c \in Codes, NEW v \in Verdicts(c), worker = Idle,
               mail = <<Message("ready", c), v>>
        PROVE  /\ Tail(mail) = <<v>> /\ Head(mail).kind = "ready"
    BY <1>4, ShortMails, MessageParts
  <1>5. ASSUME NEW c \in Codes, worker = Idle, mail = <<Message("exchangeable", c)>>
        PROVE  /\ Tail(mail) = <<>> /\ Head(mail).kind = "exchangeable"
               /\ Head(mail).code \in Codes
    BY <1>5, ShortMails, MessageParts
  <1> QED
    BY <1>1, <1>2, <1>3, <1>4, <1>5 DEF UnderWay

-----------------------------------------------------------------------------
(* The parts of the invariant that a step leaves alone.                    *)

LEMMA AttemptStays ==
    ASSUME OneAttempt, UNCHANGED <<started, worker, mail, credential>>
    PROVE  OneAttempt'
  BY DEF OneAttempt, UnderWay

\* A step on the connected view: it runs in an open interface, whose sign-in and
\* credential it leaves alone.
LEMMA PaneMoves ==
    ASSUME TInv, open, open',
           UNCHANGED <<dialog, started, worker, mail, credential, beside>>,
           modelKey' \in BOOLEAN, auto' \in BOOLEAN,
           screen' = "connect" => screen = "connect",
           auto' \/ screen' \in ReviewScreens => (credential # None \/ beside) /\ modelKey',
           ~auto' => heads' = NoHeads
    PROVE  TInv'
  <1>1. Flags' /\ ClosedIsQuiet' /\ AsksSignedIn' /\ ConnectsSignedOut'
    BY DEF TInv, Flags, ClosedIsQuiet, AsksSignedIn, ConnectsSignedOut
  <1>2. OneAttempt'
    BY AttemptStays DEF TInv
  <1>3. ReviewsOnlySignedIn'
    BY DEF ReviewsOnlySignedIn, ReviewScreens, GithubConnected, NoHeads
  <1> QED
    BY <1>1, <1>2, <1>3 DEF TInv

\* A step of the sign-in: the panes, the keys and auto review stay.
LEMMA PanelMoves ==
    ASSUME TInv, open, ~dialog, UNCHANGED <<open, screen, dialog, modelKey, auto, heads, beside>>,
           started' \in BOOLEAN, OneAttempt',
           credential # None => credential' # None,
           started' = started \/ (started' = TRUE /\ credential' = None)
             \/ (started' = FALSE /\ credential' = None),
           credential' # None /\ credential = None => started'
    PROVE  TInv'
  <1>1. Flags' /\ ClosedIsQuiet' /\ AsksSignedIn' /\ ConnectsSignedOut'
    BY DEF TInv, Flags, ClosedIsQuiet, AsksSignedIn, ConnectsSignedOut
  <1>2. ReviewsOnlySignedIn'
    BY DEF TInv, ReviewsOnlySignedIn, GithubConnected, NoHeads
  <1> QED
    BY <1>1, <1>2 DEF TInv

LEMMA SectionsAreNoConnect ==
    \A s \in Sections \cup {"missing", "review"} : s # "connect"
  BY DEF Sections

\* The view of somebody who is signed in, or who has just logged out again.
LEMMA Mounted ==
    ASSUME TInv, NEW r \in BOOLEAN, MountConnected(r)
    PROVE  /\ screen' # "connect" /\ screen' \notin ReviewScreens
           /\ auto' \in BOOLEAN /\ heads' = heads
           /\ auto => auto'
           /\ auto' => auto \/ (credential # None /\ modelKey)
  BY DEF TInv, Flags, MountConnected, ShowSectionOrProblem, ShowSection, StartAutoReview,
         GithubConnected, ReviewScreens, autoVars

\* A review is only shown to a terminal that can start one.
LEMMA ReviewShown ==
    ASSUME NEW r \in BOOLEAN, ShowReview(r)
    PROVE  \/ screen' = screen
           \/ screen' = "review" /\ credential # None /\ modelKey
  BY DEF ShowReview, ShowSection, CanStartReview, GithubConnected

-----------------------------------------------------------------------------
(* The steps of the person and the interface.                              *)

LEMMA OpenKeeps == ASSUME TInv, NEW r \in BOOLEAN, OpenApp(r) PROVE TInv'
  <1>0. /\ ~open /\ open' /\ ~auto /\ ~dialog /\ ~started /\ heads = NoHeads
        /\ UNCHANGED <<dialog, started, worker, mail, credential, modelKey, beside>>
    BY DEF OpenApp, panelVars, secretVars, TInv, ClosedIsQuiet, ReviewsOnlySignedIn
  <1>1. /\ heads' = NoHeads /\ auto' \in BOOLEAN
        /\ screen' = "connect" => credential = None
        /\ screen' \notin ReviewScreens
        /\ auto' => credential # None /\ modelKey
    <2>1. CASE GithubConnected
      BY <1>0, <2>1, Mounted DEF OpenApp, GithubConnected
    <2>2. CASE ~GithubConnected
      BY <1>0, <2>2 DEF OpenApp, GithubConnected, autoVars, ReviewScreens, TInv, Flags
    <2> QED
      BY <2>1, <2>2
  <1>2. OneAttempt'
    BY <1>0, AttemptStays DEF TInv
  <1>3. Flags' /\ ClosedIsQuiet' /\ AsksSignedIn' /\ ConnectsSignedOut'
    BY <1>0, <1>1 DEF TInv, Flags, ClosedIsQuiet, AsksSignedIn, ConnectsSignedOut, OpenApp
  <1>4. ReviewsOnlySignedIn'
    BY <1>0, <1>1 DEF ReviewsOnlySignedIn, ReviewScreens, GithubConnected, NoHeads
  <1> QED
    BY <1>2, <1>3, <1>4 DEF TInv

LEMMA CloseKeeps == ASSUME TInv, CloseApp PROVE TInv'
  BY DEF TInv, Flags, ClosedIsQuiet, OneAttempt, AsksSignedIn, ConnectsSignedOut,
         ReviewsOnlySignedIn, CloseApp, StopAutoReview, secretVars, Idle, NoHeads

LEMMA RebuildKeeps == ASSUME TInv, NEW r \in BOOLEAN, RebuildAfterPairing(r) PROVE TInv'
  <1>1. /\ open /\ open' /\ UNCHANGED <<dialog, started, worker, mail, credential, modelKey, beside>>
    BY DEF RebuildAfterPairing, panelVars, secretVars
  <1>2. /\ screen' # "connect" /\ screen' \notin ReviewScreens
        /\ auto' \in BOOLEAN /\ heads' = heads
        /\ auto => auto'
        /\ auto' => auto \/ (credential # None /\ modelKey)
    BY Mounted DEF RebuildAfterPairing
  <1>3. /\ modelKey' \in BOOLEAN
        /\ auto => (credential # None \/ beside) /\ modelKey
        /\ ~auto => heads = NoHeads
    BY <1>1 DEF TInv, Flags, ReviewsOnlySignedIn, GithubConnected
  <1> QED
    BY <1>1, <1>2, <1>3, PaneMoves

LEMMA ModelKeyKeeps == ASSUME TInv, NEW r \in BOOLEAN, OnModelKeyStored(r) PROVE TInv'
  <1>1. /\ open /\ open' /\ UNCHANGED <<dialog, started, worker, mail, credential, heads, beside>>
        /\ modelKey' = TRUE
    BY DEF OnModelKeyStored, AtKeyboard, panelVars
  <1>2. screen' # "connect" /\ screen' \notin ReviewScreens
    BY DEF OnModelKeyStored, ShowSectionOrProblem, ShowSection, ReviewScreens
  <1>3. auto' \in BOOLEAN /\ (auto => auto') /\ (auto' => auto \/ credential # None)
    BY DEF OnModelKeyStored, GithubConnected, TInv, Flags
  <1>4. /\ auto => credential # None \/ beside
        /\ ~auto => heads = NoHeads
    BY DEF TInv, ReviewsOnlySignedIn, GithubConnected
  <1> QED
    BY <1>1, <1>2, <1>3, <1>4, PaneMoves

LEMMA SectionKeeps ==
    ASSUME TInv, NEW s \in Sections, NEW r \in BOOLEAN, OnSectionSelected(s, r)
    PROVE  TInv'
  <1>1. /\ open /\ open' /\ credential # None /\ modelKey
        /\ UNCHANGED <<dialog, started, worker, mail, credential, modelKey, auto, heads, beside>>
    BY DEF OnSectionSelected, AtKeyboard, CanStartReview, GithubConnected, panelVars,
           secretVars, autoVars
  <1>2. screen' # "connect"
    BY SectionsAreNoConnect DEF OnSectionSelected, ShowSectionOrProblem, ShowSection
  <1>3. auto \in BOOLEAN /\ modelKey \in BOOLEAN /\ (~auto => heads = NoHeads)
    BY DEF TInv, Flags, ReviewsOnlySignedIn
  <1> QED
    BY <1>1, <1>2, <1>3, PaneMoves

\* A selected pull request and an event of auto review.
LEMMA ReviewKeeps ==
    ASSUME TInv, NEW r \in BOOLEAN,
           \/ OnPullRequestSelected(r)
           \/ \E p \in PullRequests, h \in Heads : HandleStartEvent(p, h, r)
    PROVE  TInv'
  <1>1. /\ open /\ open' /\ ShowReview(r)
        /\ UNCHANGED <<dialog, started, worker, mail, credential, modelKey, auto, beside>>
        /\ auto \/ heads' = heads
    BY DEF OnPullRequestSelected, HandleStartEvent, AtKeyboard, panelVars, secretVars, autoVars
  <1>2. /\ auto \in BOOLEAN /\ modelKey \in BOOLEAN
        /\ ~auto => heads = NoHeads
        /\ auto \/ screen \in ReviewScreens => (credential # None \/ beside) /\ modelKey
    BY DEF TInv, Flags, ReviewsOnlySignedIn, GithubConnected, ReviewScreens
  <1>3. \/ screen' = screen
        \/ screen' = "review" /\ credential # None /\ modelKey
    BY <1>1, ReviewShown
  <1> QED
    BY <1>1, <1>2, <1>3, PaneMoves

LEMMA CancelKeeps == ASSUME TInv, NEW p \in PullRequests, HandleCancelEvent(p) PROVE TInv'
  <1>1. /\ open /\ open' /\ auto
        /\ UNCHANGED <<screen, dialog, started, worker, mail, credential, modelKey, auto, beside>>
    BY DEF HandleCancelEvent, paneVars, panelVars, secretVars
  <1>2. /\ auto \in BOOLEAN /\ modelKey \in BOOLEAN
        /\ (credential # None \/ beside) /\ modelKey
    BY <1>1 DEF TInv, Flags, ReviewsOnlySignedIn, GithubConnected
  <1> QED
    BY <1>1, <1>2, PaneMoves

LEMMA DialogKeeps == ASSUME TInv, ActionLogOut \/ DismissLogOut PROVE TInv'
  <1>1. /\ open /\ open'
        /\ UNCHANGED <<screen, started, worker, mail, credential, modelKey, auto, heads, beside>>
    BY DEF ActionLogOut, DismissLogOut, AtKeyboard, panelVars, secretVars, autoVars
  <1>2. (dialog' = TRUE /\ worker = Idle /\ mail = <<>>) \/ dialog' = FALSE
    BY DEF ActionLogOut, DismissLogOut, GithubConnected, TInv, OneAttempt
  <1>3. OneAttempt'
    BY <1>1, AttemptStays DEF TInv
  <1> QED
    BY <1>1, <1>2, <1>3
    DEF TInv, Flags, ClosedIsQuiet, AsksSignedIn, ConnectsSignedOut, ReviewsOnlySignedIn,
        GithubConnected, NoHeads

LEMMA LogOutKeeps ==
    ASSUME TInv, NEW r \in BOOLEAN, LogOutIfConfirmed(r) \/ CliLogOut(r) PROVE TInv'
  <1>1. CASE LogOutIfConfirmed(r)
    BY <1>1
    DEF TInv, Flags, ClosedIsQuiet, OneAttempt, AsksSignedIn, ConnectsSignedOut,
        ReviewsOnlySignedIn, LogOutIfConfirmed, LogOut, StopAutoReview, Idle, NoHeads
  <1>2. CASE CliLogOut(r)
    <2>1. /\ UNCHANGED <<open, screen, dialog, started, worker, mail, auto, heads>>
          /\ UNCHANGED modelKey /\ credential' = None /\ beside' = open
      BY <1>2 DEF CliLogOut, LogOut, paneVars, panelVars, autoVars
    <2>2. worker = Idle /\ mail = <<>>
      BY <1>2 DEF CliLogOut, GithubConnected, TInv, OneAttempt
    <2>3. ReviewsOnlySignedIn'
      BY <2>1 DEF TInv, ClosedIsQuiet, ReviewsOnlySignedIn, GithubConnected, NoHeads
    <2> QED
      BY <2>1, <2>2, <2>3
      DEF TInv, Flags, ClosedIsQuiet, OneAttempt, AsksSignedIn, ConnectsSignedOut
  <1> QED
    BY <1>1, <1>2

-----------------------------------------------------------------------------
(* The steps of the attempt.                                               *)

LEMMA StartKeeps == ASSUME TInv, StartSignIn PROVE TInv'
  <1>1. /\ open /\ ~dialog /\ ~started /\ screen = "connect"
        /\ worker' \in Thread /\ worker'.stage = "creating"
        /\ UNCHANGED <<open, screen, dialog, mail, credential, modelKey, auto, heads, beside>>
        /\ started' = TRUE
    BY DEF StartSignIn, AtKeyboard, MayStart, paneVars, secretVars, autoVars, Thread
  <1>2. credential = None /\ mail = <<>>
    BY <1>1 DEF TInv, OneAttempt, ConnectsSignedOut
  <1>3. OneAttempt'
    BY <1>1, <1>2 DEF OneAttempt, UnderWay
  <1> QED
    BY <1>1, <1>2, <1>3, PanelMoves

\* A thread that is not idle belongs to the attempt.
LEMMA BusyThread ==
    ASSUME TInv, worker.stage # "idle"
    PROVE  open /\ ~dialog /\ started /\ credential = None /\ UnderWay
  BY IdleParts DEF TInv, ClosedIsQuiet, OneAttempt, AsksSignedIn

LEMMA RunKeeps == ASSUME TInv, NEW c \in Codes, RunSignIn(c) PROVE TInv'
  <1>1. /\ worker.stage = "creating"
        /\ UNCHANGED <<open, screen, dialog, started, credential, modelKey, auto, heads, beside>>
    BY DEF RunSignIn, paneVars, secretVars, autoVars
  <1>2. open /\ ~dialog /\ started /\ credential = None /\ mail = <<>>
    BY <1>1, BusyThread, IdleParts DEF UnderWay
  <1>3. \/ /\ worker' \in Thread /\ worker'.stage = "waiting" /\ worker'.code = c
           /\ mail' = <<Message("ready", c)>>
        \/ worker' = Idle /\ mail' = <<Message("failed", None)>>
    BY <1>2, ShortMails DEF RunSignIn, Post, Message, Thread
  <1>4. UnderWay'
    <2>1. CASE worker' \in Thread /\ worker'.stage = "waiting" /\ worker'.code = c
               /\ mail' = <<Message("ready", c)>>
      BY <2>1 DEF UnderWay
    <2>2. CASE worker' = Idle /\ mail' = <<Message("failed", None)>>
      BY <2>2 DEF UnderWay, Verdicts
    <2> QED
      BY <1>3, <2>1, <2>2
  <1>5. OneAttempt'
    BY <1>1, <1>2, <1>4 DEF OneAttempt
  <1>6. started \in BOOLEAN
    BY DEF TInv, Flags
  <1> QED
    BY <1>1, <1>2, <1>5, <1>6, PanelMoves

\* One turn of the wait: the thread goes on waiting for its code, or ends with a
\* verdict.
LEMMA WaitMeans ==
    ASSUME worker \in Thread, NEW r \in BOOLEAN, WaitForPairing(r)
    PROVE  /\ worker.stage = "waiting"
           /\ \/ /\ worker' \in Thread /\ worker'.stage = worker.stage
                 /\ worker'.code = worker.code /\ mail' = mail
              \/ worker' = Idle /\ mail' = Append(mail, Message("failed", None))
              \/ worker' = Idle /\ mail' = Append(mail, Message("completed", worker.code))
  <1> DEFINE state == IF r THEN PairingStatus(worker.code) ELSE "lost_contact"
  <1>1. state \in {"exchangeable", "pending", "invalid_or_expired", "lost_contact"}
    BY DEF PairingStatus
  <1>2. CASE DeadlinePassed \/ state \in {"invalid_or_expired", "lost_contact"}
    BY <1>2 DEF WaitForPairing, Post, Message
  <1>3. CASE ~DeadlinePassed /\ state = "exchangeable"
    BY <1>3 DEF WaitForPairing, Post, Message
  <1>4. CASE ~DeadlinePassed /\ state = "pending"
    <2>1. PICK n : n = IF worker.polls < MaxPolls THEN worker.polls + 1 ELSE worker.polls
      OBVIOUS
    <2>2. worker.polls \in Nat /\ n \in Nat
      BY <2>1 DEF Thread
    <2>3. ~(DeadlinePassed \/ state \in {"invalid_or_expired", "lost_contact"})
      BY <1>4
    <2>4. worker.stage = "waiting" /\ worker' = [worker EXCEPT !.polls = n] /\ mail' = mail
      BY <1>4, <2>1, <2>3 DEF WaitForPairing
    <2> QED
      BY <2>2, <2>4 DEF Thread
  <1> QED
    BY <1>1, <1>2, <1>3, <1>4 DEF WaitForPairing

LEMMA WaitKeeps == ASSUME TInv, NEW r \in BOOLEAN, WaitForPairing(r) PROVE TInv'
  <1>1. /\ worker.stage = "waiting"
        /\ UNCHANGED <<open, screen, dialog, started, credential, modelKey, auto, heads, beside>>
    BY DEF WaitForPairing, paneVars, secretVars, autoVars
  <1>2. /\ worker \in Thread /\ open /\ ~dialog /\ started /\ credential = None
        /\ worker.code \in Codes
        /\ mail = <<>> \/ mail = <<Message("ready", worker.code)>>
    BY <1>1, BusyThread, IdleParts DEF UnderWay
  <1>3. UnderWay'
    <2>1. CASE worker' \in Thread /\ worker'.stage = worker.stage
               /\ worker'.code = worker.code /\ mail' = mail
      BY <1>1, <1>2, <2>1 DEF UnderWay
    <2>2. ASSUME NEW v \in Verdicts(worker.code), worker' = Idle, mail' = Append(mail, v)
          PROVE  UnderWay'
      <3>1. mail' = <<v>> \/ mail' = <<Message("ready", worker.code), v>>
        BY <1>2, <2>2, ShortMails
      <3> QED
        BY <1>2, <2>2, <3>1 DEF UnderWay
    <2> QED
      BY <1>2, <2>1, <2>2, WaitMeans DEF Verdicts
  <1>4. OneAttempt' /\ started \in BOOLEAN
    BY <1>1, <1>2, <1>3 DEF OneAttempt, TInv, Flags
  <1> QED
    BY <1>1, <1>2, <1>4, PanelMoves

LEMMA MailKeeps ==
    ASSUME TInv, MailStep PROVE TInv'
  <1>0. started \in BOOLEAN /\ OneAttempt /\ (mail # <<>> => ~dialog)
    BY DEF TInv, Flags, AsksSignedIn
  <1>1. CASE OnSignInReady
    <2>1. /\ open /\ mail # <<>> /\ Head(mail).kind = "ready" /\ mail' = Tail(mail)
          /\ UNCHANGED <<open, screen, dialog, started, worker, credential, modelKey, auto, heads, beside>>
      BY <1>1 DEF OnSignInReady, Receives, paneVars, secretVars, autoVars
    <2>2. UnderWay'
      BY <1>0, <2>1, FirstMessage DEF UnderWay
    <2>3. started /\ credential = None
      BY <1>0, <2>1, FirstMessage
    <2>4. OneAttempt'
      BY <2>1, <2>2, <2>3 DEF OneAttempt
    <2> QED
      BY <1>0, <2>1, <2>3, <2>4, PanelMoves
  <1>2. CASE OnSignInFailed
    <2>1. /\ open /\ mail # <<>> /\ Head(mail).kind = "failed" /\ mail' = Tail(mail)
          /\ UNCHANGED <<open, screen, dialog, worker, credential, modelKey, auto, heads, beside>>
          /\ started' = FALSE
      BY <1>2 DEF OnSignInFailed, Receives, paneVars, secretVars, autoVars
    <2>2. worker = Idle /\ Tail(mail) = <<>> /\ credential = None
      BY <1>0, <2>1, FirstMessage
    <2>3. OneAttempt'
      BY <2>1, <2>2 DEF OneAttempt
    <2> QED
      BY <1>0, <2>1, <2>2, <2>3, PanelMoves
  <1>3. CASE OnPairingCompleted
    <2>1. /\ open /\ mail # <<>> /\ Head(mail).kind = "completed"
          /\ mail' = Append(Tail(mail), Message("exchangeable", Head(mail).code))
          /\ UNCHANGED <<open, screen, dialog, started, worker, credential, modelKey, auto, heads, beside>>
      BY <1>3 DEF OnPairingCompleted, Receives, paneVars, secretVars, autoVars, Message
    <2>2. /\ worker = Idle /\ Tail(mail) = <<>> /\ Head(mail).code \in Codes
          /\ started /\ credential = None
      BY <1>0, <2>1, FirstMessage
    <2>3. mail' = <<Message("exchangeable", Head(mail).code)>>
      BY <2>1, <2>2, ShortMails
    <2>4. OneAttempt'
      BY <2>1, <2>2, <2>3 DEF OneAttempt, UnderWay
    <2> QED
      BY <1>0, <2>1, <2>2, <2>4, PanelMoves
  <1>4. CASE ExchangeSucceeds
    <2>1. /\ open /\ mail # <<>> /\ Head(mail).kind = "exchangeable" /\ mail' = Tail(mail)
          /\ credential' = Head(mail).code
          /\ UNCHANGED <<open, screen, dialog, started, worker, modelKey, auto, heads, beside>>
      BY <1>4 DEF ExchangeSucceeds, Receives, paneVars, autoVars
    <2>2. /\ worker = Idle /\ Tail(mail) = <<>> /\ Head(mail).code \in Codes /\ started
      BY <1>0, <2>1, FirstMessage
    <2>3. OneAttempt' /\ credential' # None
      BY <2>1, <2>2, TerminalAssumption DEF OneAttempt
    <2> QED
      BY <1>0, <2>1, <2>2, <2>3, PanelMoves
  <1>5. CASE \E r \in BOOLEAN : ReportExchangeFailure(r)
    <2>1. /\ open /\ mail # <<>> /\ Head(mail).kind = "exchangeable" /\ mail' = Tail(mail)
          /\ UNCHANGED <<open, screen, dialog, started, worker, credential, modelKey, auto, heads, beside>>
      BY <1>5 DEF ReportExchangeFailure, Receives, paneVars, secretVars, autoVars
    <2>2. worker = Idle /\ Tail(mail) = <<>>
      BY <1>0, <2>1, FirstMessage
    <2>3. OneAttempt'
      BY <2>1, <2>2 DEF OneAttempt
    <2> QED
      BY <1>0, <2>1, <2>3, PanelMoves
  <1> QED
    BY <1>1, <1>2, <1>3, <1>4, <1>5 DEF MailStep

LEMMA HostedKeeps ==
    ASSUME TInv,
           \/ \E c \in Codes : CodeExpires(c) \/ HostedRevokes(c)
           \/ \E c \in Codes, a \in Accounts : BrowserApproves(c, a)
           \/ UNCHANGED termVars
    PROVE  TInv'
  <1>1. UNCHANGED <<open, screen, dialog, started, worker, mail, credential, modelKey, auto, heads, beside>>
    BY DEF CodeExpires, HostedRevokes, BrowserApproves, paneVars, panelVars, secretVars,
           autoVars, termVars
  <1>2. OneAttempt'
    BY <1>1, AttemptStays DEF TInv
  <1> QED
    BY <1>1, <1>2
    DEF TInv, Flags, ClosedIsQuiet, AsksSignedIn, ConnectsSignedOut, ReviewsOnlySignedIn,
        GithubConnected, NoHeads

-----------------------------------------------------------------------------
(* The theorems.                                                           *)

LEMMA NextTInv == TInv /\ [TermNext]_termVars => TInv'
  <1> SUFFICES ASSUME TInv, [TermNext]_termVars PROVE TInv'
    OBVIOUS
  <1>1. CASE WorkerStep
    BY <1>1, RunKeeps, WaitKeeps DEF WorkerStep
  <1>2. CASE PersonStep
    BY <1>2, OpenKeeps, ModelKeyKeeps, ReviewKeeps, SectionKeeps, LogOutKeeps DEF PersonStep
  <1>3. CASE \E p \in PullRequests : \/ \E h \in Heads, r \in BOOLEAN : HandleStartEvent(p, h, r)
                                     \/ HandleCancelEvent(p)
    BY <1>3, ReviewKeeps, CancelKeeps
  <1>4. CASE \E r \in BOOLEAN : RebuildAfterPairing(r)
    BY <1>4, RebuildKeeps
  <1> QED
    BY <1>1, <1>2, <1>3, <1>4, MailKeeps, CloseKeeps, StartKeeps, DialogKeeps, HostedKeeps
    DEF TermNext

LEMMA TerminalInv == TermSpec => []TInv
  <1>1. TermInit => TInv
    BY DEF TermInit, TInv, Flags, ClosedIsQuiet, OneAttempt, AsksSignedIn, ConnectsSignedOut,
           ReviewsOnlySignedIn, GithubConnected
  <1> QED
    BY <1>1, NextTInv, PTL DEF TermSpec

\* Reviews and auto review are seen only by somebody signed in with a model key,
\* whatever timers and messages were under way at the log out, unless the log out was
\* one in a shell beside the open interface.
THEOREM ReviewsNeedSignIn == TermSpec => []ReviewsOnlySignedIn
  BY TerminalInv, PTL DEF TInv

\* A code the thread waits on is given up only with a message or with the interface:
\* Sign in is refused while the thread runs, and nobody is asked to log out.
THEOREM WaitsForItsCode == TermSpec => AttemptNotAbandoned
  <1>1. TInv /\ [TermNext]_termVars =>
          [(worker.stage = "waiting" /\ open') =>
               \/ worker'.stage = "waiting" /\ worker'.code = worker.code
               \/ Len(mail') > Len(mail)]_termVars
    <2> SUFFICES ASSUME TInv, TermNext, worker.stage = "waiting", open'
                 PROVE  \/ worker'.stage = "waiting" /\ worker'.code = worker.code
                        \/ Len(mail') > Len(mail)
      BY DEF termVars
    <2>1. /\ worker \in Thread /\ open /\ started /\ credential = None
          /\ worker.code \in Codes
          /\ mail = <<>> \/ mail = <<Message("ready", worker.code)>>
          /\ ~dialog
      BY BusyThread, IdleParts DEF UnderWay, TInv, AsksSignedIn
    <2>2. CASE \E r \in BOOLEAN : WaitForPairing(r)
      BY <2>1, <2>2, WaitMeans, ShortMails
    <2>3. CASE worker' = worker
      BY <2>3
    <2>4. \/ worker' = worker \/ \E r \in BOOLEAN : WaitForPairing(r)
      <3>1. CASE WorkerStep
        BY <3>1 DEF WorkerStep, RunSignIn
      <3>2. CASE MailStep
        BY <3>2
        DEF MailStep, OnSignInReady, OnSignInFailed, OnPairingCompleted, ExchangeSucceeds,
            ReportExchangeFailure
      <3>3. CASE PersonStep
        BY <2>1, <3>3
        DEF PersonStep, OpenApp, OnModelKeyStored, OnPullRequestSelected, OnSectionSelected,
            LogOutIfConfirmed, CliLogOut, panelVars
      <3>4. CASE CloseApp \/ StartSignIn \/ ActionLogOut \/ DismissLogOut
        BY <2>1, <3>4
        DEF CloseApp, StartSignIn, MayStart, ActionLogOut, DismissLogOut, panelVars
      <3> QED
        BY <3>1, <3>2, <3>3, <3>4
        DEF TermNext, RebuildAfterPairing, HandleStartEvent, HandleCancelEvent, CodeExpires,
            HostedRevokes, BrowserApproves, panelVars
    <2> QED
      BY <2>2, <2>3, <2>4
  <1> QED
    BY <1>1, TerminalInv, PTL DEF TermSpec, AttemptNotAbandoned

=============================================================================
