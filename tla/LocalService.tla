----------------------------- MODULE LocalService -----------------------------
(***************************************************************************)
(* The local onboarding server: `reviewer start`, stop and status with     *)
(* their pid file, port and stored session secret, the pages a browser has *)
(* open on it, and the uninstall that deletes the secret                   *)
(* (runner/cli/service.py, runner/web/local_auth.py, runner/secrets.py,    *)
(* runner/cli/uninstall.py).                                               *)
(*                                                                         *)
(* A start reads or makes the secret, writes the pid file, and only then   *)
(* binds the port; starts (a person's and the user unit's) may overlap.  A *)
(* starter is one process with one pid.  Pids have the same number of      *)
(* digits, so that of two writers of one file the later one's stays.       *)
(***************************************************************************)
EXTENDS Naturals, FiniteSets

CONSTANTS
    Starters,     \* processes that run `reviewer start`
    Tabs,         \* pages of one browser, which share its cookies
    SecretStores, \* the keyring and the directory of files
    MaxSecrets,   \* bound on the secrets ever made
    MaxSessions,  \* bound on the sessions ever opened
    Nobody,       \* None of Python
    Torn          \* a pid file that was emptied and not written yet

ASSUME LocalServiceAssumption ==
    /\ Nobody \notin Starters \union Nat /\ Torn \notin Starters \union {Nobody}
    /\ "unlink" \notin Starters \union {Nobody}

VARIABLES
    lsStart,      \* per starter: its stage, its secret store and its secret
    lsStored,     \* the session secret in each store
    lsPidFile,    \* the starter onboarding.pid names
    lsStopper,    \* a stop under way: the pid it read, or that it removes the file
    lsJar,        \* the browser's cookie: a token and the secret that signed it
    lsTab,        \* the token each page sends back
    lsKeys,       \* what pages had stored where: the model key, the runner credential
    lsCode,       \* the pairing code at the hosted plane
    lsAnswer,     \* what the last step told a command or a page
    lsMade,       \* counters: secrets, sessions
    lsHistory     \* which starters lost their pid file, which pids were left behind,
                  \* the stores starts have used, whether a stored secret was lost

lsVars == <<lsStart, lsStored, lsPidFile, lsStopper, lsJar, lsTab, lsKeys, lsCode, lsAnswer,
            lsMade, lsHistory>>
lsPage == <<lsJar, lsTab, lsKeys, lsCode>>

Off == [stage |-> "off"]
Ended == [stage |-> "ended"]
Stage(s) == lsStart[s].stage
Serving == {s \in Starters : Stage(s) = "serving"}
NoAnswer == [told |-> "nothing"]
Tell(answer) == lsAnswer' = answer
Silent == Tell(NoAnswer)

LsInit ==
    /\ lsStart = [s \in Starters |-> Off]
    /\ lsStored = [b \in SecretStores |-> Nobody] /\ lsPidFile = Nobody /\ lsStopper = Nobody
    /\ lsJar = Nobody /\ lsTab = [t \in Tabs |-> Nobody]
    /\ lsKeys = {} /\ lsCode = "open" /\ lsAnswer = NoAnswer
    /\ lsMade = [secrets |-> 0, sessions |-> 0]
    /\ lsHistory = [shadowed |-> {}, left |-> {}, used |-> {}, lost |-> FALSE]

-----------------------------------------------------------------------------
(* reviewer start. *)

StartRecord(stage, store, secret) == [stage |-> stage, store |-> store, secret |-> secret]

\* A start goes on with the store and the secret it has.
Reach(s, stage) ==
    lsStart' = [lsStart EXCEPT ![s] = StartRecord(stage, lsStart[s].store, lsStart[s].secret)]

\* The probe finds the keyring or not; only a start whose store has no secret makes one.
ReadSecret(s, store) ==
    /\ Stage(s) = "off"
    /\ IF lsStored[store] # Nobody
       THEN /\ lsStart' = [lsStart EXCEPT ![s] = StartRecord("has_secret", store, lsStored[store])]
            /\ UNCHANGED lsMade
       ELSE /\ lsMade.secrets < MaxSecrets
            /\ lsMade' = [lsMade EXCEPT !.secrets = @ + 1]
            /\ lsStart' = [lsStart EXCEPT ![s] =
                   StartRecord("made_secret", store, lsMade.secrets + 1)]
    /\ lsHistory' = [lsHistory EXCEPT !.used = @ \cup {store}]
    /\ Silent
    /\ UNCHANGED <<lsStored, lsPidFile, lsStopper, lsPage>>

StoreSecret(s) ==
    /\ Stage(s) = "made_secret"
    /\ lsStored' = [lsStored EXCEPT ![lsStart[s].store] = lsStart[s].secret]
    /\ Reach(s, "has_secret")
    /\ lsHistory' = [lsHistory EXCEPT !.lost = @ \/ lsStored[lsStart[s].store] # Nobody]
    /\ Silent
    /\ UNCHANGED <<lsPidFile, lsStopper, lsPage, lsMade>>

\* The starters whose file is no longer there.
Shadowed(s) == lsHistory.shadowed \cup ({lsPidFile} \ {s, Nobody, Torn})

\* Opening the pid file empties it.
OpenPid(s) ==
    /\ Stage(s) = "has_secret"
    /\ lsPidFile' = Torn
    /\ Reach(s, "writing")
    /\ lsHistory' = [lsHistory EXCEPT !.shadowed = Shadowed(s)]
    /\ Silent
    /\ UNCHANGED <<lsStored, lsStopper, lsPage, lsMade>>

\* Into the file that was opened, which may have been unlinked since.
WritePid(s) ==
    /\ Stage(s) \in {"writing", "orphaned"}
    /\ lsPidFile' = IF Stage(s) = "writing" THEN s ELSE lsPidFile
    /\ Reach(s, "binding")
    /\ lsHistory' = [lsHistory EXCEPT
           !.shadowed = IF Stage(s) = "writing" THEN Shadowed(s) ELSE @ \cup {s}]
    /\ Silent
    /\ UNCHANGED <<lsStored, lsStopper, lsPage, lsMade>>

Bind(s) ==
    /\ Stage(s) = "binding" /\ Serving = {}
    /\ Reach(s, "serving")
    /\ Silent
    /\ UNCHANGED <<lsStored, lsPidFile, lsStopper, lsPage, lsMade, lsHistory>>

\* Whoever's file it is, it goes, also from under a start that is writing it. A stop
\* that has read the pid of the start that ends keeps it.
Unlink(s) ==
    /\ lsPidFile' = Nobody
    /\ lsStart' = [q \in Starters |->
           IF q = s THEN Ended
           ELSE IF Stage(q) = "writing"
           THEN StartRecord("orphaned", lsStart[q].store, lsStart[q].secret)
           ELSE lsStart[q]]
    /\ lsHistory' = [lsHistory EXCEPT !.shadowed = Shadowed(s), !.left = @ \cup ({s} \cap {lsStopper})]

\* The finally clause, after a failed bind, a signal or an error.
BindFails(s) ==
    /\ Stage(s) = "binding" /\ Serving # {}
    /\ Unlink(s)
    /\ Silent
    /\ UNCHANGED <<lsStored, lsStopper, lsPage, lsMade>>

ServerEnds(s) ==
    /\ Stage(s) \in {"serving", "stopping"}
    /\ Unlink(s)
    /\ Silent
    /\ UNCHANGED <<lsStored, lsStopper, lsPage, lsMade>>

\* An end without the finally clause: the file stays.
Dies(s) ==
    /\ lsStart' = [lsStart EXCEPT ![s] = Ended]
    /\ lsHistory' = [lsHistory EXCEPT !.left = @ \cup ({s} \cap {lsPidFile, lsStopper})]

\* Killed, or the machine went down; also a server that was signalled and raises the
\* signal again once it has shut down, as uvicorn does.
Killed(s) ==
    /\ Stage(s) \notin {"off", "ended"}
    /\ Dies(s)
    /\ Silent
    /\ UNCHANGED <<lsStored, lsPidFile, lsStopper, lsPage, lsMade>>

-----------------------------------------------------------------------------
(* reviewer stop, status and uninstall. *)

NotRunning(shadowed) == Tell([told |-> "not_running", unexplained |-> Serving \ shadowed])

\* A file that holds no number is removed.
StopLocalService ==
    /\ lsStopper = Nobody
    /\ IF lsPidFile = Nobody
       THEN NotRunning(lsHistory.shadowed) /\ UNCHANGED lsStopper
       ELSE /\ lsStopper' = IF lsPidFile = Torn THEN "unlink" ELSE lsPidFile
            /\ Silent
    /\ UNCHANGED <<lsStart, lsStored, lsPidFile, lsPage, lsMade, lsHistory>>

\* The signal ends a start that does not serve yet at once, without its finally
\* clause; a server closes its port and comes to its end.
Signal(s) ==
    IF Stage(s) \in {"serving", "stopping"}
    THEN Reach(s, "stopping") /\ UNCHANGED lsHistory
    ELSE Dies(s)

\* The pid of an ended start may be nobody's, or by now another program's, and that
\* program may be out of reach (os.kill raises).
StopKills(fate) ==
    /\ lsStopper \in Starters
    /\ IF Stage(lsStopper) # "ended"
       THEN /\ fate = "start" /\ Signal(lsStopper)
            /\ Tell([told |-> "stopped", left |-> TRUE])
            /\ lsStopper' = Nobody
       ELSE /\ UNCHANGED <<lsStart, lsHistory>>
            /\ \/ fate = "gone" /\ lsStopper' = "unlink" /\ Silent
               \/ /\ fate = "taken" /\ lsStopper' = Nobody
                  /\ Tell([told |-> "stopped", left |-> lsStopper \in lsHistory.left])
               \/ fate = "refused" /\ lsStopper' = Nobody /\ Tell([told |-> "raised"])
    /\ UNCHANGED <<lsStored, lsPidFile, lsPage, lsMade>>

\* The file may be a new start's by now.
StopUnlinks ==
    /\ lsStopper = "unlink"
    /\ lsStopper' = Nobody
    /\ Unlink(Nobody)
    /\ NotRunning(Shadowed(Nobody))
    /\ UNCHANGED <<lsStored, lsPage, lsMade>>

LocalServiceStatus ==
    /\ Tell([told |-> IF Serving # {} THEN "running" ELSE "status_not_running"])
    /\ UNCHANGED <<lsStart, lsStored, lsPidFile, lsStopper, lsPage, lsMade, lsHistory>>

\* `reviewer uninstall --delete-data --confirm-delete`, with the store its own probe
\* finds; a running server keeps the secret it has read.
UninstallSecrets(store) ==
    /\ lsStored[store] # Nobody
    /\ lsStored' = [lsStored EXCEPT ![store] = Nobody]
    /\ lsKeys' = {k \in lsKeys : k[1] # store}
    /\ lsHistory' = [lsHistory EXCEPT !.lost = TRUE]
    /\ Silent
    /\ UNCHANGED <<lsStart, lsPidFile, lsStopper, lsJar, lsTab, lsCode, lsMade>>

-----------------------------------------------------------------------------
(* The pages of the server that has the port. *)

OpenSession(t) ==
    \E s \in Serving :
        /\ lsMade.sessions < MaxSessions
        /\ lsMade' = [lsMade EXCEPT !.sessions = @ + 1]
        /\ lsTab' = [lsTab EXCEPT ![t] = lsMade.sessions + 1]
        /\ lsJar' = [token |-> lsMade.sessions + 1, secret |-> lsStart[s].secret]
        /\ Silent
        /\ UNCHANGED <<lsStart, lsStored, lsStopper, lsPidFile, lsKeys, lsCode, lsHistory>>

\* Fault: the cookie's signature is checked, the page's token is not.
CsrfOkFault(t, s) == lsTab[t] # Nobody /\ lsJar # Nobody /\ lsJar.secret = lsStart[s].secret

CsrfOk(t, s) ==
    /\ lsTab[t] # Nobody
    /\ lsJar # Nobody /\ lsJar.token = lsTab[t] /\ lsJar.secret = lsStart[s].secret

Told(t, s, what) == Tell([told |-> what, newest |-> lsJar # Nobody /\ lsJar.token = lsTab[t]])

StoreModelKey(t) ==
    \E s \in Serving :
        /\ lsTab[t] # Nobody
        /\ IF CsrfOk(t, s)
           THEN lsKeys' = lsKeys \cup {<<lsStart[s].store, "model_key">>} /\ Told(t, s, "stored")
           ELSE Told(t, s, "csrf") /\ UNCHANGED lsKeys
        /\ UNCHANGED <<lsStart, lsStored, lsStopper, lsPidFile, lsJar, lsTab, lsCode, lsMade, lsHistory>>

\* The hosted plane spends the code before its credential arrives or is stored.
ExchangePairing(t, answered) ==
    \E s \in Serving :
        /\ lsTab[t] # Nobody
        /\ IF ~CsrfOk(t, s) THEN Told(t, s, "csrf") /\ UNCHANGED <<lsKeys, lsCode>>
           ELSE IF lsCode # "open" THEN Told(t, s, "denied") /\ UNCHANGED <<lsKeys, lsCode>>
           ELSE /\ lsCode' = IF answered THEN "exchanged" ELSE "lost"
                /\ lsKeys' = IF answered THEN lsKeys \cup {<<lsStart[s].store, "runner_credential">>}
                           ELSE lsKeys
                /\ Told(t, s, IF answered THEN "exchanged" ELSE "error")
        /\ UNCHANGED <<lsStart, lsStored, lsStopper, lsPidFile, lsJar, lsTab, lsMade, lsHistory>>

StartStep ==
    \/ \E s \in Starters :
           \/ \E store \in SecretStores : ReadSecret(s, store)
           \/ StoreSecret(s) \/ OpenPid(s) \/ WritePid(s) \/ Bind(s) \/ BindFails(s)
           \/ ServerEnds(s) \/ Killed(s)
    \/ \E store \in SecretStores : UninstallSecrets(store)

StopStep ==
    \/ \E fate \in {"start", "gone", "taken", "refused"} : StopKills(fate)
    \/ StopLocalService \/ StopUnlinks \/ LocalServiceStatus

PageStep ==
    \E t \in Tabs :
        \/ OpenSession(t) \/ StoreModelKey(t)
        \/ \E answered \in BOOLEAN : ExchangePairing(t, answered)

LsNext == StartStep \/ StopStep \/ PageStep

LsSpec == LsInit /\ [][LsNext]_lsVars

-----------------------------------------------------------------------------
\* `reviewer stop` says "not running" beside a running server only when another
\* start, or a stop, has taken that server's pid file away, and signals a program
\* that is no start only where a start died with its pid in the file or with a stop.
\* The page opened last is never refused, over any number of restarts, unless the
\* stored secret was overwritten by another first start or deleted by an uninstall, or
\* starts have found different secret stores; an older page always is.
ServiceAsTold ==
    /\ lsAnswer.told = "not_running" => lsAnswer.unexplained = {}
    /\ lsAnswer.told = "stopped" => lsAnswer.left
    /\ lsAnswer.told = "csrf" /\ lsAnswer.newest =>
          lsHistory.lost \/ \E b, c \in lsHistory.used : b # c
    /\ lsAnswer.told \in {"stored", "exchanged", "denied", "error"} => lsAnswer.newest
=============================================================================
