----------------------------- MODULE LocalStore -----------------------------
(***************************************************************************)
(* What a runner keeps on its machine: the SQLite store and its migrations *)
(* (local_store/sqlite.py, runner/daemon.py), the rows in it, and the      *)
(* pgvector container with its password (local_store/postgres.py,          *)
(* runner/cli/uninstall.py).  The hosted database's migrations             *)
(* (db/migrate.py) are here as well.                                       *)
(*                                                                         *)
(* A migration script of SQLite is not a transaction: it is begun and      *)
(* ended by two steps, and a process may stop in between.  The store is in *)
(* WAL mode: a committed row is in the -wal beside the file until SQLite   *)
(* folds it into the file.  A file keeps its open connections when it is   *)
(* renamed; the -wal keeps its name.                                       *)
(***************************************************************************)
EXTENDS Naturals, FiniteSets, Sequences

CONSTANTS
    Files,                 \* Enough names for the files a path has had.
    Migrations,            \* The scripts, in the order of their names.
    Rerunnable,            \* Those that run again on a store that has them.
    Rows, Nothing,
    JobIds,                \* Pairs of a repository and a number.
    JobTables              \* Tables with a row of a job: snapshots, findings, events...

ASSUME LocalAssumption ==
    /\ Migrations \in Seq({Migrations[i] : i \in DOMAIN Migrations}) /\ Len(Migrations) > 0
    /\ \A i, k \in DOMAIN Migrations : Migrations[i] = Migrations[k] => i = k
    /\ Rerunnable \subseteq {Migrations[i] : i \in DOMAIN Migrations}
    /\ "findings" \in JobTables /\ JobTables \intersect {"jobs", "decisions"} = {}

Scripts == {Migrations[i] : i \in DOMAIN Migrations}

-----------------------------------------------------------------------------
\* The SQLite file.

VARIABLES
    disk,       \* Each file: its scripts' progress, its records, its rows, and the
                \* scripts that were run again after a whole run (history).
    wal,        \* The rows of each file that are in its -wal only.
    unlinked,   \* Files whose -wal no name leads to any more.
    unnamed,    \* Rows that were in the -wal of such a file (history).
    path,       \* The file local_state.sqlite3 names, or Nothing.
    opener,     \* The daemon's and the trace command's connections.
    written     \* Rows that were committed (history).

walVars == <<wal, unlinked, unnamed>>
diskVars == <<disk, walVars, path, opener, written>>

Processes == {"daemon", "trace"}
Fresh == [ran |-> [m \in Scripts |-> "no"], recorded |-> {}, rows |-> {}, damaged |-> FALSE,
          rerun |-> {}]
Disconnected == [stage |-> "closed", attempt |-> 1]
Unused == Files \ ({path} \union {f \in Files : disk[f] # Fresh})

SetOpener(p, value) == opener' = [opener EXCEPT ![p] = value]
AtStage(p, stage) == opener[p].stage = stage
FileOf(p) == disk[opener[p].file]
Script(p) == Migrations[opener[p].at]

\* Opens the path, whose file is made when there is none.
Connect(p) ==
    /\ AtStage(p, "closed")
    /\ path # Nothing \/ Unused # {}
    /\ path' = IF path = Nothing THEN CHOOSE f \in Unused : TRUE ELSE path
    /\ SetOpener(p, [stage |-> "connected", attempt |-> opener[p].attempt, file |-> path'])
    /\ UNCHANGED <<disk, walVars, written>>

\* The last connection to a file removes the -wal by its name when it closes. For a file
\* that was set aside that is the -wal of the next file. Without a name a -wal goes with
\* the connections to it.
LeaveFile(p) ==
    LET f == opener[p].file
    IN /\ unlinked' \in {unlinked, unlinked \union ({path} \ {f, Nothing})}
       /\ wal' \in {wal, [wal EXCEPT ![f] = IF f \in unlinked THEN {} ELSE @]}
       /\ unnamed' = unnamed \union UNION {wal[g] : g \in unlinked'}

\* SQLite folds the -wal into the file at a commit, when it has grown, or at a close.
WalCheckpoint(p) ==
    /\ opener[p].stage \notin {"closed", "corrupted"}
    /\ wal[opener[p].file] # {}
    /\ disk' = [disk EXCEPT ![opener[p].file].rows = @ \union wal[opener[p].file]]
    /\ wal' = [wal EXCEPT ![opener[p].file] = {}]
    /\ UNCHANGED <<unlinked, unnamed, path, opener, written>>

\* An error of the database: the daemon sets the file aside once and opens anew,
\* a second failure ends it; the trace command goes on without the store.
Corrupted(p) ==
    /\ SetOpener(p, IF p = "daemon" /\ opener[p].attempt = 1
                    THEN [opener[p] EXCEPT !.stage = "corrupted"] ELSE Disconnected)
    /\ LeaveFile(p)
    /\ UNCHANGED path

\* Setting aside by removing the file.
QuarantineFault ==
    /\ AtStage("daemon", "corrupted")
    /\ disk' = [disk EXCEPT ![path] = Fresh]
    /\ path' = Nothing
    /\ SetOpener("daemon", [Disconnected EXCEPT !.attempt = 2])
    /\ UNCHANGED <<walVars, written>>

\* The file is renamed and its -wal is left behind: the next file, empty, has it
\* deleted, and the rows in it stay with a connection to the old file, if there is one.
Quarantine ==
    /\ AtStage("daemon", "corrupted")
    /\ LET f == opener["daemon"].file
       IN /\ unlinked' = unlinked \union {f}
          /\ unnamed' = unnamed \union wal[f]
          /\ wal' = IF AtStage("trace", "closed") \/ opener["trace"].file # f
                    THEN [wal EXCEPT ![f] = {}] ELSE wal
    /\ path' = Nothing
    /\ SetOpener("daemon", [Disconnected EXCEPT !.attempt = 2])
    /\ UNCHANGED <<disk, written>>

ReadApplied(p) ==
    /\ AtStage(p, "connected")
    /\ IF FileOf(p).damaged THEN Corrupted(p)
       ELSE /\ SetOpener(p, [stage |-> "migrating", attempt |-> opener[p].attempt,
                             file |-> opener[p].file, at |-> 1,
                             applied |-> FileOf(p).recorded])
            /\ UNCHANGED <<path, walVars>>
    /\ UNCHANGED <<disk, written>>

Migrating(p) == AtStage(p, "migrating") /\ opener[p].at <= Len(Migrations)

SkipApplied(p) ==
    /\ Migrating(p) /\ Script(p) \in opener[p].applied
    /\ SetOpener(p, [opener[p] EXCEPT !.at = @ + 1])
    /\ UNCHANGED <<disk, walVars, path, written>>

SetRan(p, progress) ==
    disk' = [disk EXCEPT
        ![opener[p].file].ran[Script(p)] = progress,
        ![opener[p].file].rerun =
            IF progress = "partly" /\ FileOf(p).ran[Script(p)] = "wholly"
            THEN @ \union {Script(p)} ELSE @]

\* The first statement fails where its tables are, of a part or of a whole run.
BeginScript(p) ==
    /\ Migrating(p) /\ Script(p) \notin opener[p].applied
    /\ LET ran == FileOf(p).ran[Script(p)]
       IN IF ran = "partly" \/ (ran = "wholly" /\ Script(p) \notin Rerunnable)
          THEN Corrupted(p) /\ UNCHANGED disk
          ELSE SetRan(p, "partly") /\ SetOpener(p, [opener[p] EXCEPT !.stage = "script"])
               /\ UNCHANGED <<path, walVars>>
    /\ UNCHANGED written

EndScript(p) ==
    /\ AtStage(p, "script")
    /\ SetRan(p, "wholly")
    /\ SetOpener(p, [opener[p] EXCEPT !.stage = "recording"])
    /\ UNCHANGED <<path, walVars, written>>

\* A record that is written when the script begins.
RecordableAtFault(p) == AtStage(p, "script")

RecordableAt(p) == AtStage(p, "recording")

\* Another process may have recorded it meanwhile: the primary key refuses.
RecordMigration(p) ==
    /\ RecordableAt(p)
    /\ IF Script(p) \in FileOf(p).recorded
       THEN Corrupted(p) /\ UNCHANGED disk
       ELSE /\ disk' = [disk EXCEPT ![opener[p].file].recorded = @ \union {Script(p)}]
            /\ SetOpener(p, [opener[p] EXCEPT !.stage = "migrating", !.at = @ + 1])
            /\ UNCHANGED <<path, walVars>>
    /\ UNCHANGED written

Opened(p) ==
    /\ AtStage(p, "migrating") /\ opener[p].at > Len(Migrations)
    /\ SetOpener(p, [stage |-> "open", attempt |-> 1, file |-> opener[p].file])
    /\ UNCHANGED <<disk, walVars, path, written>>

\* A result that waits for its acknowledgement, say.
WriteRow(row) ==
    /\ AtStage("daemon", "open") /\ row \notin written
    /\ LET f == opener["daemon"].file
       IN /\ wal' = [wal EXCEPT ![f] = @ \union {row}]
          /\ unnamed' = IF f \in unlinked THEN unnamed \union {row} ELSE unnamed
    /\ written' = written \union {row}
    /\ UNCHANGED <<disk, unlinked, path, opener>>

\* A crash, an end of the process, or of the trace command.
CloseStore(p) ==
    /\ ~AtStage(p, "closed")
    /\ SetOpener(p, Disconnected)
    /\ IF AtStage(p, "corrupted") THEN UNCHANGED walVars ELSE LeaveFile(p)
    /\ UNCHANGED <<disk, path, written>>

Damage ==
    /\ path # Nothing /\ ~disk[path].damaged
    /\ disk' = [disk EXCEPT ![path].damaged = TRUE]
    /\ UNCHANGED <<walVars, path, opener, written>>

DiskInit ==
    /\ disk = [f \in Files |-> Fresh] /\ path = Nothing
    /\ wal = [f \in Files |-> {}] /\ unlinked = {} /\ unnamed = {}
    /\ opener = [p \in Processes |-> Disconnected]
    /\ written = {}

DiskNext ==
    \/ \E p \in Processes :
           \/ Connect(p) \/ ReadApplied(p) \/ SkipApplied(p) \/ BeginScript(p)
           \/ EndScript(p) \/ RecordMigration(p) \/ Opened(p) \/ CloseStore(p)
           \/ WalCheckpoint(p)
    \/ Quarantine \/ Damage
    \/ \E row \in Rows : WriteRow(row)

-----------------------------------------------------------------------------
\* The hosted database: deployments migrate it one after the other, each in one
\* transaction that ends after the advisory lock is given back.

VARIABLES hostedApplied, migrators, advisoryLock

hostedVars == <<hostedApplied, migrators, advisoryLock>>

Deployments == {"old", "new"}
Ready == [stage |-> "ready"]
SetMigrator(d, value) == migrators' = [migrators EXCEPT ![d] = value]
InStage(d, stage) == migrators[d].stage = stage

\* The older deployment does not have the last script.
Available(d) ==
    IF d = "old" THEN SubSeq(Migrations, 1, Len(Migrations) - 1) ELSE Migrations

GetMissing(d) == hostedApplied \ {Available(d)[i] : i \in DOMAIN Available(d)}

LockAndRead(d) ==
    /\ InStage(d, "ready") /\ advisoryLock = Nothing
    /\ advisoryLock' = d
    /\ SetMigrator(d, IF GetMissing(d) # {} THEN [stage |-> "unlocking", mine |-> {}]
                      ELSE [stage |-> "applying", at |-> 1, seen |-> hostedApplied,
                            mine |-> {}])
    /\ UNCHANGED hostedApplied

\* Scripts another transaction has not committed yet.
Uncommitted(d) ==
    UNION {migrators[e].mine : e \in {x \in Deployments \ {d} : ~InStage(x, "ready")}}

AfterFailure(d) == [stage |-> "unlocking", mine |-> migrators[d].mine]

\* A script of another transaction is waited for, and fails once that has committed.
ApplyNext(d) ==
    /\ InStage(d, "applying")
    /\ IF migrators[d].at > Len(Available(d))
       THEN SetMigrator(d, [stage |-> "unlocking", mine |-> migrators[d].mine])
       ELSE LET m == Available(d)[migrators[d].at]
            IN /\ m \notin Uncommitted(d)
               /\ SetMigrator(d,
                      CASE m \in migrators[d].seen -> [migrators[d] EXCEPT !.at = @ + 1]
                        [] m \in hostedApplied \ migrators[d].seen -> AfterFailure(d)
                        [] OTHER -> [migrators[d] EXCEPT !.at = @ + 1, !.mine = @ \union {m}])
    /\ UNCHANGED <<hostedApplied, advisoryLock>>

\* A script that fails is rolled back to its savepoint.
FailScript(d) ==
    /\ InStage(d, "applying") /\ migrators[d].at <= Len(Available(d))
    /\ Available(d)[migrators[d].at] \notin migrators[d].seen
    /\ SetMigrator(d, AfterFailure(d))
    /\ UNCHANGED <<hostedApplied, advisoryLock>>

Unlock(d) ==
    /\ InStage(d, "unlocking")
    /\ advisoryLock' = Nothing
    /\ SetMigrator(d, [migrators[d] EXCEPT !.stage = "committing"])
    /\ UNCHANGED hostedApplied

Commit(d) ==
    /\ InStage(d, "committing")
    /\ hostedApplied' = hostedApplied \union migrators[d].mine
    /\ SetMigrator(d, Ready)
    /\ UNCHANGED advisoryLock

\* The session ends: its transaction is rolled back and its lock is free.
CrashMigrator(d) ==
    /\ ~InStage(d, "ready")
    /\ SetMigrator(d, Ready)
    /\ advisoryLock' = IF advisoryLock = d THEN Nothing ELSE advisoryLock
    /\ UNCHANGED hostedApplied

HostedInit ==
    /\ hostedApplied = {} /\ advisoryLock = Nothing
    /\ migrators = [d \in Deployments |-> Ready]

HostedNext ==
    \E d \in Deployments :
        \/ LockAndRead(d) \/ ApplyNext(d) \/ FailScript(d) \/ Unlock(d) \/ Commit(d)
        \/ CrashMigrator(d)

\* The two databases share nothing: a step is one of either.
StoreSpec ==
    /\ DiskInit /\ HostedInit
    /\ [][ \/ DiskNext /\ UNCHANGED hostedVars
           \/ HostedNext /\ UNCHANGED diskVars ]_<<diskVars, hostedVars>>

\* A local store that opened has every script run to its end and recorded, however
\* often earlier openings were cut short or raced; the exception is a script that
\* rebuilds a table, which a process whose list of records is out of date runs again
\* under a store another process has open. Every committed row is in a file, if only in
\* one that was set aside, or in its -wal, except the rows in a -wal whose name went to
\* another file: the one left behind when its file was set aside, and the one that a
\* connection to a file set aside removed. The hosted database has a first part of the
\* list, although two deployments may hold uncommitted scripts at the same time.
StoreWholeRowsKept ==
    /\ \A p \in Processes : AtStage(p, "open") =>
           \A m \in Scripts : /\ m \in FileOf(p).recorded
                              /\ FileOf(p).ran[m] = "wholly" \/ m \in FileOf(p).rerun
    /\ written \ unnamed \subseteq UNION {disk[f].rows \union wal[f] : f \in Files}
    /\ \A i, k \in DOMAIN Migrations :
           i < k /\ Migrations[k] \in hostedApplied => Migrations[i] \in hostedApplied

-----------------------------------------------------------------------------
\* The pgvector container. The password of the first start on a volume is the one
\* that opens it; the keyring may be out of reach, and then a file keeps secrets.

VARIABLES vector, secrets, backend, forgotten

vectorVars == <<vector, secrets, backend, forgotten>>

Backends == {"keyring", "file"}
Passwords == 1..3
NoPassword == 0

\* A start that makes a password every time.
StoredPasswordFault(b) == NoPassword

StoredPassword(b) == secrets[b]

\* Refused outside full mode and on a port in use; then the password and its file.
StartVector(mode, portFree, random) ==
    /\ vector.stage = "down"
    /\ mode = "full" /\ portFree
    /\ IF StoredPassword(backend) = NoPassword
       THEN /\ random \notin {secrets[b] : b \in Backends} \union {vector.volume}
            /\ secrets' = [secrets EXCEPT ![backend] = random]
       ELSE UNCHANGED secrets
    /\ vector' = [vector EXCEPT !.stage = "starting", !.passwordFile = TRUE]
    /\ UNCHANGED <<backend, forgotten>>

\* The volume is made at the first start, also at one that fails later on.
ComposeUp(ok, created) ==
    /\ vector.stage = "starting"
    /\ ok => created
    /\ vector' = [vector EXCEPT
           !.stage = IF ok THEN "accepting" ELSE "down",
           !.passwordFile = ok,
           !.volume = IF @ = NoPassword /\ created THEN secrets[backend] ELSE @]
    /\ UNCHANGED <<secrets, backend, forgotten>>

\* Connections are tried until they are accepted or the time is up.
WaitUntilAccepts ==
    /\ vector.stage = "accepting"
    /\ vector' = [vector EXCEPT
           !.stage = IF secrets[backend] = vector.volume THEN "up" ELSE "unusable"]
    /\ UNCHANGED <<secrets, backend, forgotten>>

\* The password file goes even if the container did not stop.
StopVector(preserve, confirm, ok) ==
    /\ vector.stage \in {"up", "unusable", "down"}
    /\ preserve \/ confirm
    /\ vector' = [stage |-> IF ok THEN "down" ELSE vector.stage,
                  passwordFile |-> FALSE,
                  volume |-> IF preserve \/ ~ok THEN vector.volume ELSE NoPassword]
    /\ UNCHANGED <<secrets, backend, forgotten>>

\* The process ends during a start; what compose does may still make the volume.
CrashStart(created) ==
    /\ vector.stage = "starting"
    /\ vector' = [vector EXCEPT !.stage = "down",
           !.volume = IF @ = NoPassword /\ created THEN secrets[backend] ELSE @]
    /\ UNCHANGED <<secrets, backend, forgotten>>

\* The command deletes the secrets of the machine and leaves the volume.
UninstallRunner(delete, confirm) ==
    /\ vector.stage = "down" /\ delete /\ confirm
    /\ secrets' = [secrets EXCEPT ![backend] = NoPassword]
    /\ forgotten' = TRUE
    /\ UNCHANGED <<vector, backend>>

\* The next command finds the keyring out of reach, or again within it.
GetSecretStore ==
    /\ vector.stage = "down"
    /\ backend' = IF backend = "keyring" THEN "file" ELSE "keyring"
    /\ forgotten' = TRUE
    /\ UNCHANGED <<vector, secrets>>

VectorInit ==
    /\ vector = [stage |-> "down", passwordFile |-> FALSE, volume |-> NoPassword]
    /\ secrets = [b \in Backends |-> NoPassword] /\ backend \in Backends
    /\ forgotten = FALSE

VectorNext ==
    \/ \E mode \in {"full", "analysis_only"}, free \in BOOLEAN, random \in Passwords :
           StartVector(mode, free, random)
    \/ \E ok, created \in BOOLEAN : ComposeUp(ok, created) \/ CrashStart(created)
    \/ WaitUntilAccepts \/ GetSecretStore
    \/ \E preserve, confirm, ok \in BOOLEAN : StopVector(preserve, confirm, ok)
    \/ \E delete, confirm \in BOOLEAN : UninstallRunner(delete, confirm)

VectorSpec == VectorInit /\ [][VectorNext]_vectorVars

\* A volume that is kept opens at the next start, also when an earlier start failed
\* after it was made, as long as the secret store stays the same and the secrets were
\* not deleted by an uninstallation that leaves the volume.
KeptVolumeOpens ==
    /\ vector.volume # NoPassword /\ ~forgotten => secrets[backend] = vector.volume
    /\ vector.stage = "unusable" => forgotten

-----------------------------------------------------------------------------
\* The rows of the store. Their foreign keys are declared and not enforced: nothing
\* turns them on for a connection.

VARIABLES localRows, claimedJobs, lateRows

localVars == <<localRows, claimedJobs, lateRows>>

LocalRepositories == {job[1] : job \in JobIds}
In(table, job) == <<table, job>> \in localRows

\* Insert, ignore or replace: the row is there afterwards.
InsertRow(table, job, parent) ==
    /\ localRows' = localRows \union {<<table, job>>}
    /\ lateRows' = IF In(parent, job) THEN lateRows \ {<<table, job>>}
               ELSE lateRows \union {<<table, job>>}

RecordJob(job) ==
    /\ localRows' = localRows \union {<<"jobs", job>>}
    /\ claimedJobs' = claimedJobs \union {job}
    /\ UNCHANGED lateRows

\* The review of a claimed job records what it fetches, finds, spends and reports;
\* its repository may have been purged by then.
RecordForJob(table, job) ==
    /\ job \in claimedJobs
    /\ InsertRow(table, job, "jobs")
    /\ UNCHANGED claimedJobs

RecordDecision(job) ==
    /\ job \in claimedJobs
    /\ InsertRow("decisions", job, "findings")
    /\ UNCHANGED claimedJobs

ReviewEnds(job) ==
    /\ job \in claimedJobs
    /\ claimedJobs' = claimedJobs \ {job}
    /\ UNCHANGED <<localRows, lateRows>>

\* Decisions are found through the findings, which may be gone by then.
DecisionsOfFault(job) == {}

DecisionsOf(job) == IF In("findings", job) THEN {<<"decisions", job>>} ELSE {}

\* One transaction, for the jobs that have a row.
PurgeRepository(repository) ==
    LET jobs == {job \in JobIds : job[1] = repository /\ In("jobs", job)}
        gone == (({"jobs"} \union JobTables) \X jobs)
                    \union UNION {DecisionsOf(job) : job \in jobs}
    IN /\ jobs # {}
       /\ localRows' = localRows \ gone
       /\ lateRows' = lateRows \ gone
       /\ UNCHANGED claimedJobs

RowInit == localRows = {} /\ claimedJobs = {} /\ lateRows = {}

RowNext ==
    \/ \E job \in JobIds :
           \/ RecordJob(job) \/ RecordDecision(job) \/ ReviewEnds(job)
           \/ \E table \in JobTables : RecordForJob(table, job)
    \/ \E repository \in LocalRepositories : PurgeRepository(repository)

RowSpec == RowInit /\ [][RowNext]_localVars

\* Without the database's help every row keeps its parent through purges and reviews:
\* a decision its finding, the others their job. The exception is a row that had none
\* when a review recorded it: its repository was purged by then, or it is a decision on
\* a finding that is not stored.
RowsHaveParents ==
    \A row \in localRows :
        \/ row[1] = "jobs" \/ row \in lateRows
        \/ In(IF row[1] = "decisions" THEN "findings" ELSE "jobs", row[2])
=============================================================================
