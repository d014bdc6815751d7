--------------------------- MODULE LocalStore_proofs ---------------------------
(***************************************************************************)
(* Proofs about what a runner keeps on its machine: the container's        *)
(* password, the rows and their parents, the migrations of both databases, *)
(* the local onboarding server with its pid file and its sessions, and the *)
(* retrieval index with its queries.                                       *)
(***************************************************************************)
EXTENDS LocalStore, LocalService, RetrievalIndex, FiniteSetTheorems, TLAPS

-----------------------------------------------------------------------------
(* The pgvector container.                                                 *)

VectorTypeOK ==
    /\ vector \in [stage : {"down", "starting", "accepting", "up", "unusable"},
                   passwordFile : BOOLEAN, volume : Nat]
    /\ secrets \in [Backends -> Nat] /\ backend \in Backends /\ forgotten \in BOOLEAN

\* A start has a password from the moment it leaves "down", and a container that
\* accepts connections has its volume.
VectorOnItsWay ==
    /\ vector.stage \in {"starting", "accepting"} => secrets[backend] # NoPassword
    /\ vector.stage = "accepting" => vector.volume # NoPassword

VectorInv == VectorTypeOK /\ VectorOnItsWay /\ KeptVolumeOpens

LEMMA VectorInitInv == VectorInit => VectorInv
  <1> SUFFICES ASSUME VectorInit PROVE VectorInv
    OBVIOUS
  <1>1. vector.stage = "down" /\ vector.volume = NoPassword /\ forgotten = FALSE
    BY DEF VectorInit
  <1>2. VectorTypeOK
    BY DEF VectorInit, VectorTypeOK, NoPassword
  <1> QED
    BY <1>1, <1>2 DEF VectorInv, VectorOnItsWay, KeptVolumeOpens

LEMMA StartVectorInv ==
    ASSUME VectorInv, NEW mode, NEW free, NEW random \in Passwords, StartVector(mode, free, random)
    PROVE  VectorInv'
  <1>1. /\ vector.stage = "down" /\ backend' = backend /\ forgotten' = forgotten
        /\ vector' = [vector EXCEPT !.stage = "starting", !.passwordFile = TRUE]
        /\ random \in Nat \ {0}
    BY DEF StartVector, Passwords
  <1>2. vector'.stage = "starting" /\ vector'.volume = vector.volume
    BY <1>1 DEF VectorInv, VectorTypeOK
  <1>3. /\ secrets' \in [Backends -> Nat] /\ secrets'[backend] # NoPassword
        /\ secrets[backend] # NoPassword => secrets'[backend] = secrets[backend]
    BY <1>1 DEF StartVector, StoredPassword, VectorInv, VectorTypeOK, NoPassword
  <1> QED
    BY <1>1, <1>2, <1>3 DEF VectorInv, VectorTypeOK, VectorOnItsWay, KeptVolumeOpens, NoPassword

LEMMA ComposeInv ==
    ASSUME VectorInv, NEW ok \in BOOLEAN, NEW created \in BOOLEAN,
           ComposeUp(ok, created) \/ CrashStart(created)
    PROVE  VectorInv'
  <1>1. vector.stage = "starting" /\ UNCHANGED <<secrets, backend, forgotten>>
    BY DEF ComposeUp, CrashStart
  <1>2. /\ vector' \in [stage : {"down", "accepting"}, passwordFile : BOOLEAN, volume : Nat]
        /\ vector'.volume = IF vector.volume = NoPassword /\ created THEN secrets[backend] ELSE vector.volume
        /\ vector'.stage = "accepting" => created
    BY DEF ComposeUp, CrashStart, VectorInv, VectorTypeOK
  <1> QED
    BY <1>1, <1>2 DEF VectorInv, VectorTypeOK, VectorOnItsWay, KeptVolumeOpens

LEMMA VectorNextInv == VectorInv /\ [VectorNext]_vectorVars => VectorInv'
  <1> USE DEF VectorInv, VectorTypeOK, VectorOnItsWay, KeptVolumeOpens
  <1>1. ASSUME VectorInv, WaitUntilAccepts PROVE VectorInv'
    BY <1>1 DEF WaitUntilAccepts
  <1>2. ASSUME VectorInv, GetSecretStore PROVE VectorInv'
    BY <1>2 DEF GetSecretStore, Backends
  <1>3. ASSUME VectorInv, NEW preserve \in BOOLEAN, NEW confirm \in BOOLEAN, NEW ok \in BOOLEAN,
               StopVector(preserve, confirm, ok)
        PROVE  VectorInv'
    BY <1>3 DEF StopVector, NoPassword
  <1>4. ASSUME VectorInv, NEW delete \in BOOLEAN, NEW confirm \in BOOLEAN,
               UninstallRunner(delete, confirm)
        PROVE  VectorInv'
    BY <1>4 DEF UninstallRunner, NoPassword
  <1>5. ASSUME VectorInv, UNCHANGED vectorVars PROVE VectorInv'
    BY <1>5 DEF vectorVars
  <1>6. ASSUME VectorInv, VectorNext PROVE VectorInv'
    BY <1>1, <1>2, <1>3, <1>4, <1>6, StartVectorInv, ComposeInv DEF VectorNext
  <1> QED
    BY <1>5, <1>6

\* A kept volume opens at the next start for every sequence of starts, failures,
\* crashes and stops on one secret store that keeps its secrets.
THEOREM VolumesOpen == VectorSpec => []KeptVolumeOpens
  <1>1. VectorInv => KeptVolumeOpens
    BY DEF VectorInv
  <1> QED
    BY <1>1, VectorInitInv, VectorNextInv, PTL DEF VectorSpec

-----------------------------------------------------------------------------
(* The rows of the store.                                                  *)

Tables == {"jobs", "decisions"} \union JobTables
RowInv == localRows \subseteq Tables \X JobIds /\ claimedJobs \subseteq JobIds /\ RowsHaveParents

ParentOf(row) == <<IF row[1] = "decisions" THEN "findings" ELSE "jobs", row[2]>>
Kept(row) == row[1] = "jobs" \/ row \in lateRows \/ ParentOf(row) \in localRows

LEMMA LocalRowsKept == RowsHaveParents <=> \A row \in localRows : Kept(row)
  BY DEF RowsHaveParents, Kept, ParentOf, In

LEMMA InsertInv ==
    ASSUME RowInv, NEW job \in JobIds, NEW table \in Tables \ {"jobs"},
           NEW parent, parent = IF table = "decisions" THEN "findings" ELSE "jobs",
           InsertRow(table, job, parent), UNCHANGED claimedJobs
    PROVE  RowInv'
  <1> PICK new : new = <<table, job>>
    OBVIOUS
  <1>1. localRows' = localRows \union {new} /\ new[1] = table /\ new[2] = job
    BY DEF InsertRow
  <1>2. lateRows' = IF ParentOf(new) \in localRows THEN lateRows \ {new} ELSE lateRows \union {new}
    BY <1>1 DEF InsertRow, In, ParentOf
  <1>3. \A row \in localRows' : Kept(row)'
    <2> SUFFICES ASSUME NEW row \in localRows' PROVE Kept(row)'
      OBVIOUS
    <2>1. CASE row = new
      BY <1>1, <1>2, <2>1 DEF Kept, ParentOf
    <2>2. CASE row # new /\ row \in localRows
      <3>1. Kept(row)
        BY <2>2, LocalRowsKept DEF RowInv
      <3> QED
        BY <1>1, <1>2, <2>2, <3>1 DEF Kept, ParentOf
    <2> QED
      BY <1>1, <2>1, <2>2
  <1>4. RowsHaveParents'
    BY <1>3 DEF RowsHaveParents, Kept, ParentOf, In
  <1>5. new \in Tables \X JobIds
    OBVIOUS
  <1> QED
    BY <1>1, <1>4, <1>5 DEF RowInv

LEMMA PurgeInv ==
    ASSUME RowInv, NEW repository, PurgeRepository(repository)
    PROVE  RowInv'
  <1> DEFINE jobs == {job \in JobIds : job[1] = repository /\ In("jobs", job)}
             gone == (({"jobs"} \union JobTables) \X jobs) \union UNION {DecisionsOf(job) : job \in jobs}
  <1>1. localRows' = localRows \ gone /\ lateRows' = lateRows \ gone /\ claimedJobs' = claimedJobs
    BY DEF PurgeRepository
  <1>0. \A table, job : <<table, job>> \in UNION {DecisionsOf(j) : j \in jobs} => table = "decisions"
    <2> SUFFICES ASSUME NEW table, NEW job, NEW j \in jobs, <<table, job>> \in DecisionsOf(j)
                 PROVE  table = "decisions"
      OBVIOUS
    <2>1. <<table, job>> = <<"decisions", j>>
      BY DEF DecisionsOf
    <2> QED
      BY <2>1
  <1>2. \A job \in JobIds : <<"jobs", job>> \in gone => job \in jobs
    <2> SUFFICES ASSUME NEW job \in JobIds, <<"jobs", job>> \in gone PROVE job \in jobs
      OBVIOUS
    <2>1. <<"jobs", job>> \in ({"jobs"} \union JobTables) \X jobs
      BY <1>0
    <2> QED
      BY <2>1
  <1>3. \A job \in JobIds : <<"findings", job>> \in gone => job \in jobs
    <2> SUFFICES ASSUME NEW job \in JobIds, <<"findings", job>> \in gone PROVE job \in jobs
      OBVIOUS
    <2>1. <<"findings", job>> \in ({"jobs"} \union JobTables) \X jobs
      BY <1>0
    <2> QED
      BY <2>1
  <1>4. \A table \in JobTables, job \in jobs : <<table, job>> \in gone
    OBVIOUS
  <1>5. \A job \in jobs : <<"findings", job>> \in localRows => <<"decisions", job>> \in gone
    BY DEF DecisionsOf, In
  <1> HIDE DEF jobs, gone
  <1>6. ASSUME NEW row \in localRows, row \notin gone
        PROVE  Kept(row)'
    <2>1. Kept(row)
      BY LocalRowsKept DEF RowInv
    <2>2. PICK table \in Tables, job \in JobIds : row = <<table, job>>
      BY DEF RowInv
    <2>3. CASE table = "jobs" \/ row \in lateRows
      BY <1>1, <1>6, <2>2, <2>3 DEF Kept
    <2>4. CASE table = "decisions" /\ row \notin lateRows
      <3>1. <<"findings", job>> \in localRows
        BY <2>1, <2>2, <2>4 DEF Kept, ParentOf
      <3>2. <<"findings", job>> \notin gone
        BY <1>3, <1>5, <1>6, <2>2, <2>4, <3>1
      <3> QED
        BY <1>1, <2>2, <2>4, <3>1, <3>2 DEF Kept, ParentOf
    <2>5. CASE table \in JobTables /\ table # "jobs" /\ table # "decisions" /\ row \notin lateRows
      <3>1. <<"jobs", job>> \in localRows
        BY <2>1, <2>2, <2>5 DEF Kept, ParentOf
      <3>2. <<"jobs", job>> \notin gone
        BY <1>2, <1>4, <1>6, <2>2, <2>5
      <3> QED
        BY <1>1, <2>2, <2>5, <3>1, <3>2 DEF Kept, ParentOf
    <2> QED
      BY <2>2, <2>3, <2>4, <2>5 DEF Tables
  <1>7. \A row \in localRows' : Kept(row)'
    BY <1>1, <1>6
  <1>8. RowsHaveParents'
    BY <1>7 DEF RowsHaveParents, Kept, ParentOf, In
  <1> QED
    BY <1>1, <1>8 DEF RowInv

LEMMA RowNextInv == RowInv /\ [RowNext]_localVars => RowInv'
  <1>1. ASSUME RowInv, NEW job \in JobIds, RecordJob(job) PROVE RowInv'
    <2>1. <<"jobs", job>> \in Tables \X JobIds
      BY DEF Tables
    <2>2. \A row \in localRows' : Kept(row)'
      <3> SUFFICES ASSUME NEW row \in localRows' PROVE Kept(row)'
        OBVIOUS
      <3>1. /\ localRows' = localRows \union {<<"jobs", job>>} /\ lateRows' = lateRows
        BY <1>1 DEF RecordJob
      <3>2. CASE row = <<"jobs", job>>
        BY <3>2 DEF Kept
      <3>3. CASE row \in localRows
        <4>1. Kept(row)
          BY <1>1, <3>3, LocalRowsKept DEF RowInv
        <4> QED
          BY <3>1, <4>1 DEF Kept, ParentOf
      <3> QED
        BY <3>1, <3>2, <3>3
    <2>3. RowsHaveParents'
      BY <2>2 DEF RowsHaveParents, Kept, ParentOf, In
    <2> QED
      BY <1>1, <2>1, <2>3 DEF RecordJob, RowInv
  <1>2. ASSUME RowInv, NEW job \in JobIds, RecordDecision(job) PROVE RowInv'
    BY <1>2, InsertInv DEF RecordDecision, Tables
  <1>3. ASSUME RowInv, NEW job \in JobIds, NEW table \in JobTables, RecordForJob(table, job)
        PROVE  RowInv'
    <2>1. table \in Tables \ {"jobs"} /\ table # "decisions"
      BY LocalAssumption DEF Tables
    <2> QED
      BY <1>3, <2>1, InsertInv DEF RecordForJob
  <1>4. ASSUME RowInv, NEW job \in JobIds, ReviewEnds(job) PROVE RowInv'
    BY <1>4 DEF ReviewEnds, RowInv, RowsHaveParents, In
  <1>5. ASSUME RowInv, UNCHANGED localVars PROVE RowInv'
    BY <1>5 DEF localVars, RowInv, RowsHaveParents, In
  <1>6. ASSUME RowInv, RowNext PROVE RowInv'
    BY <1>1, <1>2, <1>3, <1>4, <1>6, PurgeInv DEF RowNext
  <1> QED
    BY <1>5, <1>6

\* Every row keeps its parent through purges and reviews of any number of jobs and
\* tables, but for rows recorded after a purge.
THEOREM RowsAlwaysHaveParents == RowSpec => []RowsHaveParents
  <1>1. RowInit => RowInv
    BY DEF RowInit, RowInv, RowsHaveParents
  <1>2. RowInv => RowsHaveParents
    BY DEF RowInv
  <1> QED
    BY <1>1, <1>2, RowNextInv, PTL DEF RowSpec

-----------------------------------------------------------------------------
(* The hosted database's migrations.                                       *)

LastScript == Len(Migrations)

LEMMA MigrationFacts ==
    /\ LastScript \in Nat \ {0} /\ DOMAIN Migrations = 1..LastScript
    /\ \A i \in 1..LastScript : Migrations[i] \in Scripts
    /\ \A i, k \in 1..LastScript : Migrations[i] = Migrations[k] => i = k
    /\ \A m \in Scripts : \E i \in 1..LastScript : m = Migrations[i]
  BY LocalAssumption DEF LastScript, Scripts

LEMMA AvailableFacts ==
    ASSUME NEW d \in Deployments
    PROVE  /\ Len(Available(d)) \in 0..LastScript
           /\ \A i \in 1..Len(Available(d)) : Available(d)[i] = Migrations[i]
  <1>1. Migrations \in Seq(Scripts)
    BY LocalAssumption DEF Scripts
  <1>2. CASE d = "old"
    BY <1>1, <1>2, MigrationFacts DEF Available, LastScript
  <1>3. CASE d # "old"
    BY <1>3, MigrationFacts DEF Available, LastScript
  <1> QED
    BY <1>2, <1>3

Migrator ==
    [stage : {"ready"}] \union [stage : {"unlocking", "committing"}, mine : SUBSET Scripts]
      \union [stage : {"applying", "committing"}, at : Nat \ {0}, seen : SUBSET Scripts,
              mine : SUBSET Scripts]

\* A first part of the list, as far as what is committed goes.
LeadsUp(new, old) ==
    \A i, k \in 1..LastScript : i < k /\ Migrations[k] \in new => Migrations[i] \in old

\* A transaction's scripts follow on what it has applied itself and what is committed,
\* also where another transaction commits in between.
MigratorInv(d) ==
    /\ InStage(d, "ready") \/ LeadsUp(migrators[d].mine, migrators[d].mine \union hostedApplied)
    /\ InStage(d, "applying") =>
           /\ migrators[d].seen \subseteq hostedApplied
           /\ \A i \in 1..LastScript :
                  i < migrators[d].at => Migrations[i] \in migrators[d].mine \union hostedApplied

HostedInv ==
    /\ migrators \in [Deployments -> Migrator] /\ hostedApplied \subseteq Scripts
    /\ LeadsUp(hostedApplied, hostedApplied)
    /\ \A d \in Deployments : MigratorInv(d)

LEMMA HostedInitInv == HostedInit => HostedInv
  <1> SUFFICES ASSUME HostedInit PROVE HostedInv
    OBVIOUS
  <1>1. Ready \in Migrator /\ Ready.stage = "ready"
    BY DEF Ready, Migrator
  <1>2. hostedApplied = {} /\ migrators = [d \in Deployments |-> Ready]
    BY DEF HostedInit
  <1> QED
    BY <1>1, <1>2 DEF HostedInv, MigratorInv, LeadsUp, InStage

\* One migrator moves and the committed scripts only grow.
LEMMA MigratorMoves ==
    ASSUME HostedInv, NEW d \in Deployments, NEW row \in Migrator,
           migrators' = [migrators EXCEPT ![d] = row],
           hostedApplied \subseteq hostedApplied', hostedApplied' \subseteq Scripts,
           LeadsUp(hostedApplied, hostedApplied)',
           row.stage = "ready" \/ LeadsUp(row.mine, row.mine \union hostedApplied'),
           row.stage = "applying" =>
               /\ row.seen \subseteq hostedApplied'
               /\ \A i \in 1..LastScript : i < row.at => Migrations[i] \in row.mine \union hostedApplied'
    PROVE  HostedInv'
  <1>1. /\ migrators' \in [Deployments -> Migrator] /\ migrators'[d] = row
        /\ \A e \in Deployments : e # d => migrators'[e] = migrators[e]
    BY DEF HostedInv
  <1>2. MigratorInv(d)'
    BY <1>1 DEF MigratorInv, InStage, LeadsUp
  <1>3. ASSUME NEW e \in Deployments, e # d PROVE MigratorInv(e)'
    <2>1. MigratorInv(e) /\ migrators'[e] = migrators[e]
      BY <1>1, <1>3 DEF HostedInv
    <2> QED
      BY <2>1 DEF MigratorInv, InStage, LeadsUp
  <1> QED
    BY <1>1, <1>2, <1>3 DEF HostedInv

LEMMA ApplyInv ==
    ASSUME HostedInv, NEW d \in Deployments, ApplyNext(d) \/ FailScript(d)
    PROVE  HostedInv'
  <1> DEFINE old == migrators[d]
  <1>1. /\ old \in Migrator /\ old.stage = "applying" /\ hostedApplied' = hostedApplied
        /\ MigratorInv(d) /\ LeadsUp(hostedApplied, hostedApplied)
    BY DEF HostedInv, ApplyNext, FailScript, InStage
  <1>2. old \in [stage : {"applying", "committing"}, at : Nat \ {0}, seen : SUBSET Scripts,
                 mine : SUBSET Scripts]
    BY <1>1 DEF Migrator
  <1>3. /\ LeadsUp(old.mine, old.mine \union hostedApplied) /\ old.seen \subseteq hostedApplied
        /\ \A i \in 1..LastScript : i < old.at => Migrations[i] \in old.mine \union hostedApplied
    BY <1>1 DEF MigratorInv, InStage
  <1>4. LeadsUp(hostedApplied, hostedApplied)'
    BY <1>1 DEF LeadsUp
  <1>5. CASE migrators' = [migrators EXCEPT ![d] = [stage |-> "unlocking", mine |-> old.mine]]
    <2> PICK row : row = [stage |-> "unlocking", mine |-> old.mine]
      OBVIOUS
    <2>1. row \in Migrator /\ row.stage = "unlocking" /\ row.mine = old.mine
      BY <1>2 DEF Migrator
    <2>2. migrators' = [migrators EXCEPT ![d] = row]
      BY <1>5
    <2> QED
      BY <1>1, <1>3, <1>4, <2>1, <2>2, MigratorMoves DEF HostedInv
  <1>6. ASSUME old.at <= Len(Available(d)), NEW more \in SUBSET Scripts,
               migrators' = [migrators EXCEPT ![d] = [old EXCEPT !.at = old.at + 1, !.mine = old.mine \union more]],
               Available(d)[old.at] \in more \union old.seen,
               more \subseteq {Available(d)[old.at]}
        PROVE  HostedInv'
    <2> PICK row : row = [old EXCEPT !.at = old.at + 1, !.mine = old.mine \union more]
      OBVIOUS
    <2>1. /\ row \in Migrator /\ row.stage = "applying" /\ row.at = old.at + 1
          /\ row.seen = old.seen /\ row.mine = old.mine \union more
      <3>1. old.at + 1 \in Nat \ {0} /\ old.mine \union more \in SUBSET Scripts
        BY <1>2, <1>6
      <3>2. /\ row \in [stage : {"applying", "committing"}, at : Nat \ {0}, seen : SUBSET Scripts,
                       mine : SUBSET Scripts]
            /\ row.stage = "applying" /\ row.at = old.at + 1
            /\ row.seen = old.seen /\ row.mine = old.mine \union more
        BY <1>1, <1>2, <3>1
      <3> QED
        BY <3>2 DEF Migrator
    <2>2. migrators' = [migrators EXCEPT ![d] = row]
      BY <1>6
    <2>3. old.at \in 1..LastScript /\ Available(d)[old.at] = Migrations[old.at]
      BY <1>2, <1>6, AvailableFacts, MigrationFacts
    <2>4. \A i \in 1..LastScript : i < row.at => Migrations[i] \in row.mine \union hostedApplied
      <3> SUFFICES ASSUME NEW i \in 1..LastScript, i < row.at
                   PROVE  Migrations[i] \in row.mine \union hostedApplied
        OBVIOUS
      <3>1. i = old.at \/ i < old.at
        BY <2>1, <2>3
      <3> QED
        BY <1>3, <1>6, <2>1, <2>3, <3>1
    <2>5. LeadsUp(row.mine, row.mine \union hostedApplied)
      <3> SUFFICES ASSUME NEW i \in 1..LastScript, NEW k \in 1..LastScript, i < k,
                          Migrations[k] \in row.mine
                   PROVE  Migrations[i] \in row.mine \union hostedApplied
        BY DEF LeadsUp
      <3>1. CASE Migrations[k] \in old.mine
        BY <1>3, <2>1, <3>1 DEF LeadsUp
      <3>2. CASE Migrations[k] = Migrations[old.at]
        <4>1. k = old.at /\ i < row.at
          BY <2>1, <2>3, <3>2, MigrationFacts
        <4> QED
          BY <2>4, <4>1
      <3> QED
        BY <1>6, <2>1, <2>3, <3>1, <3>2
    <2> QED
      BY <1>1, <1>3, <1>4, <2>1, <2>2, <2>4, <2>5, MigratorMoves DEF HostedInv
  <1>7. CASE ApplyNext(d) /\ ~(old.at > Len(Available(d)))
    <2>0. old.at <= Len(Available(d))
      BY <1>2, <1>7, AvailableFacts, MigrationFacts
    <2> PICK m : m = Available(d)[old.at]
      OBVIOUS
    <2>1. migrators' = [migrators EXCEPT ![d] =
                CASE m \in old.seen -> [old EXCEPT !.at = old.at + 1]
                  [] m \in hostedApplied \ old.seen -> AfterFailure(d)
                  [] OTHER -> [old EXCEPT !.at = old.at + 1, !.mine = old.mine \union {m}]]
      BY <1>7 DEF ApplyNext, SetMigrator
    <2>2. m \in Scripts
      BY <1>2, <2>0, AvailableFacts, MigrationFacts
    <2>3. CASE m \in old.seen
      <3> PICK none \in SUBSET Scripts : none = {}
        OBVIOUS
      <3>1. [old EXCEPT !.at = old.at + 1] = [old EXCEPT !.at = old.at + 1, !.mine = old.mine \union none]
        BY <1>2
      <3>2. migrators' = [migrators EXCEPT ![d] = [old EXCEPT !.at = old.at + 1, !.mine = old.mine \union none]]
        BY <2>1, <2>3, <3>1
      <3>3. none \subseteq {Available(d)[old.at]} /\ Available(d)[old.at] \in none \union old.seen
        BY <2>3
      <3> HIDE DEF old
      <3> QED
        BY <1>6, <2>0, <3>2, <3>3
    <2>4. CASE m \notin old.seen /\ m \in hostedApplied
      BY <1>5, <2>1, <2>4 DEF AfterFailure
    <2>5. CASE m \notin old.seen /\ m \notin hostedApplied
      <3>1. migrators' = [migrators EXCEPT ![d] = [old EXCEPT !.at = old.at + 1, !.mine = old.mine \union {m}]]
        BY <2>1, <2>5
      <3> QED
        BY <1>6, <2>0, <2>2, <3>1
    <2> QED
      BY <2>3, <2>4, <2>5
  <1>8. CASE ApplyNext(d) /\ old.at > Len(Available(d))
    BY <1>5, <1>8 DEF ApplyNext, SetMigrator
  <1>9. CASE FailScript(d)
    BY <1>5, <1>9 DEF FailScript, SetMigrator, AfterFailure
  <1> QED
    BY <1>7, <1>8, <1>9

LEMMA HostedStepInv ==
    ASSUME HostedInv, NEW d \in Deployments,
           LockAndRead(d) \/ Unlock(d) \/ Commit(d) \/ CrashMigrator(d)
    PROVE  HostedInv'
  <1>0. /\ migrators[d] \in Migrator /\ MigratorInv(d) /\ LeadsUp(hostedApplied, hostedApplied)
        /\ hostedApplied \subseteq Scripts
    BY DEF HostedInv
  <1>1. ASSUME HostedInv, hostedApplied' = hostedApplied PROVE LeadsUp(hostedApplied, hostedApplied)'
    BY <1>0, <1>1 DEF LeadsUp
  <1>2. CASE LockAndRead(d)
    <2>1. PICK row : /\ migrators' = [migrators EXCEPT ![d] = row]
                     /\ row \in {[stage |-> "unlocking", mine |-> {}],
                                 [stage |-> "applying", at |-> 1, seen |-> hostedApplied, mine |-> {}]}
      BY <1>2 DEF LockAndRead, SetMigrator
    <2>2. /\ row \in Migrator /\ row.mine = {} /\ row.stage # "ready"
          /\ row.stage = "applying" => row.at = 1 /\ row.seen = hostedApplied
      BY <1>0, <2>1 DEF Migrator
    <2>3. hostedApplied' = hostedApplied
      BY <1>2 DEF LockAndRead
    <2>4. LeadsUp(row.mine, row.mine \union hostedApplied')
      BY <2>2 DEF LeadsUp
    <2>5. \A i \in 1..LastScript : ~(i < 1)
      OBVIOUS
    <2> QED
      BY <1>0, <1>1, <2>1, <2>2, <2>3, <2>4, <2>5, MigratorMoves
  <1>3. CASE Unlock(d)
    <2> PICK row : row = [migrators[d] EXCEPT !.stage = "committing"]
      OBVIOUS
    <2>1. /\ migrators' = [migrators EXCEPT ![d] = row] /\ hostedApplied' = hostedApplied
          /\ migrators[d].stage = "unlocking"
      BY <1>3 DEF Unlock, SetMigrator, InStage
    <2>2. row \in Migrator /\ row.stage = "committing" /\ row.mine = migrators[d].mine
      BY <1>0, <2>1 DEF Migrator
    <2>3. LeadsUp(row.mine, row.mine \union hostedApplied')
      BY <1>0, <2>1, <2>2 DEF MigratorInv, InStage
    <2> QED
      BY <1>0, <1>1, <2>1, <2>2, <2>3, MigratorMoves
  <1>4. Ready \in Migrator /\ Ready.stage = "ready"
    BY DEF Ready, Migrator
  <1>5. CASE Commit(d)
    <2>1. /\ migrators' = [migrators EXCEPT ![d] = Ready] /\ migrators[d].stage = "committing"
          /\ hostedApplied' = hostedApplied \union migrators[d].mine
      BY <1>5 DEF Commit, SetMigrator, InStage
    <2>2. migrators[d].mine \subseteq Scripts
      BY <1>0, <2>1 DEF Migrator
    <2>3. LeadsUp(migrators[d].mine, migrators[d].mine \union hostedApplied)
      BY <1>0, <2>1 DEF MigratorInv, InStage
    <2>4. LeadsUp(hostedApplied, hostedApplied)'
      BY <1>0, <2>1, <2>3 DEF LeadsUp
    <2> QED
      BY <1>0, <1>4, <2>1, <2>2, <2>4, MigratorMoves
  <1>6. CASE CrashMigrator(d)
    <2>1. migrators' = [migrators EXCEPT ![d] = Ready] /\ hostedApplied' = hostedApplied
      BY <1>6 DEF CrashMigrator, SetMigrator
    <2> QED
      BY <1>0, <1>1, <1>4, <2>1, MigratorMoves
  <1> QED
    BY <1>2, <1>3, <1>5, <1>6

LEMMA HostedNextInv == HostedInv /\ [HostedNext]_hostedVars => HostedInv'
  <1>1. ASSUME HostedInv, HostedNext PROVE HostedInv'
    BY <1>1, ApplyInv, HostedStepInv DEF HostedNext
  <1>2. ASSUME HostedInv, UNCHANGED hostedVars PROVE HostedInv'
    BY <1>2 DEF hostedVars, HostedInv, MigratorInv, InStage, LeadsUp
  <1> QED
    BY <1>1, <1>2

-----------------------------------------------------------------------------
(* The SQLite file.                                                        *)

FileRow ==
    [ran : [Scripts -> {"no", "partly", "wholly"}], recorded : SUBSET Scripts, rows : SUBSET Rows,
     damaged : BOOLEAN, rerun : SUBSET Scripts]
InProgress ==
    [stage : {"migrating", "script", "recording", "corrupted"}, attempt : {1, 2}, file : Files,
     at : 1..(LastScript + 1), applied : SUBSET Scripts]
Opener ==
    [stage : {"closed"}, attempt : {1, 2}]
      \union [stage : {"connected", "corrupted", "open"}, attempt : {1, 2}, file : Files]
      \union InProgress

\* Run to its end, at least once.
Sound(file, m) == file.ran[m] = "wholly" \/ m \in file.rerun
RecordedSound(file) == \A m \in file.recorded : Sound(file, m)

\* A connection that migrates has every script before its own recorded in its file, and
\* one about to record has run its script to the end, whoever else migrates the file.
ConnInv(row, files) ==
    /\ row.stage \in {"script", "recording"} => row.at \in 1..LastScript
    /\ row.stage = "recording" => Sound(files[row.file], Migrations[row.at])
    /\ row.stage \in {"migrating", "script", "recording"} =>
           /\ row.applied \subseteq files[row.file].recorded
           /\ \A i \in 1..LastScript : i < row.at => Migrations[i] \in files[row.file].recorded
    /\ row.stage = "open" => Scripts \subseteq files[row.file].recorded

DiskTypeOK ==
    /\ disk \in [Files -> FileRow] /\ path \in Files \union {Nothing}
    /\ opener \in [Processes -> Opener] /\ written \subseteq Rows

\* Rows leave the -wal of a file only into the file, or after its name was lost, and
\* then they are known to have been in it.
WalInv ==
    /\ wal \in [Files -> SUBSET Rows] /\ unlinked \subseteq Files
    /\ \A f \in unlinked : wal[f] \subseteq unnamed

RowsKept == \A row \in written \ unnamed : \E f \in Files : row \in disk[f].rows \union wal[f]

DiskInv ==
    /\ DiskTypeOK /\ WalInv /\ RowsKept
    /\ \A f \in Files : RecordedSound(disk[f])
    /\ \A p \in Processes : ConnInv(opener[p], disk)

\* What a step that commits no row and folds none may do to the -wal files.
WalLeft ==
    /\ WalInv' /\ unnamed \subseteq unnamed'
    /\ \A f \in Files : wal[f] \subseteq wal'[f] \union unnamed'

\* What a step may do to a file: add rows and records, and run scripts.
Grew(old, new) ==
    /\ old.recorded \subseteq new.recorded /\ old.rows \subseteq new.rows
    /\ \A m \in Scripts : Sound(old, m) => Sound(new, m)

LEMMA OpenerFields ==
    ASSUME NEW row \in Opener
    PROVE  /\ row.stage # "closed" => row.file \in Files
           /\ row.stage \in {"migrating", "script", "recording"} => row \in InProgress
           /\ row.attempt \in {1, 2}
  BY DEF Opener, InProgress

LEMMA ConnGrows ==
    ASSUME NEW row \in Opener, NEW old, NEW new, ConnInv(row, old),
           \A f \in Files : Grew(old[f], new[f])
    PROVE  ConnInv(row, new)
  <1>1. row.stage # "closed" => row.file \in Files /\ Grew(old[row.file], new[row.file])
    BY OpenerFields
  <1>2. row.stage \in {"script", "recording"} => Migrations[row.at] \in Scripts
    BY MigrationFacts DEF ConnInv
  <1> QED
    BY <1>1, <1>2 DEF ConnInv, Grew

LEMMA SameGrows == \A file : Grew(file, file)
  BY DEF Grew

LEMMA SameWal ==
    ASSUME DiskInv, UNCHANGED walVars
    PROVE  WalLeft
  BY DEF DiskInv, WalInv, WalLeft, walVars

LEMMA LeavingWal ==
    ASSUME DiskInv, NEW p \in Processes, LeaveFile(p), opener[p].stage # "closed"
    PROVE  WalLeft
  <1> DEFINE f == opener[p].file
             bare == [wal EXCEPT ![f] = IF f \in unlinked THEN {} ELSE @]
  <1>0. /\ wal \in [Files -> SUBSET Rows] /\ unlinked \subseteq Files /\ path \in Files \union {Nothing}
        /\ (\A g \in unlinked : wal[g] \subseteq unnamed) /\ f \in Files
    BY OpenerFields DEF DiskInv, DiskTypeOK, WalInv
  <1>1. /\ unlinked' \subseteq Files /\ unlinked \subseteq unlinked'
    BY <1>0 DEF LeaveFile
  <1>2. /\ unnamed' = unnamed \union UNION {wal[g] : g \in unlinked'}
        /\ wal' = wal \/ wal' = bare
    BY DEF LeaveFile
  <1>3. \A g \in unlinked' : wal[g] \subseteq unnamed'
    BY <1>2
  <1>4. /\ bare \in [Files -> SUBSET Rows]
        /\ \A g \in Files : bare[g] = wal[g] \/ (bare[g] = {} /\ g \in unlinked)
    BY <1>0
  <1> HIDE DEF bare
  <1>5. /\ wal' \in [Files -> SUBSET Rows]
        /\ \A g \in Files : wal'[g] = wal[g] \/ (wal'[g] = {} /\ g \in unlinked)
    BY <1>0, <1>2, <1>4
  <1>6. WalInv'
    BY <1>1, <1>3, <1>5 DEF WalInv
  <1>7. \A g \in Files : wal[g] \subseteq wal'[g] \union unnamed'
    BY <1>0, <1>2, <1>5
  <1> QED
    BY <1>2, <1>6, <1>7 DEF WalLeft

\* One connection moves, and one file at most.
LEMMA DiskMoves ==
    ASSUME DiskInv, NEW p \in Processes, NEW row \in Opener, opener' = [opener EXCEPT ![p] = row],
           disk' \in [Files -> FileRow], \A f \in Files : Grew(disk[f], disk'[f]),
           \A f \in Files : RecordedSound(disk'[f]), path' \in Files \union {Nothing},
           ConnInv(row, disk'), written' = written, WalLeft
    PROVE  DiskInv'
  <1>1. /\ opener' \in [Processes -> Opener] /\ opener'[p] = row
        /\ \A q \in Processes : q # p => opener'[q] = opener[q]
    BY DEF DiskInv, DiskTypeOK
  <1>2. \A q \in Processes : ConnInv(opener[q], disk')
    BY ConnGrows DEF DiskInv, DiskTypeOK
  <1>3. \A q \in Processes : ConnInv(opener'[q], disk')
    BY <1>1, <1>2
  <1>4. RowsKept'
    BY DEF DiskInv, RowsKept, WalLeft, Grew
  <1> QED
    BY <1>1, <1>3, <1>4 DEF DiskInv, DiskTypeOK, WalLeft

\* A step that moves one connection and leaves the files alone.
LEMMA OpenerMoves ==
    ASSUME DiskInv, NEW p \in Processes, NEW row \in Opener, opener' = [opener EXCEPT ![p] = row],
           disk' = disk, path' \in Files \union {Nothing}, ConnInv(row, disk), written' = written,
           WalLeft
    PROVE  DiskInv'
  BY DiskMoves, SameGrows DEF DiskInv, DiskTypeOK

LEMMA ClosedRow ==
    /\ Disconnected \in Opener /\ [Disconnected EXCEPT !.attempt = 2] \in Opener
    /\ \A files : ConnInv(Disconnected, files) /\ ConnInv([Disconnected EXCEPT !.attempt = 2], files)
  BY DEF Disconnected, Opener, ConnInv

LEMMA CorruptedInv ==
    ASSUME DiskInv, NEW p \in Processes, Corrupted(p), disk' = disk, written' = written,
           opener[p].stage \in {"connected", "migrating", "recording"}
    PROVE  DiskInv'
  <1>0. opener[p] \in Opener /\ path' = path /\ path \in Files \union {Nothing}
    BY DEF DiskInv, DiskTypeOK, Corrupted
  <1>w. WalLeft
    BY LeavingWal DEF Corrupted
  <1>1. CASE p = "daemon" /\ opener[p].attempt = 1
    <2> PICK row : row = [opener[p] EXCEPT !.stage = "corrupted"]
      OBVIOUS
    <2>1. opener' = [opener EXCEPT ![p] = row]
      BY <1>1 DEF Corrupted, SetOpener
    <2>2. row \in Opener /\ row.stage = "corrupted"
      <3>1. CASE opener[p].stage = "connected"
        BY <1>0, <3>1 DEF Opener, InProgress
      <3>2. CASE opener[p].stage \in {"migrating", "recording"}
        BY <1>0, <3>2, OpenerFields DEF Opener, InProgress
      <3> QED
        BY <3>1, <3>2
    <2>3. ConnInv(row, disk)
      BY <2>2 DEF ConnInv
    <2> QED
      BY <1>0, <1>w, <2>1, <2>2, <2>3, OpenerMoves
  <1>2. CASE ~(p = "daemon" /\ opener[p].attempt = 1)
    <2>1. opener' = [opener EXCEPT ![p] = Disconnected]
      BY <1>2 DEF Corrupted, SetOpener
    <2> QED
      BY <1>0, <1>w, <2>1, ClosedRow, OpenerMoves
  <1> QED
    BY <1>1, <1>2

LEMMA ConnectInv ==
    ASSUME DiskInv, NEW p \in Processes, Connect(p) \/ CloseStore(p) \/ Opened(p) \/ ReadApplied(p)
    PROVE  DiskInv'
  <1>0. /\ opener[p] \in Opener /\ ConnInv(opener[p], disk) /\ opener[p].attempt \in {1, 2}
        /\ path \in Files \union {Nothing} /\ disk \in [Files -> FileRow]
    BY OpenerFields DEF DiskInv, DiskTypeOK
  <1>1. CASE Connect(p)
    <2>1. path' \in Files
      BY <1>0, <1>1 DEF Connect, Unused
    <2> PICK row : row = [stage |-> "connected", attempt |-> opener[p].attempt, file |-> path']
      OBVIOUS
    <2>2. row \in Opener /\ row.stage = "connected"
      BY <1>0, <2>1 DEF Opener
    <2>3. ConnInv(row, disk)
      BY <2>2 DEF ConnInv
    <2>4. opener' = [opener EXCEPT ![p] = row] /\ disk' = disk /\ written' = written /\ WalLeft
      BY <1>1, SameWal DEF Connect, SetOpener
    <2> QED
      BY <2>1, <2>2, <2>3, <2>4, OpenerMoves
  <1>2. CASE CloseStore(p)
    <2>1. WalLeft
      BY <1>2, SameWal, LeavingWal DEF CloseStore, AtStage
    <2> QED
      BY <1>0, <1>2, <2>1, ClosedRow, OpenerMoves DEF CloseStore, SetOpener
  <1>3. CASE Opened(p)
    <2> PICK row : row = [stage |-> "open", attempt |-> 1, file |-> opener[p].file]
      OBVIOUS
    <2>1. opener[p].stage = "migrating" /\ opener[p].at > Len(Migrations)
      BY <1>3 DEF Opened, AtStage
    <2>2. opener[p] \in InProgress
      BY <1>0, <2>1, OpenerFields
    <2>3. row \in Opener /\ row.stage = "open" /\ row.file = opener[p].file
      BY <2>2 DEF Opener, InProgress
    <2>4. \A i \in 1..LastScript : i < opener[p].at
      BY <2>1, <2>2, MigrationFacts DEF LastScript, InProgress
    <2>5. Scripts \subseteq disk[opener[p].file].recorded
      BY <1>0, <2>1, <2>4, MigrationFacts DEF ConnInv
    <2>6. ConnInv(row, disk)
      BY <2>3, <2>5 DEF ConnInv
    <2>7. /\ opener' = [opener EXCEPT ![p] = row] /\ disk' = disk /\ written' = written
          /\ path' = path /\ WalLeft
      BY <1>3, SameWal DEF Opened, SetOpener
    <2> QED
      BY <1>0, <2>3, <2>6, <2>7, OpenerMoves
  <1>4. CASE ReadApplied(p) /\ FileOf(p).damaged
    BY <1>4, CorruptedInv DEF ReadApplied, AtStage
  <1>5. CASE ReadApplied(p) /\ ~FileOf(p).damaged
    <2>1. opener[p].stage = "connected" /\ opener[p].file \in Files
      BY <1>0, <1>5, OpenerFields DEF ReadApplied, AtStage
    <2> PICK row : row = [stage |-> "migrating", attempt |-> opener[p].attempt,
                          file |-> opener[p].file, at |-> 1, applied |-> FileOf(p).recorded]
      OBVIOUS
    <2>2. FileOf(p).recorded \subseteq Scripts
      BY <1>0, <2>1 DEF FileOf, FileRow
    <2>3. 1 \in 1..(LastScript + 1)
      BY MigrationFacts
    <2>4. /\ row \in Opener /\ row.stage = "migrating" /\ row.file = opener[p].file
          /\ row.at = 1 /\ row.applied = FileOf(p).recorded
      BY <1>0, <2>1, <2>2, <2>3 DEF Opener, InProgress
    <2>5. \A i \in 1..LastScript : ~(i < 1)
      OBVIOUS
    <2>6. ConnInv(row, disk)
      BY <2>4, <2>5 DEF ConnInv, FileOf
    <2>7. /\ opener' = [opener EXCEPT ![p] = row] /\ disk' = disk /\ written' = written
          /\ path' = path /\ WalLeft
      BY <1>5, SameWal DEF ReadApplied, SetOpener
    <2> QED
      BY <1>0, <2>4, <2>6, <2>7, OpenerMoves
  <1> QED
    BY <1>1, <1>2, <1>3, <1>4, <1>5

LEMMA SkipInv ==
    ASSUME DiskInv, NEW p \in Processes, SkipApplied(p)
    PROVE  DiskInv'
  <1> DEFINE old == opener[p]
  <1>1. /\ old \in Opener /\ ConnInv(old, disk) /\ old.stage = "migrating"
        /\ path \in Files \union {Nothing}
        /\ old.at <= Len(Migrations) /\ Migrations[old.at] \in old.applied
    BY DEF DiskInv, DiskTypeOK, SkipApplied, Migrating, AtStage, Script
  <1>2. old \in InProgress
    BY <1>1, OpenerFields
  <1>3. old.at \in 1..LastScript /\ old.at + 1 \in 1..(LastScript + 1)
    BY <1>1, <1>2, MigrationFacts DEF InProgress, LastScript
  <1> PICK row : row = [old EXCEPT !.at = old.at + 1]
    OBVIOUS
  <1>4. /\ row \in InProgress /\ row.stage = "migrating" /\ row.file = old.file
        /\ row.at = old.at + 1 /\ row.applied = old.applied
    BY <1>1, <1>2, <1>3 DEF InProgress
  <1>5. \A i \in 1..LastScript : i < old.at + 1 => i < old.at \/ i = old.at
    BY <1>3
  <1>6. ConnInv(row, disk)
    BY <1>1, <1>4, <1>5 DEF ConnInv
  <1>7. /\ opener' = [opener EXCEPT ![p] = row] /\ disk' = disk /\ written' = written
        /\ path' = path /\ WalLeft
    BY SameWal DEF SkipApplied, SetOpener
  <1>8. row \in Opener
    BY <1>4 DEF Opener
  <1> QED
    BY <1>1, <1>6, <1>7, <1>8, OpenerMoves

\* What the bookkeeping of a script's progress does to its file.
LEMMA SetRanGrows ==
    ASSUME DiskInv, NEW p \in Processes, NEW progress \in {"partly", "wholly"},
           opener[p].file \in Files, Script(p) \in Scripts, SetRan(p, progress),
           progress = "partly" => FileOf(p).ran[Script(p)] # "partly"
    PROVE  /\ disk' \in [Files -> FileRow]
           /\ \A f \in Files : Grew(disk[f], disk'[f]) /\ RecordedSound(disk'[f])
           /\ disk'[opener[p].file].ran[Script(p)] = progress
           /\ disk'[opener[p].file].recorded = disk[opener[p].file].recorded
  <1> PICK f \in Files, m \in Scripts : f = opener[p].file /\ m = Script(p)
    OBVIOUS
  <1> PICK again : again = IF progress = "partly" /\ disk[f].ran[m] = "wholly" THEN {m} ELSE {}
    OBVIOUS
  <1> PICK new : new = [disk[f] EXCEPT !.ran = [disk[f].ran EXCEPT ![m] = progress],
                                       !.rerun = disk[f].rerun \union again]
    OBVIOUS
  <1>0. disk \in [Files -> FileRow] /\ disk[f] \in FileRow /\ RecordedSound(disk[f])
    BY DEF DiskInv, DiskTypeOK
  <1>1. disk' = [disk EXCEPT ![f] = new]
    <2>1. disk' = [disk EXCEPT ![f].ran[m] = progress,
                               ![f].rerun = IF progress = "partly" /\ disk[f].ran[m] = "wholly"
                                            THEN disk[f].rerun \union {m} ELSE disk[f].rerun]
      BY <1>0 DEF SetRan, FileOf, FileRow
    <2>2. (IF progress = "partly" /\ disk[f].ran[m] = "wholly"
           THEN disk[f].rerun \union {m} ELSE disk[f].rerun) = disk[f].rerun \union again
      OBVIOUS
    <2> QED
      BY <1>0, <2>1, <2>2 DEF FileRow
  <1>2. /\ new \in FileRow /\ new.recorded = disk[f].recorded /\ new.rows = disk[f].rows
        /\ new.ran[m] = progress /\ (\A o \in Scripts : o # m => new.ran[o] = disk[f].ran[o])
        /\ new.rerun = disk[f].rerun \union again
    <2>1. again \in SUBSET Scripts
      OBVIOUS
    <2> QED
      BY <1>0, <2>1 DEF FileRow
  <1>3. \A o \in Scripts : Sound(disk[f], o) => Sound(new, o)
    <2> SUFFICES ASSUME NEW o \in Scripts, Sound(disk[f], o) PROVE Sound(new, o)
      OBVIOUS
    <2>1. CASE o # m
      BY <1>2, <2>1 DEF Sound
    <2>2. CASE o = m
      BY <1>2, <2>2 DEF Sound, FileOf
    <2> QED
      BY <2>1, <2>2
  <1>4. Grew(disk[f], new) /\ RecordedSound(new)
    BY <1>0, <1>2, <1>3 DEF Grew, RecordedSound, FileRow
  <1>5. /\ disk' \in [Files -> FileRow] /\ disk'[f] = new
        /\ \A g \in Files : g # f => disk'[g] = disk[g]
    BY <1>0, <1>1, <1>2
  <1>6. \A g \in Files : Grew(disk[g], disk'[g]) /\ RecordedSound(disk'[g])
    BY <1>4, <1>5, SameGrows DEF DiskInv
  <1> QED
    BY <1>2, <1>5, <1>6

LEMMA ScriptInv ==
    ASSUME DiskInv, NEW p \in Processes, BeginScript(p) \/ EndScript(p)
    PROVE  DiskInv'
  <1> DEFINE old == opener[p]
  <1>0. /\ old \in Opener /\ ConnInv(old, disk) /\ path \in Files \union {Nothing}
        /\ old.stage \in {"migrating", "script"} /\ (EndScript(p) => old.stage = "script")
        /\ (BeginScript(p) => old.stage = "migrating" /\ old.at <= Len(Migrations))
    BY DEF DiskInv, DiskTypeOK, BeginScript, EndScript, Migrating, AtStage
  <1>1. old \in InProgress
    BY <1>0, OpenerFields
  <1>2. old.at \in 1..LastScript /\ Script(p) = Migrations[old.at] /\ Script(p) \in Scripts
    BY <1>0, <1>1, MigrationFacts DEF ConnInv, InProgress, LastScript, Script
  <1>3. CASE BeginScript(p) /\ Corrupted(p) /\ disk' = disk
    BY <1>0, <1>3, CorruptedInv DEF BeginScript
  <1>4. ASSUME NEW progress \in {"partly", "wholly"}, NEW stage \in {"script", "recording"},
               SetRan(p, progress), SetOpener(p, [opener[p] EXCEPT !.stage = stage]),
               path' = path, written' = written, UNCHANGED walVars,
               progress = "partly" => FileOf(p).ran[Script(p)] # "partly",
               stage = "recording" => progress = "wholly"
        PROVE  DiskInv'
    <2> PICK row : row = [old EXCEPT !.stage = stage]
      OBVIOUS
    <2>1. /\ row \in InProgress /\ row.stage = stage /\ row.file = old.file
          /\ row.at = old.at /\ row.applied = old.applied /\ old.file \in Files
      BY <1>1 DEF InProgress
    <2>2. opener' = [opener EXCEPT ![p] = row] /\ row \in Opener
      BY <1>4, <2>1 DEF SetOpener, Opener
    <2>3. /\ disk' \in [Files -> FileRow]
          /\ \A f \in Files : Grew(disk[f], disk'[f]) /\ RecordedSound(disk'[f])
          /\ disk'[old.file].ran[Script(p)] = progress
          /\ disk'[old.file].recorded = disk[old.file].recorded
      BY <1>2, <1>4, <2>1, SetRanGrows
    <2>4. stage = "recording" => Sound(disk'[old.file], Migrations[old.at])
      BY <1>2, <1>4, <2>3 DEF Sound
    <2>5. ConnInv(row, disk')
      BY <1>0, <1>2, <1>4, <2>1, <2>3, <2>4 DEF ConnInv
    <2> QED
      BY <1>0, <1>4, <2>2, <2>3, <2>5, SameWal, DiskMoves
  <1>5. CASE BeginScript(p) /\ ~(Corrupted(p) /\ disk' = disk)
    <2>1. /\ SetRan(p, "partly") /\ SetOpener(p, [opener[p] EXCEPT !.stage = "script"])
          /\ path' = path /\ written' = written /\ UNCHANGED walVars
          /\ FileOf(p).ran[Script(p)] # "partly"
      BY <1>5 DEF BeginScript
    <2> QED
      BY <1>4, <2>1
  <1>6. CASE EndScript(p)
    BY <1>4, <1>6 DEF EndScript
  <1> QED
    BY <1>3, <1>5, <1>6

LEMMA RecordMigrationInv ==
    ASSUME DiskInv, NEW p \in Processes, RecordMigration(p)
    PROVE  DiskInv'
  <1> DEFINE old == opener[p]
  <1>0. /\ old \in Opener /\ ConnInv(old, disk) /\ path \in Files \union {Nothing}
        /\ old.stage = "recording" /\ disk \in [Files -> FileRow]
    BY DEF DiskInv, DiskTypeOK, RecordMigration, RecordableAt, AtStage
  <1>1. old \in InProgress
    BY <1>0, OpenerFields
  <1>2. /\ old.at \in 1..LastScript /\ Script(p) = Migrations[old.at] /\ Script(p) \in Scripts
        /\ Sound(disk[old.file], Script(p)) /\ old.file \in Files /\ old.at + 1 \in 1..(LastScript + 1)
    BY <1>0, <1>1, MigrationFacts DEF ConnInv, InProgress, Script
  <1>3. CASE Script(p) \in FileOf(p).recorded
    BY <1>0, <1>3, CorruptedInv DEF RecordMigration
  <1>4. CASE Script(p) \notin FileOf(p).recorded
    <2> PICK f \in Files, m \in Scripts : f = old.file /\ m = Script(p)
      BY <1>2
    <2> PICK new : new = [disk[f] EXCEPT !.recorded = disk[f].recorded \union {m}]
      OBVIOUS
    <2> PICK row : row = [old EXCEPT !.stage = "migrating", !.at = old.at + 1]
      OBVIOUS
    <2>1. disk' = [disk EXCEPT ![f] = new]
      BY <1>0, <1>4 DEF RecordMigration
    <2>2. opener' = [opener EXCEPT ![p] = row] /\ path' = path /\ written' = written /\ WalLeft
      BY <1>4, SameWal DEF RecordMigration, SetOpener
    <2>3. /\ new \in FileRow /\ new.recorded = disk[f].recorded \union {m} /\ new.rows = disk[f].rows
          /\ new.ran = disk[f].ran /\ new.rerun = disk[f].rerun
      BY <1>0 DEF FileRow
    <2>4. \A o \in Scripts : Sound(new, o) <=> Sound(disk[f], o)
      BY <2>3 DEF Sound
    <2>5. Grew(disk[f], new) /\ RecordedSound(new)
      <3>1. RecordedSound(disk[f]) /\ disk[f].recorded \subseteq Scripts
        BY <1>0 DEF DiskInv, FileRow
      <3> QED
        BY <1>2, <2>3, <2>4, <3>1 DEF Grew, RecordedSound
    <2>6. /\ disk' \in [Files -> FileRow] /\ disk'[f] = new
          /\ \A g \in Files : g # f => disk'[g] = disk[g]
      BY <1>0, <2>1, <2>3
    <2>7. \A g \in Files : Grew(disk[g], disk'[g]) /\ RecordedSound(disk'[g])
      BY <2>5, <2>6, SameGrows DEF DiskInv
    <2>8. /\ row \in InProgress /\ row.stage = "migrating" /\ row.file = old.file
          /\ row.at = old.at + 1 /\ row.applied = old.applied
      BY <1>1, <1>2 DEF InProgress
    <2>9. \A i \in 1..LastScript : i < old.at + 1 => i < old.at \/ i = old.at
      BY <1>2
    <2>10. ConnInv(row, disk')
      BY <1>0, <1>2, <2>3, <2>6, <2>8, <2>9 DEF ConnInv
    <2>11. row \in Opener
      BY <2>8 DEF Opener
    <2> QED
      BY <1>0, <2>2, <2>6, <2>7, <2>10, <2>11, DiskMoves
  <1> QED
    BY <1>3, <1>4

\* One file changes under connections that stay.
LEMMA FileMoves ==
    ASSUME DiskInv, NEW f \in Files, NEW new \in FileRow, disk' = [disk EXCEPT ![f] = new],
           Grew(disk[f], new), RecordedSound(new), opener' = opener, path' = path,
           written' = written, WalInv', unnamed' = unnamed,
           \A g \in Files : wal[g] \subseteq wal'[g] \union disk'[g].rows
    PROVE  DiskInv'
  <1>1. /\ disk' \in [Files -> FileRow] /\ disk'[f] = new
        /\ \A g \in Files : g # f => disk'[g] = disk[g]
    BY DEF DiskInv, DiskTypeOK
  <1>2. \A g \in Files : Grew(disk[g], disk'[g]) /\ RecordedSound(disk'[g])
    BY <1>1, SameGrows DEF DiskInv
  <1>3. \A q \in Processes : ConnInv(opener'[q], disk')
    BY <1>2, ConnGrows DEF DiskInv, DiskTypeOK
  <1>4. RowsKept'
    BY <1>1, <1>2 DEF DiskInv, RowsKept, Grew
  <1> QED
    BY <1>1, <1>2, <1>3, <1>4 DEF DiskInv, DiskTypeOK

LEMMA DamageInv ==
    ASSUME DiskInv, Damage
    PROVE  DiskInv'
  <1>0. disk \in [Files -> FileRow] /\ (\A f \in Files : RecordedSound(disk[f])) /\ WalInv
    BY DEF DiskInv, DiskTypeOK
  <1> PICK new : new = [disk[path] EXCEPT !.damaged = TRUE]
    OBVIOUS
  <1>1. path \in Files /\ disk' = [disk EXCEPT ![path] = new]
    BY <1>0 DEF Damage, DiskInv, DiskTypeOK
  <1>2. /\ new \in FileRow /\ new.recorded = disk[path].recorded /\ new.rows = disk[path].rows
        /\ new.ran = disk[path].ran /\ new.rerun = disk[path].rerun
    BY <1>0, <1>1 DEF FileRow
  <1>3. Grew(disk[path], new) /\ RecordedSound(new)
    BY <1>0, <1>1, <1>2 DEF Grew, RecordedSound, Sound
  <1>4. UNCHANGED <<wal, unlinked, unnamed>>
    BY DEF Damage, walVars
  <1>5. WalInv'
    BY <1>0, <1>4 DEF WalInv
  <1> QED
    BY <1>1, <1>2, <1>3, <1>4, <1>5, FileMoves DEF Damage

LEMMA CheckpointInv ==
    ASSUME DiskInv, NEW p \in Processes, WalCheckpoint(p)
    PROVE  DiskInv'
  <1> PICK f : f = opener[p].file
    OBVIOUS
  <1>0. /\ disk \in [Files -> FileRow] /\ (\A g \in Files : RecordedSound(disk[g])) /\ WalInv
        /\ f \in Files
    BY OpenerFields DEF DiskInv, DiskTypeOK, WalCheckpoint
  <1> PICK new : new = [disk[f] EXCEPT !.rows = disk[f].rows \union wal[f]]
    OBVIOUS
  <1>1. disk' = [disk EXCEPT ![f] = new] /\ wal' = [wal EXCEPT ![f] = {}]
    BY <1>0 DEF WalCheckpoint
  <1>2. /\ new \in FileRow /\ new.recorded = disk[f].recorded /\ new.rows = disk[f].rows \union wal[f]
        /\ new.ran = disk[f].ran /\ new.rerun = disk[f].rerun
    BY <1>0 DEF FileRow, WalInv
  <1>3. Grew(disk[f], new) /\ RecordedSound(new)
    BY <1>0, <1>2 DEF Grew, RecordedSound, Sound
  <1>4. WalInv'
    BY <1>0, <1>1 DEF WalInv, WalCheckpoint
  <1>5. \A g \in Files : wal[g] \subseteq wal'[g] \union disk'[g].rows
    BY <1>0, <1>1, <1>2 DEF WalInv
  <1> QED
    BY <1>0, <1>1, <1>2, <1>3, <1>4, <1>5, FileMoves DEF WalCheckpoint

LEMMA WriteRowInv ==
    ASSUME DiskInv, NEW row \in Rows, WriteRow(row)
    PROVE  DiskInv'
  <1> PICK f : f = opener["daemon"].file
    OBVIOUS
  <1>0. WalInv /\ RowsKept /\ f \in Files
    BY OpenerFields DEF WriteRow, AtStage, DiskInv, DiskTypeOK, Processes
  <1>1. /\ wal' = [wal EXCEPT ![f] = wal[f] \union {row}] /\ UNCHANGED <<disk, unlinked, path, opener>>
        /\ unnamed' = IF f \in unlinked THEN unnamed \union {row} ELSE unnamed
        /\ written' = written \union {row}
    BY <1>0 DEF WriteRow, WalInv
  <1>2. /\ wal' \in [Files -> SUBSET Rows] /\ wal'[f] = wal[f] \union {row}
        /\ \A g \in Files : g # f => wal'[g] = wal[g]
    BY <1>0, <1>1 DEF WalInv
  <1>3. WalInv'
    BY <1>0, <1>1, <1>2 DEF WalInv
  <1>4. RowsKept'
    BY <1>0, <1>1, <1>2 DEF RowsKept
  <1> QED
    BY <1>1, <1>3, <1>4 DEF DiskInv, DiskTypeOK

LEMMA QuarantineInv ==
    ASSUME DiskInv, Quarantine
    PROVE  DiskInv'
  <1> PICK f : f = opener["daemon"].file
    OBVIOUS
  <1>0. WalInv /\ f \in Files /\ "daemon" \in Processes
    BY OpenerFields DEF Quarantine, AtStage, DiskInv, DiskTypeOK, Processes
  <1>1. /\ unlinked' = unlinked \union {f} /\ unnamed' = unnamed \union wal[f]
        /\ wal' = wal \/ wal' = [wal EXCEPT ![f] = {}]
    BY DEF Quarantine
  <1>2. WalLeft
    BY <1>0, <1>1 DEF WalInv, WalLeft
  <1> QED
    BY <1>0, <1>2, ClosedRow, OpenerMoves DEF Quarantine, SetOpener

LEMMA DiskInitInv == DiskInit => DiskInv
  <1> SUFFICES ASSUME DiskInit PROVE DiskInv
    OBVIOUS
  <1>1. /\ Fresh \in FileRow /\ Fresh.recorded = {} /\ RecordedSound(Fresh)
    BY DEF Fresh, FileRow, RecordedSound
  <1> QED
    BY <1>1, ClosedRow DEF DiskInit, DiskInv, DiskTypeOK, WalInv, RowsKept

LEMMA DiskNextInv == DiskInv /\ [DiskNext]_diskVars => DiskInv'
  <1>2. ASSUME DiskInv, DiskNext PROVE DiskInv'
    BY <1>2, ConnectInv, SkipInv, ScriptInv, RecordMigrationInv, CheckpointInv, DamageInv,
       WriteRowInv, QuarantineInv DEF DiskNext
  <1>3. ASSUME DiskInv, UNCHANGED diskVars PROVE DiskInv'
    BY <1>3 DEF diskVars, walVars, DiskInv, DiskTypeOK, WalInv, RowsKept
  <1> QED
    BY <1>2, <1>3

LEMMA StoreInvMeans == DiskInv /\ HostedInv => StoreWholeRowsKept
  <1> SUFFICES ASSUME DiskInv, HostedInv PROVE StoreWholeRowsKept
    OBVIOUS
  <1>1. ASSUME NEW p \in Processes, AtStage(p, "open"), NEW m \in Scripts
        PROVE  /\ m \in FileOf(p).recorded
               /\ FileOf(p).ran[m] = "wholly" \/ m \in FileOf(p).rerun
    <2>1. opener[p].file \in Files /\ m \in disk[opener[p].file].recorded
      BY <1>1, OpenerFields DEF DiskInv, DiskTypeOK, ConnInv, AtStage
    <2> QED
      BY <2>1 DEF DiskInv, RecordedSound, Sound, FileOf
  <1>2. \A i, k \in DOMAIN Migrations :
           i < k /\ Migrations[k] \in hostedApplied => Migrations[i] \in hostedApplied
    BY MigrationFacts DEF HostedInv, LeadsUp
  <1> QED
    BY <1>1, <1>2 DEF StoreWholeRowsKept, DiskInv, RowsKept

\* A local store that opened is whole and keeps its rows, and the hosted database has a
\* first part of the scripts, for every list of scripts, every number of files and every
\* interleaving of two openings and of two deployments.
THEOREM StoresStayWhole == StoreSpec => []StoreWholeRowsKept
  <1>1. DiskInit /\ HostedInit => DiskInv /\ HostedInv
    BY DiskInitInv, HostedInitInv
  <1>2. DiskInv /\ HostedInv /\ [ \/ DiskNext /\ UNCHANGED hostedVars
                                  \/ HostedNext /\ UNCHANGED diskVars ]_<<diskVars, hostedVars>>
          => (DiskInv /\ HostedInv)'
    BY DiskNextInv, HostedNextInv
  <1> QED
    BY <1>1, <1>2, StoreInvMeans, PTL DEF StoreSpec

-----------------------------------------------------------------------------
(* The local onboarding server.                                            *)

HasSecret == {"has_secret", "writing", "orphaned", "binding", "serving", "stopping"}
Underway == {"made_secret"} \union HasSecret
Listed == {"binding", "serving", "stopping"}
StartRow == {Off, Ended} \union [stage : Underway, store : SecretStores, secret : Nat]
History == [shadowed : SUBSET Starters, left : SUBSET Starters, used : SUBSET SecretStores,
            lost : BOOLEAN]
Counters == [secrets : Nat, sessions : Nat]

LsTypeOK ==
    /\ lsStart \in [Starters -> StartRow]
    /\ lsStored \in [SecretStores -> Nat \union {Nobody}]
    /\ lsPidFile \in Starters \union {Nobody, Torn}
    /\ lsMade \in Counters /\ lsHistory \in History

\* A start past its pid file is the one the file names unless it lost the file, and an
\* ended start that the file or a stop names left its pid behind.
PidFileKept ==
    \A s \in Starters :
        /\ Stage(s) \in Listed => s \in lsHistory.shadowed \/ lsPidFile = s
        /\ Stage(s) = "ended" /\ s \in {lsPidFile, lsStopper} => s \in lsHistory.left

\* A secret that a start or the browser's cookie has is the one in that store.
StoredIn(b, secret) == lsStored[b] # Nobody /\ secret = lsStored[b]

\* As long as no stored secret was lost and starts found one store, every start and
\* the browser's cookie have the secret in it.
OneSecret ==
    /\ \A s \in Starters : Stage(s) \in Underway => lsStart[s].store \in lsHistory.used
    /\ ~lsHistory.lost /\ (\A b, c \in lsHistory.used : b = c) =>
          /\ \A s \in Starters : Stage(s) \in HasSecret =>
                 StoredIn(lsStart[s].store, lsStart[s].secret)
          /\ lsJar # Nobody => \E b \in lsHistory.used : StoredIn(b, lsJar.secret)

LsInv == LsTypeOK /\ PidFileKept /\ OneSecret /\ ServiceAsTold

LEMMA StartRowFields ==
    ASSUME LsTypeOK, NEW s \in Starters
    PROVE  /\ lsStart[s] \in StartRow /\ Stage(s) \in {"off", "ended"} \union Underway
           /\ Stage(s) \in Underway => lsStart[s].store \in SecretStores /\ lsStart[s].secret \in Nat
  BY DEF LsTypeOK, StartRow, Stage, Off, Ended, Underway, HasSecret

LEMMA LsInitInv == LsInit => LsInv
  <1> SUFFICES ASSUME LsInit PROVE LsInv
    OBVIOUS
  <1>1. LsTypeOK
    BY DEF LsInit, LsTypeOK, StartRow, History, Counters
  <1>2. \A s \in Starters : Stage(s) = "off" /\ lsPidFile # s
    BY LocalServiceAssumption DEF LsInit, Stage, Off
  <1>3. PidFileKept
    BY <1>2 DEF PidFileKept, Listed
  <1>4. OneSecret
    BY <1>2 DEF OneSecret, HasSecret, Underway, LsInit
  <1>5. ServiceAsTold
    BY DEF LsInit, ServiceAsTold, NoAnswer
  <1> QED
    BY <1>1, <1>3, <1>4, <1>5 DEF LsInv

LEMMA SilentTold ==
    ASSUME Silent
    PROVE  ServiceAsTold'
  BY DEF Silent, Tell, NoAnswer, ServiceAsTold

\* One starter moves.
LEMMA StarterMoves ==
    ASSUME LsTypeOK, NEW s \in Starters, NEW row \in StartRow, lsStart' = [lsStart EXCEPT ![s] = row]
    PROVE  /\ lsStart' \in [Starters -> StartRow] /\ lsStart'[s] = row /\ Stage(s)' = row.stage
           /\ \A q \in Starters : q # s => lsStart'[q] = lsStart[q] /\ Stage(q)' = Stage(q)
  BY DEF LsTypeOK, Stage

LEMMA RecordRow ==
    ASSUME NEW stage \in Underway, NEW store \in SecretStores, NEW secret \in Nat
    PROVE  /\ StartRecord(stage, store, secret) \in StartRow
           /\ StartRecord(stage, store, secret).stage = stage
           /\ StartRecord(stage, store, secret).store = store
           /\ StartRecord(stage, store, secret).secret = secret
  BY DEF StartRecord, StartRow

LEMMA ReachMoves ==
    ASSUME LsTypeOK, NEW s \in Starters, Stage(s) \in Underway, NEW stage \in Underway, Reach(s, stage)
    PROVE  /\ lsStart' \in [Starters -> StartRow] /\ Stage(s)' = stage
           /\ lsStart'[s].store = lsStart[s].store /\ lsStart'[s].secret = lsStart[s].secret
           /\ \A q \in Starters : q # s => lsStart'[q] = lsStart[q] /\ Stage(q)' = Stage(q)
  <1> DEFINE row == StartRecord(stage, lsStart[s].store, lsStart[s].secret)
  <1>1. /\ row \in StartRow /\ row.stage = stage /\ row.store = lsStart[s].store
        /\ row.secret = lsStart[s].secret
    BY StartRowFields, RecordRow
  <1>2. lsStart' = [lsStart EXCEPT ![s] = row]
    BY DEF Reach
  <1> HIDE DEF row
  <1> QED
    BY <1>1, <1>2, StarterMoves

LEMMA EndedRow == Ended \in StartRow /\ Ended.stage = "ended"
  BY DEF StartRow, Ended

\* Starts that go on with the secret they have, or end, keep the invariant on secrets.
LEMMA SecretsStay ==
    ASSUME OneSecret, UNCHANGED <<lsStored, lsJar>>,
           lsHistory'.used = lsHistory.used, lsHistory'.lost = lsHistory.lost,
           \A q \in Starters :
              /\ Stage(q)' \in Underway => Stage(q) \in Underway /\ lsStart'[q].store = lsStart[q].store
              /\ Stage(q)' \in HasSecret =>
                    Stage(q) \in HasSecret /\ lsStart'[q].secret = lsStart[q].secret
    PROVE  OneSecret'
  <1>1. \A q \in Starters : Stage(q)' \in Underway => lsStart'[q].store \in lsHistory'.used
    BY DEF OneSecret
  <1>2. ASSUME ~lsHistory'.lost, \A b, c \in lsHistory'.used : b = c, NEW q \in Starters,
               Stage(q)' \in HasSecret
        PROVE  StoredIn(lsStart[q].store, lsStart[q].secret)'
    <2>1. StoredIn(lsStart[q].store, lsStart[q].secret)
      BY <1>2 DEF OneSecret
    <2>2. lsStart'[q].store = lsStart[q].store /\ lsStart'[q].secret = lsStart[q].secret
      BY <1>2 DEF Underway
    <2> QED
      BY <2>1, <2>2 DEF StoredIn
  <1>3. ASSUME ~lsHistory'.lost, \A b, c \in lsHistory'.used : b = c, lsJar' # Nobody
        PROVE  \E b \in lsHistory'.used : StoredIn(b, lsJar.secret)'
    BY <1>3 DEF OneSecret, StoredIn
  <1> QED
    BY <1>1, <1>2, <1>3 DEF OneSecret

LEMMA ReadSecretInv ==
    ASSUME LsInv, NEW s \in Starters, NEW store \in SecretStores, ReadSecret(s, store)
    PROVE  LsInv'
  <1>0. LsTypeOK /\ PidFileKept /\ OneSecret
    BY DEF LsInv
  <1>1. /\ UNCHANGED <<lsStored, lsPidFile, lsStopper, lsJar>> /\ Stage(s) = "off" /\ Silent
    BY DEF ReadSecret, lsPage
  <1>2. PICK row \in StartRow :
           /\ lsStart' = [lsStart EXCEPT ![s] = row] /\ row.store = store
           /\ row.stage = "made_secret" \/ (row.stage = "has_secret" /\ StoredIn(store, row.secret))
    <2>1. CASE lsStored[store] # Nobody
      <3> DEFINE row == StartRecord("has_secret", store, lsStored[store])
      <3>1. lsStored[store] \in Nat
        BY <1>0, <2>1 DEF LsTypeOK
      <3>2. row \in StartRow /\ row.stage = "has_secret" /\ row.store = store /\ row.secret = lsStored[store]
        BY <3>1, RecordRow DEF Underway, HasSecret
      <3>3. lsStart' = [lsStart EXCEPT ![s] = row]
        BY <2>1 DEF ReadSecret
      <3> HIDE DEF row
      <3> QED
        BY <2>1, <3>2, <3>3 DEF StoredIn
    <2>2. CASE lsStored[store] = Nobody
      <3> DEFINE row == StartRecord("made_secret", store, lsMade.secrets + 1)
      <3>1. lsMade.secrets + 1 \in Nat
        BY <1>0 DEF LsTypeOK, Counters
      <3>2. row \in StartRow /\ row.stage = "made_secret" /\ row.store = store
        BY <3>1, RecordRow DEF Underway
      <3>3. lsStart' = [lsStart EXCEPT ![s] = row]
        BY <2>2 DEF ReadSecret
      <3> HIDE DEF row
      <3> QED
        BY <3>2, <3>3
    <2> QED
      BY <2>1, <2>2
  <1>3. lsMade' \in Counters
    BY <1>0 DEF ReadSecret, LsTypeOK, Counters
  <1>4. /\ lsHistory' \in History /\ lsHistory'.used = lsHistory.used \cup {store}
        /\ lsHistory'.lost = lsHistory.lost /\ lsHistory'.left = lsHistory.left
        /\ lsHistory'.shadowed = lsHistory.shadowed
    BY <1>0 DEF ReadSecret, LsTypeOK, History
  <1>5. /\ lsStart' \in [Starters -> StartRow] /\ lsStart'[s] = row /\ Stage(s)' = row.stage
        /\ \A q \in Starters : q # s => lsStart'[q] = lsStart[q] /\ Stage(q)' = Stage(q)
    BY <1>0, <1>2, StarterMoves
  <1>6. LsTypeOK'
    BY <1>0, <1>1, <1>3, <1>4, <1>5 DEF LsTypeOK
  <1>7. PidFileKept'
    BY <1>0, <1>1, <1>2, <1>4, <1>5 DEF PidFileKept, Listed
  <1>8. OneSecret'
    <2>1. \A q \in Starters : Stage(q)' \in Underway => lsStart'[q].store \in lsHistory'.used
      BY <1>0, <1>2, <1>4, <1>5 DEF OneSecret
    <2>2. ASSUME ~lsHistory'.lost, \A b, c \in lsHistory'.used : b = c
          PROVE  /\ \A q \in Starters : Stage(q) \in HasSecret =>
                        StoredIn(lsStart[q].store, lsStart[q].secret)
                 /\ lsJar # Nobody => \E b \in lsHistory.used : StoredIn(b, lsJar.secret)
      BY <1>0, <1>4, <2>2 DEF OneSecret
    <2>3. ASSUME ~lsHistory'.lost, \A b, c \in lsHistory'.used : b = c, NEW q \in Starters,
                 Stage(q)' \in HasSecret
          PROVE  StoredIn(lsStart[q].store, lsStart[q].secret)'
      <3>1. CASE q = s
        BY <1>1, <1>2, <1>5, <2>3, <3>1 DEF StoredIn, HasSecret
      <3>2. CASE q # s
        BY <1>1, <1>5, <2>2, <2>3, <3>2 DEF StoredIn
      <3> QED
        BY <3>1, <3>2
    <2>4. ASSUME ~lsHistory'.lost, \A b, c \in lsHistory'.used : b = c, lsJar' # Nobody
          PROVE  \E b \in lsHistory'.used : StoredIn(b, lsJar.secret)'
      BY <1>1, <1>4, <2>2, <2>4 DEF StoredIn
    <2> QED
      BY <2>1, <2>3, <2>4 DEF OneSecret
  <1> QED
    BY <1>1, <1>6, <1>7, <1>8, SilentTold DEF LsInv

LEMMA StoreSecretInv ==
    ASSUME LsInv, NEW s \in Starters, StoreSecret(s)
    PROVE  LsInv'
  <1> DEFINE b == lsStart[s].store
  <1>0. LsTypeOK /\ PidFileKept /\ OneSecret
    BY DEF LsInv
  <1>1. /\ UNCHANGED <<lsPidFile, lsStopper, lsJar, lsMade>> /\ Stage(s) = "made_secret" /\ Silent
        /\ lsStored' = [lsStored EXCEPT ![b] = lsStart[s].secret]
    BY DEF StoreSecret, lsPage
  <1>2. b \in SecretStores /\ lsStart[s].secret \in Nat /\ b \in lsHistory.used
    BY <1>0, <1>1, StartRowFields DEF OneSecret, Underway
  <1>3. /\ lsHistory' \in History /\ lsHistory'.used = lsHistory.used
        /\ lsHistory'.left = lsHistory.left /\ lsHistory'.shadowed = lsHistory.shadowed
        /\ lsHistory'.lost <=> lsHistory.lost \/ lsStored[b] # Nobody
    BY <1>0 DEF StoreSecret, LsTypeOK, History
  <1>4. /\ lsStart' \in [Starters -> StartRow] /\ Stage(s)' = "has_secret"
        /\ lsStart'[s].store = b /\ lsStart'[s].secret = lsStart[s].secret
        /\ \A q \in Starters : q # s => lsStart'[q] = lsStart[q] /\ Stage(q)' = Stage(q)
    <2>1. Stage(s) \in Underway /\ "has_secret" \in Underway /\ Reach(s, "has_secret")
      BY <1>1 DEF Underway, HasSecret, StoreSecret
    <2> QED
      BY <1>0, <2>1, ReachMoves
  <1>5. LsTypeOK'
    BY <1>0, <1>1, <1>2, <1>3, <1>4 DEF LsTypeOK
  <1>6. PidFileKept'
    BY <1>0, <1>1, <1>3, <1>4 DEF PidFileKept, Listed
  <1>7. OneSecret'
    <2>1. \A q \in Starters : Stage(q)' \in Underway => lsStart'[q].store \in lsHistory'.used
      BY <1>0, <1>2, <1>3, <1>4 DEF OneSecret
    <2>2. ASSUME ~lsHistory'.lost, \A c, d \in lsHistory'.used : c = d
          PROVE  lsJar = Nobody /\ \A q \in Starters : Stage(q) \notin HasSecret
      <3>1. lsStored[b] = Nobody /\ \A c \in lsHistory.used : lsStored[c] = Nobody
        BY <1>2, <1>3, <2>2
      <3> QED
        BY <1>0, <1>3, <2>2, <3>1 DEF OneSecret, StoredIn, Underway
    <2>3. StoredIn(lsStart[s].store, lsStart[s].secret)'
      BY <1>0, <1>1, <1>2, <1>4, LocalServiceAssumption DEF StoredIn, LsTypeOK
    <2> QED
      BY <1>1, <1>4, <2>1, <2>2, <2>3 DEF OneSecret
  <1> QED
    BY <1>1, <1>5, <1>6, <1>7, SilentTold DEF LsInv

LEMMA PidInv ==
    ASSUME LsInv, NEW s \in Starters, OpenPid(s) \/ WritePid(s)
    PROVE  LsInv'
  <1>0. LsTypeOK /\ PidFileKept /\ OneSecret
    BY DEF LsInv
  <1>1. /\ UNCHANGED <<lsStored, lsStopper, lsJar, lsMade>> /\ Silent
        /\ lsPidFile' \in {Torn, s, lsPidFile}
    BY DEF OpenPid, WritePid, lsPage
  <1>2. /\ lsHistory' \in History /\ lsHistory'.used = lsHistory.used
        /\ lsHistory'.lost = lsHistory.lost /\ lsHistory'.left = lsHistory.left
    <2>1. Shadowed(s) \in SUBSET Starters /\ lsHistory.shadowed \cup {s} \in SUBSET Starters
      BY <1>0 DEF Shadowed, LsTypeOK, History
    <2> QED
      BY <1>0, <2>1 DEF OpenPid, WritePid, LsTypeOK, History
  <1>3. /\ \/ lsPidFile' = lsPidFile \/ lsHistory'.shadowed = Shadowed(s)
        /\ lsHistory.shadowed \subseteq lsHistory'.shadowed
        /\ WritePid(s) => lsPidFile' = s \/ s \in lsHistory'.shadowed
    BY <1>0 DEF OpenPid, WritePid, LsTypeOK, History, Shadowed
  <1>4. /\ lsStart' \in [Starters -> StartRow] /\ Stage(s) \in HasSecret
        /\ Stage(s)' \in HasSecret /\ (Stage(s)' \in Listed => WritePid(s)) /\ Stage(s)' # "ended"
        /\ lsStart'[s].store = lsStart[s].store /\ lsStart'[s].secret = lsStart[s].secret
        /\ \A q \in Starters : q # s => lsStart'[q] = lsStart[q] /\ Stage(q)' = Stage(q)
    <2>1. CASE OpenPid(s)
      <3>1. Stage(s) = "has_secret" /\ Reach(s, "writing")
        BY <2>1 DEF OpenPid
      <3>2. Stage(s) \in Underway /\ Stage(s) \in HasSecret /\ "writing" \in Underway
        BY <3>1 DEF Underway, HasSecret
      <3> QED
        BY <1>0, <3>1, <3>2, ReachMoves DEF HasSecret, Listed
    <2>2. CASE WritePid(s)
      <3>1. Stage(s) \in {"writing", "orphaned"} /\ Reach(s, "binding")
        BY <2>2 DEF WritePid
      <3>2. Stage(s) \in Underway /\ Stage(s) \in HasSecret /\ "binding" \in Underway
        BY <3>1 DEF Underway, HasSecret
      <3> QED
        BY <1>0, <2>2, <3>1, <3>2, ReachMoves DEF HasSecret
    <2> QED
      BY <2>1, <2>2
  <1>5. LsTypeOK'
    BY <1>0, <1>1, <1>2, <1>4 DEF LsTypeOK
  <1>6. PidFileKept'
    <2>1. ASSUME NEW q \in Starters, q # s, Stage(q)' \in Listed
          PROVE  q \in lsHistory'.shadowed \/ lsPidFile' = q
      BY <1>0, <1>3, <1>4, <2>1, LocalServiceAssumption DEF PidFileKept, Shadowed
    <2>2. ASSUME NEW q \in Starters, q # s, Stage(q)' = "ended", q \in {lsPidFile', lsStopper'}
          PROVE  q \in lsHistory'.left
      BY <1>0, <1>1, <1>2, <1>4, <2>2, LocalServiceAssumption DEF PidFileKept
    <2> QED
      BY <1>3, <1>4, <2>1, <2>2 DEF PidFileKept
  <1>7. OneSecret'
    BY <1>0, <1>1, <1>2, <1>4, SecretsStay DEF Underway
  <1> QED
    BY <1>1, <1>5, <1>6, <1>7, SilentTold DEF LsInv

\* The file goes, whoever's it is; s is the start that ends, or nobody.
LEMMA UnlinkInv ==
    ASSUME LsInv, NEW s \in Starters \union {Nobody}, Unlink(s), UNCHANGED <<lsStored, lsJar, lsMade>>,
           lsStopper' \in {lsStopper, Nobody}, s = Nobody => lsStopper # Nobody
    PROVE  LsTypeOK' /\ PidFileKept' /\ OneSecret'
  <1>0. LsTypeOK /\ PidFileKept /\ OneSecret
    BY DEF LsInv
  <1>1. lsPidFile' = Nobody
    BY DEF Unlink
  <1>2. /\ lsHistory' \in History /\ lsHistory'.used = lsHistory.used
        /\ lsHistory'.lost = lsHistory.lost /\ lsHistory.left \subseteq lsHistory'.left
        /\ lsHistory'.shadowed = Shadowed(s) /\ (s \in Starters /\ s = lsStopper => s \in lsHistory'.left)
    <2>1. Shadowed(s) \in SUBSET Starters
      BY <1>0 DEF Shadowed, LsTypeOK, History
    <2>2. lsHistory.left \cup ({s} \cap {lsStopper}) \in SUBSET Starters
      BY <1>0 DEF LsTypeOK, History
    <2> QED
      BY <1>0, <2>1, <2>2 DEF Unlink, LsTypeOK, History
  <1>3. ASSUME NEW q \in Starters
        PROVE  \/ q = s /\ lsStart'[q] = Ended /\ Stage(q)' = "ended"
               \/ lsStart'[q] = lsStart[q] /\ Stage(q)' = Stage(q) /\ q # s
               \/ /\ Stage(q) = "writing" /\ Stage(q)' = "orphaned" /\ lsStart'[q] \in StartRow /\ q # s
                  /\ lsStart'[q].store = lsStart[q].store /\ lsStart'[q].secret = lsStart[q].secret
    <2> DEFINE row == StartRecord("orphaned", lsStart[q].store, lsStart[q].secret)
    <2>1. lsStart'[q] = IF q = s THEN Ended ELSE IF Stage(q) = "writing" THEN row ELSE lsStart[q]
      BY DEF Unlink
    <2>2. Stage(q) = "writing" =>
            /\ row \in StartRow /\ row.stage = "orphaned" /\ row.store = lsStart[q].store
            /\ row.secret = lsStart[q].secret
      BY <1>0, StartRowFields, RecordRow DEF Underway, HasSecret
    <2> HIDE DEF row
    <2> QED
      BY <2>1, <2>2, EndedRow DEF Stage
  <1>4. lsStart' \in [Starters -> StartRow]
    <2>1. \A q \in Starters : lsStart'[q] \in StartRow
      BY <1>0, <1>3, EndedRow, StartRowFields
    <2>2. lsStart' = [q \in Starters |-> lsStart'[q]]
      BY DEF Unlink
    <2> QED
      BY <2>1, <2>2
  <1>5. LsTypeOK'
    BY <1>0, <1>1, <1>2, <1>4 DEF LsTypeOK
  <1>6. PidFileKept'
    <2>1. ASSUME NEW q \in Starters, Stage(q)' \in Listed PROVE q \in lsHistory'.shadowed
      BY <1>0, <1>2, <1>3, <2>1, LocalServiceAssumption DEF PidFileKept, Shadowed, Listed
    <2>2. ASSUME NEW q \in Starters, Stage(q)' = "ended", q \in {lsPidFile', lsStopper'}
          PROVE  q \in lsHistory'.left
      BY <1>0, <1>1, <1>2, <1>3, <2>2, LocalServiceAssumption DEF PidFileKept
    <2> QED
      BY <2>1, <2>2 DEF PidFileKept
  <1>7. OneSecret'
    BY <1>0, <1>2, <1>3, SecretsStay DEF Underway, HasSecret
  <1> QED
    BY <1>5, <1>6, <1>7

\* A start ends without its finally clause, where the file stays.
LEMMA DiesInv ==
    ASSUME LsInv, NEW s \in Starters, Dies(s), UNCHANGED <<lsStored, lsPidFile, lsJar, lsMade>>,
           lsStopper' \in {lsStopper, Nobody}
    PROVE  LsTypeOK' /\ PidFileKept' /\ OneSecret'
  <1>0. LsTypeOK /\ PidFileKept /\ OneSecret
    BY DEF LsInv
  <1>1. /\ lsStart' \in [Starters -> StartRow] /\ lsStart'[s] = Ended /\ Stage(s)' = "ended"
        /\ \A q \in Starters : q # s => lsStart'[q] = lsStart[q] /\ Stage(q)' = Stage(q)
    BY <1>0, EndedRow, StarterMoves DEF Dies
  <1>2. /\ lsHistory' \in History /\ lsHistory'.used = lsHistory.used
        /\ lsHistory'.lost = lsHistory.lost /\ lsHistory'.shadowed = lsHistory.shadowed
        /\ lsHistory'.left = lsHistory.left \cup ({s} \cap {lsPidFile, lsStopper})
    BY <1>0 DEF Dies, LsTypeOK, History
  <1>3. LsTypeOK'
    BY <1>0, <1>1, <1>2 DEF LsTypeOK
  <1>4. PidFileKept'
    BY <1>0, <1>1, <1>2, LocalServiceAssumption DEF PidFileKept, Listed
  <1>5. OneSecret'
    BY <1>0, <1>1, <1>2, SecretsStay DEF Underway, HasSecret
  <1> QED
    BY <1>3, <1>4, <1>5

\* A start that has written its pid goes on.
LEMMA GoesOnInv ==
    ASSUME LsInv, NEW s \in Starters, NEW stage \in Listed, Stage(s) \in Listed, Reach(s, stage),
           UNCHANGED <<lsStored, lsPidFile, lsJar, lsMade, lsHistory>>, lsStopper' \in {lsStopper, Nobody}
    PROVE  LsTypeOK' /\ PidFileKept' /\ OneSecret'
  <1>0. LsTypeOK /\ PidFileKept /\ OneSecret
    BY DEF LsInv
  <1>1. /\ lsStart' \in [Starters -> StartRow] /\ Stage(s)' = stage
        /\ lsStart'[s].store = lsStart[s].store /\ lsStart'[s].secret = lsStart[s].secret
        /\ \A q \in Starters : q # s => lsStart'[q] = lsStart[q] /\ Stage(q)' = Stage(q)
    <2>1. Stage(s) \in Underway /\ stage \in Underway
      BY DEF Listed, Underway, HasSecret
    <2> QED
      BY <1>0, <2>1, ReachMoves
  <1>2. LsTypeOK'
    BY <1>0, <1>1 DEF LsTypeOK
  <1>3. PidFileKept'
    BY <1>0, <1>1, LocalServiceAssumption DEF PidFileKept, Listed
  <1>4. OneSecret'
    BY <1>0, <1>1, SecretsStay DEF Underway, HasSecret, Listed
  <1> QED
    BY <1>2, <1>3, <1>4

LEMMA EndsInv ==
    ASSUME LsInv, NEW s \in Starters, Bind(s) \/ BindFails(s) \/ ServerEnds(s) \/ Killed(s)
    PROVE  LsInv'
  <1>1. Silent /\ UNCHANGED <<lsStored, lsJar, lsMade, lsStopper>>
    BY DEF Bind, BindFails, ServerEnds, Killed, lsPage
  <1>2. LsTypeOK' /\ PidFileKept' /\ OneSecret'
    <2>1. CASE Bind(s)
      BY <1>1, <2>1, GoesOnInv DEF Bind, Listed
    <2>2. CASE BindFails(s) \/ ServerEnds(s)
      BY <1>1, <2>2, UnlinkInv, LocalServiceAssumption DEF BindFails, ServerEnds
    <2>3. CASE Killed(s)
      BY <1>1, <2>3, DiesInv DEF Killed
    <2> QED
      BY <2>1, <2>2, <2>3
  <1> QED
    BY <1>1, <1>2, SilentTold DEF LsInv

\* Steps that leave the starts and the pid file alone.
LEMMA StartsStay ==
    ASSUME LsInv, UNCHANGED <<lsStart, lsStored, lsPidFile, lsHistory>>, lsMade' \in Counters,
           lsStopper' \in {lsStopper, lsPidFile, Nobody, "unlink"},
           lsJar' = lsJar \/ \E s \in Serving : lsJar'.secret = lsStart[s].secret
    PROVE  LsTypeOK' /\ PidFileKept' /\ OneSecret'
  <1>1. LsTypeOK'
    BY DEF LsInv, LsTypeOK
  <1>2. PidFileKept'
    BY LocalServiceAssumption DEF LsInv, PidFileKept, Stage
  <1>3. OneSecret'
    <2>1. \A s \in Starters : Stage(s)' = Stage(s)
      BY DEF Stage
    <2>2. CASE lsJar' = lsJar
      BY <2>1, <2>2, SecretsStay DEF LsInv, Underway
    <2>3. CASE \E s \in Serving : lsJar'.secret = lsStart[s].secret
      <3>1. PICK s \in Starters : Stage(s) = "serving" /\ lsJar'.secret = lsStart[s].secret
        BY <2>3 DEF Serving
      <3>2. lsStart[s].store \in lsHistory.used /\ Stage(s) \in HasSecret
        BY <3>1 DEF LsInv, OneSecret, Underway, HasSecret
      <3>3. ASSUME ~lsHistory.lost, \A b, c \in lsHistory.used : b = c
            PROVE  StoredIn(lsStart[s].store, lsJar.secret)'
        <4>1. StoredIn(lsStart[s].store, lsStart[s].secret)
          BY <3>2, <3>3 DEF LsInv, OneSecret
        <4> QED
          BY <3>1, <4>1 DEF StoredIn
      <3>4. ASSUME ~lsHistory.lost, \A b, c \in lsHistory.used : b = c, NEW q \in Starters,
                   Stage(q)' \in HasSecret
            PROVE  StoredIn(lsStart[q].store, lsStart[q].secret)'
        <4>1. StoredIn(lsStart[q].store, lsStart[q].secret)
          BY <2>1, <3>4 DEF LsInv, OneSecret
        <4> QED
          BY <4>1 DEF StoredIn
      <3> QED
        BY <2>1, <3>2, <3>3, <3>4 DEF LsInv, OneSecret
    <2> QED
      BY <2>2, <2>3
  <1> QED
    BY <1>1, <1>2, <1>3

LEMMA StopInv ==
    ASSUME LsInv, StopLocalService \/ StopUnlinks \/ \E fate \in {"start", "gone", "taken", "refused"} : StopKills(fate)
    PROVE  LsInv'
  <1>0. LsTypeOK /\ PidFileKept /\ lsMade \in Counters
    BY DEF LsInv, LsTypeOK
  <1>1. ASSUME NEW gone, NotRunning(gone), \A s \in Starters : Stage(s) = "serving" => s \in gone
        PROVE  ServiceAsTold'
    <2>1. Serving \ gone = {}
      BY <1>1 DEF Serving
    <2> QED
      BY <1>1, <2>1 DEF NotRunning, Tell, ServiceAsTold
  <1>2. CASE StopLocalService
    <2>1. /\ UNCHANGED <<lsStart, lsStored, lsPidFile, lsHistory, lsMade, lsJar>>
          /\ lsStopper' \in {lsStopper, lsPidFile, Nobody, "unlink"}
      BY <1>2 DEF StopLocalService, lsPage
    <2>2. ServiceAsTold'
      <3>1. CASE lsPidFile = Nobody
        <4>1. \A s \in Starters : Stage(s) = "serving" => s \in lsHistory.shadowed
          BY <1>0, <3>1, LocalServiceAssumption DEF PidFileKept, Listed
        <4> QED
          BY <1>1, <1>2, <3>1, <4>1 DEF StopLocalService
      <3>2. CASE lsPidFile # Nobody
        BY <1>2, <3>2, SilentTold DEF StopLocalService
      <3> QED
        BY <3>1, <3>2
    <2> QED
      BY <1>0, <2>1, <2>2, StartsStay DEF LsInv
  <1>3. CASE StopUnlinks
    <2>1. /\ UNCHANGED <<lsStored, lsJar, lsMade>> /\ lsStopper' = Nobody /\ Unlink(Nobody)
          /\ NotRunning(Shadowed(Nobody)) /\ lsStopper # Nobody
      BY <1>3, LocalServiceAssumption DEF StopUnlinks, lsPage
    <2>2. \A s \in Starters : Stage(s) = "serving" => s \in Shadowed(Nobody)
      BY <1>0, LocalServiceAssumption DEF PidFileKept, Listed, Shadowed
    <2> QED
      BY <1>1, <2>1, <2>2, UnlinkInv DEF LsInv
  <1>4. ASSUME NEW fate \in {"start", "gone", "taken", "refused"}, StopKills(fate) PROVE LsInv'
    <2>0. /\ UNCHANGED <<lsStored, lsPidFile, lsJar, lsMade>> /\ lsStopper \in Starters
      BY <1>4 DEF StopKills, lsPage
    <2>1. CASE Stage(lsStopper) # "ended"
      <3>1. /\ Signal(lsStopper) /\ lsAnswer' = [told |-> "stopped", left |-> TRUE]
            /\ lsStopper' = Nobody
        BY <1>4, <2>1 DEF StopKills, Tell
      <3>2. ServiceAsTold'
        BY <3>1 DEF ServiceAsTold
      <3>3. CASE Stage(lsStopper) \in {"serving", "stopping"}
        <4>1. Reach(lsStopper, "stopping") /\ lsHistory' = lsHistory
          BY <3>1, <3>3 DEF Signal
        <4> QED
          BY <2>0, <3>1, <3>2, <3>3, <4>1, GoesOnInv DEF LsInv, Listed
      <3>4. CASE Stage(lsStopper) \notin {"serving", "stopping"}
        <4>1. Dies(lsStopper)
          BY <3>1, <3>4 DEF Signal
        <4> QED
          BY <2>0, <3>1, <3>2, <4>1, DiesInv DEF LsInv
      <3> QED
        BY <3>3, <3>4
    <2>2. CASE Stage(lsStopper) = "ended"
      <3>1. /\ UNCHANGED <<lsStart, lsHistory>> /\ lsStopper' \in {Nobody, "unlink"}
            /\ \/ Silent
               \/ lsAnswer' = [told |-> "stopped", left |-> lsStopper \in lsHistory.left]
               \/ lsAnswer' = [told |-> "raised"]
        BY <1>4, <2>2 DEF StopKills, Tell
      <3>2. lsStopper \in lsHistory.left
        BY <1>0, <2>0, <2>2 DEF PidFileKept
      <3>3. ServiceAsTold'
        <4>1. CASE lsAnswer' = [told |-> "stopped", left |-> lsStopper \in lsHistory.left]
          <5>1. lsAnswer'.told = "stopped" /\ lsAnswer'.left
            BY <3>2, <4>1
          <5> QED
            BY <5>1 DEF ServiceAsTold
        <4>2. CASE lsAnswer' = [told |-> "raised"]
          BY <4>2 DEF ServiceAsTold
        <4> QED
          BY <3>1, <4>1, <4>2, SilentTold
      <3> QED
        BY <1>0, <2>0, <3>1, <3>3, StartsStay DEF LsInv
    <2> QED
      BY <2>1, <2>2
  <1> QED
    BY <1>2, <1>3, <1>4

LEMMA UninstallInv ==
    ASSUME LsInv, NEW store \in SecretStores, UninstallSecrets(store)
    PROVE  LsInv'
  <1>0. LsTypeOK /\ PidFileKept /\ OneSecret
    BY DEF LsInv
  <1>1. /\ UNCHANGED <<lsStart, lsPidFile, lsStopper, lsMade>> /\ Silent
        /\ lsStored' = [lsStored EXCEPT ![store] = Nobody]
    BY DEF UninstallSecrets
  <1>2. /\ lsHistory' \in History /\ lsHistory'.used = lsHistory.used /\ lsHistory'.lost = TRUE
        /\ lsHistory'.left = lsHistory.left /\ lsHistory'.shadowed = lsHistory.shadowed
    BY <1>0 DEF UninstallSecrets, LsTypeOK, History
  <1>3. LsTypeOK'
    BY <1>0, <1>1, <1>2 DEF LsTypeOK
  <1>4. PidFileKept'
    BY <1>0, <1>1, <1>2 DEF PidFileKept, Stage
  <1>5. OneSecret'
    BY <1>0, <1>1, <1>2 DEF OneSecret, Stage
  <1> QED
    BY <1>1, <1>3, <1>4, <1>5, SilentTold DEF LsInv

LEMMA PageInv ==
    ASSUME LsInv, PageStep
    PROVE  LsInv'
  <1>0. lsMade \in Counters
    BY DEF LsInv, LsTypeOK
  <1>1. PICK t \in Tabs :
          OpenSession(t) \/ StoreModelKey(t) \/ \E answered \in BOOLEAN : ExchangePairing(t, answered)
    BY DEF PageStep
  <1>2. CASE OpenSession(t)
    <2>1. PICK s \in Serving :
             /\ lsMade' = [lsMade EXCEPT !.sessions = @ + 1]
             /\ lsJar' = [token |-> lsMade.sessions + 1, secret |-> lsStart[s].secret]
             /\ Silent
             /\ UNCHANGED <<lsStart, lsStored, lsPidFile, lsStopper, lsHistory>>
      BY <1>2 DEF OpenSession
    <2>2. lsMade' \in Counters /\ lsJar'.secret = lsStart[s].secret
      BY <1>0, <2>1 DEF Counters
    <2> QED
      BY <2>1, <2>2, SilentTold, StartsStay DEF LsInv
  <1>3. CASE StoreModelKey(t) \/ \E answered \in BOOLEAN : ExchangePairing(t, answered)
    <2>1. PICK s \in Serving, what \in {"stored", "csrf", "denied", "exchanged", "error"} :
             /\ Told(t, s, what) /\ (what = "csrf" <=> ~CsrfOk(t, s)) /\ lsTab[t] # Nobody
             /\ UNCHANGED <<lsStart, lsStored, lsPidFile, lsStopper, lsHistory, lsJar, lsMade>>
      BY <1>3 DEF StoreModelKey, ExchangePairing
    <2>2. lsAnswer' = [told |-> what, newest |-> lsJar # Nobody /\ lsJar.token = lsTab[t]]
      BY <2>1 DEF Told, Tell
    <2>3. what # "csrf" => lsJar # Nobody /\ lsJar.token = lsTab[t]
      BY <2>1 DEF CsrfOk
    <2>4. ASSUME what = "csrf", lsJar # Nobody, lsJar.token = lsTab[t],
                 ~lsHistory.lost, \A b, c \in lsHistory.used : b = c
          PROVE  FALSE
      <3>1. s \in Starters /\ Stage(s) \in HasSecret /\ Stage(s) \in Underway
        BY DEF Serving, HasSecret, Underway
      <3>2. lsStart[s].store \in lsHistory.used /\ StoredIn(lsStart[s].store, lsStart[s].secret)
        BY <2>4, <3>1 DEF LsInv, OneSecret
      <3>3. PICK b \in lsHistory.used : StoredIn(b, lsJar.secret)
        BY <2>4 DEF LsInv, OneSecret
      <3>4. lsJar.secret = lsStart[s].secret
        BY <2>4, <3>2, <3>3 DEF StoredIn
      <3> QED
        BY <2>1, <2>4, <3>4 DEF CsrfOk
    <2>5. ServiceAsTold'
      BY <2>1, <2>2, <2>3, <2>4 DEF ServiceAsTold
    <2> QED
      BY <1>0, <2>1, <2>5, StartsStay DEF LsInv
  <1> QED
    BY <1>1, <1>2, <1>3

LEMMA LsNextInv == LsInv /\ [LsNext]_lsVars => LsInv'
  <1>1. ASSUME LsInv, LocalServiceStatus PROVE LsInv'
    <2>1. /\ UNCHANGED <<lsStart, lsStored, lsPidFile, lsStopper, lsHistory, lsMade, lsJar>>
          /\ lsAnswer'.told \in {"running", "status_not_running"}
      BY <1>1 DEF LocalServiceStatus, Tell, lsPage
    <2>2. ServiceAsTold'
      BY <2>1 DEF ServiceAsTold
    <2> QED
      BY <1>1, <2>1, <2>2, StartsStay DEF LsInv, LsTypeOK
  <1>2. ASSUME LsInv, UNCHANGED lsVars PROVE LsInv'
    <2>1. ServiceAsTold'
      BY <1>2 DEF lsVars, LsInv, ServiceAsTold
    <2> QED
      BY <1>2, <2>1, StartsStay DEF lsVars, LsInv, LsTypeOK
  <1>3. ASSUME LsInv, StartStep PROVE LsInv'
    BY <1>3, ReadSecretInv, StoreSecretInv, PidInv, EndsInv, UninstallInv DEF StartStep
  <1>4. ASSUME LsInv, StopStep PROVE LsInv'
    BY <1>1, <1>4, StopInv DEF StopStep
  <1> QED
    BY <1>2, <1>3, <1>4, PageInv DEF LsNext

\* What the local server's commands and pages are told is right for any number of
\* overlapping starts, kills, stops, uninstalls and pages.
THEOREM ServiceAlwaysAsTold == LsSpec => []ServiceAsTold
  <1>1. LsInv => ServiceAsTold
    BY DEF LsInv
  <1> QED
    BY <1>1, LsInitInv, LsNextInv, PTL DEF LsSpec

-----------------------------------------------------------------------------
(* The retrieval index.                                                    *)

\* What a generation holds is what its commit's tree is chunked to.
Chunkings == {ChunkTree(c) : c \in DOMAIN Trees}
Generation ==
    {r \in [commit : DOMAIN Trees, state : {"active", "retired"}, chunks : Chunkings] :
       r.chunks = ChunkTree(r.commit)}
RunRecord ==
    [stage : {"embedded", "building", "retired", "activated"}, commit : DOMAIN Trees,
     chunks : Chunkings, retires : SUBSET Nat]
IndexRun == {r \in RunRecord : r.chunks = ChunkTree(r.commit)}

\* One run at a time has an uncommitted activation, and until it commits no other
\* run can change the active generation that it retired.
ActivationIsAlone ==
    \A i \in Indexers : At(i, "activated") =>
        /\ Active \subseteq rxIndexers[i].retires
        /\ \A j \in Indexers : At(j, "activated") => i = j

RxInv ==
    /\ rxGenerations \in Seq(Generation)
    /\ rxIndexers \in [Indexers -> IndexRun \union {RxIdle}]
    /\ rxGenerations # <<>> => \E g \in DOMAIN rxGenerations : Active = {g}
    /\ ActivationIsAlone

LEMMA MultipleDivides ==
    ASSUME NEW d \in Nat \ {0}, NEW q \in Nat PROVE q * d \in Nat /\ (q * d) % d = 0
  OBVIOUS

\* The multiple of a step at or below a line.
LEMMA StartBelow ==
    ASSUME NEW d \in Nat \ {0}, NEW x \in Nat
    PROVE  \E q \in Nat : q * d <= x /\ x <= q * d + d - 1
<1>1. x \div d \in Nat /\ x % d \in 0..(d - 1) /\ x = d * (x \div d) + (x % d)
  OBVIOUS
<1> DEFINE q == x \div d
<1>2. q \in Nat /\ q * d = d * q /\ q * d \in Nat
  BY <1>1
<1>3. q * d <= x /\ x <= q * d + d - 1
  BY <1>1, <1>2
<1> HIDE DEF q
<1> QED BY <1>2, <1>3

\* The windows that ChunkWindows makes cover the file, whatever the window, the
\* overlap and the length: the first window that reaches the end is made, and so is
\* every one before it.
LEMMA WindowsCover ==
    ASSUME NEW f, f.lines \in Nat, NEW n \in 1..f.lines
    PROVE  \E c \in ChunkWindows(f) : c.path = f.path /\ n \in c.start .. c.end
<1> DEFINE d == WindowSize - WindowOverlap
           L == f.lines
           endAt(s) == IF s + WindowSize - 1 < L THEN s + WindowSize - 1 ELSE L
           Made(s) == (s - 1) % d = 0 /\ (s = 1 \/ endAt(s - d) < L)
           chunk(s) == [path |-> f.path, start |-> s, end |-> endAt(s), identity |-> <<f.path, s, endAt(s)>>]
<1>1. d \in Nat \ {0} /\ WindowSize \in Nat /\ d <= WindowSize /\ L \in Nat /\ n \in Nat /\ 1 <= n /\ n <= L
  BY RetrievalAssumption
<1>2. \A s \in 1..L : Made(s) => chunk(s) \in ChunkWindows(f)
  BY DEF ChunkWindows
<1>3. SUFFICES \E s \in 1..L : Made(s) /\ s <= n /\ n <= endAt(s)
  <2>1. PICK s \in 1..L : Made(s) /\ s <= n /\ n <= endAt(s)
    BY <1>3
  <2>2. chunk(s) \in ChunkWindows(f)
    BY <1>2, <2>1
  <2>3. endAt(s) \in Nat
    BY <1>1, <2>1
  <2> HIDE DEF endAt
  <2>4. n \in chunk(s).start .. chunk(s).end /\ chunk(s).path = f.path
    BY <2>1, <2>3, <1>1
  <2> QED BY <2>2, <2>4
<1> HIDE DEF d, L
<1>4. CASE L <= WindowSize
  <2>1. 1 \in 1..L /\ (1 - 1) % d = 0
    BY <1>1
  <2>2. endAt(1) = L
    BY <1>4, <1>1
  <2> QED BY <2>1, <2>2, <1>1
<1>5. CASE WindowSize < L
  <2>1. PICK p \in Nat : p * d <= L - WindowSize - 1 /\ L - WindowSize - 1 <= p * d + d - 1
    <3>1. L - WindowSize - 1 \in Nat
      BY <1>5, <1>1
    <3> QED BY <3>1, <1>1, StartBelow
  <2>2. PICK q \in Nat : q * d <= n - 1 /\ n - 1 <= q * d + d - 1
    <3>1. n - 1 \in Nat
      BY <1>1
    <3> QED BY <3>1, <1>1, StartBelow
  <2> DEFINE pd == p * d
             qd == q * d
             last == pd + d + 1
  <2>3. pd \in Nat /\ qd \in Nat /\ pd + d = (p + 1) * d /\ p + 1 \in Nat
    BY <1>1
  <2>4. (pd + d) % d = 0 /\ qd % d = 0
    BY <1>1, <2>3, MultipleDivides
  <2>5. q <= p \/ qd >= pd + d
    <3>1. CASE p + 1 <= q
      <4>1. (p + 1) * d <= q * d
        BY <1>1, <3>1
      <4> QED BY <4>1, <2>3
    <3> QED BY <3>1
  <2>6. q <= p => qd <= pd
    BY <1>1
  <2> HIDE DEF pd, qd
  <2>7. pd <= L - WindowSize - 1 /\ L - WindowSize - 1 <= pd + d - 1
    BY <2>1 DEF pd
  <2>8. qd <= n - 1 /\ n - 1 <= qd + d - 1
    BY <2>2 DEF qd
  <2>9. CASE last <= n
    <3>1. last \in 1..L /\ last - 1 = pd + d
      BY <2>3, <2>7, <1>1, <2>9
    <3>2. endAt(last - d) < L /\ endAt(last) = L
      BY <2>3, <2>7, <1>1
    <3> QED BY <3>1, <3>2, <2>4, <2>9, <1>1
  <2>10. CASE n < last
    <3>1. qd <= pd
      BY <2>3, <2>5, <2>6, <2>8, <2>10, <1>1
    <3> DEFINE s == qd + 1
    <3>2. s \in 1..L /\ s - 1 = qd
      BY <2>3, <2>8, <1>1
    <3>3. endAt(s - d) < L
      BY <2>3, <2>7, <3>1, <1>1
    <3>4. s <= n /\ n <= endAt(s)
      BY <2>3, <2>8, <1>1
    <3> HIDE DEF s
    <3>5. (s - 1) % d = 0
      BY <3>2, <2>4
    <3> QED BY <3>2, <3>3, <3>4, <3>5
  <2> QED BY <2>9, <2>10, <2>3, <1>1
<1> QED BY <1>4, <1>5, <1>1

LEMMA RxMeans == RxInv => IndexAlwaysWhole
<1> SUFFICES ASSUME RxInv, rxGenerations # <<>> PROVE IndexAlwaysWhole
  BY DEF IndexAlwaysWhole
<1>1. PICK g \in DOMAIN rxGenerations : Active = {g}
  BY DEF RxInv
<1>2. Cardinality(Active) = 1
  BY <1>1, FS_Singleton
<1>3. rxGenerations[g] \in Generation
  BY <1>1 DEF RxInv
<1>4. rxGenerations[g].commit \in DOMAIN Trees
      /\ rxGenerations[g].chunks = ChunkTree(rxGenerations[g].commit)
  BY <1>3 DEF Generation
<1>5. ASSUME NEW f \in Trees[rxGenerations[g].commit], Indexed(f), f.kind # "python", NEW n \in 1..f.lines
      PROVE  \E c \in rxGenerations[g].chunks : c.path = f.path /\ n \in c.start .. c.end
  <2>1. f.lines \in Nat
    BY <1>4, RetrievalAssumption
  <2>2. PICK c \in ChunkWindows(f) : c.path = f.path /\ n \in c.start .. c.end
    BY <2>1, WindowsCover
  <2>3. c \in ChunkTree(rxGenerations[g].commit)
    BY <1>5, <2>2 DEF ChunkTree, ChunkSource
  <2> QED BY <2>2, <2>3, <1>4
<1> QED BY <1>1, <1>2, <1>5 DEF IndexAlwaysWhole

LEMMA RxInitInv == RxInit => RxInv
  BY DEF RxInit, RxInv, RxIdle, ActivationIsAlone, At, Active

\* A run that moves on without an activation leaves the index as it is.
LEMMA RunMoves ==
    ASSUME RxInv, NEW i \in Indexers, NEW r \in IndexRun \union {RxIdle}, r.stage # "activated",
           rxIndexers' = [rxIndexers EXCEPT ![i] = r], rxGenerations' = rxGenerations
    PROVE  RxInv'
<1>1. Active' = Active
  BY DEF Active
<1>2. rxIndexers' \in [Indexers -> IndexRun \union {RxIdle}]
  BY DEF RxInv
<1>3. \A j \in Indexers : rxIndexers'[j] = IF j = i THEN r ELSE rxIndexers[j]
  BY DEF RxInv
<1>4. \A j \in Indexers : rxIndexers'[j].stage = "activated" => j # i /\ rxIndexers'[j] = rxIndexers[j]
  BY <1>3
<1>5. ActivationIsAlone'
  BY <1>1, <1>4 DEF RxInv, ActivationIsAlone, At
<1> QED BY <1>1, <1>2, <1>5 DEF RxInv

LEMMA RollBackInv == ASSUME RxInv, NEW i \in Indexers, RollBack(i) PROVE RxInv'
<1>1. RxIdle.stage # "activated"
  BY DEF RxIdle
<1> QED BY <1>1, RunMoves DEF RollBack

LEMMA RunFields ==
    ASSUME RxInv, NEW i \in Indexers, ~At(i, "idle")
    PROVE  rxIndexers[i] \in IndexRun
  BY DEF RxInv, At, RxIdle

\* A run's stage and what it retires change; its chunks stay those of its commit.
LEMMA RetiringRun ==
    ASSUME NEW old \in IndexRun, NEW gone \in SUBSET Nat
    PROVE  \E r \in IndexRun : /\ r.stage = "retired" /\ r.retires = gone
                              /\ [old EXCEPT !.stage = "retired", !.retires = gone] = r
<1>1. old \in RunRecord /\ old.chunks = ChunkTree(old.commit)
  BY DEF IndexRun
<1>2. PICK r : r = [old EXCEPT !.stage = "retired", !.retires = gone]
  OBVIOUS
<1>3. r = [stage |-> "retired", commit |-> old.commit, chunks |-> old.chunks, retires |-> gone]
  BY <1>1, <1>2 DEF RunRecord
<1>4. r \in RunRecord /\ r.chunks = ChunkTree(r.commit)
  BY <1>1, <1>3 DEF RunRecord
<1> QED BY <1>2, <1>3, <1>4 DEF IndexRun

LEMMA StagedRun ==
    ASSUME NEW old \in IndexRun, NEW stage \in {"building", "activated"}
    PROVE  \E r \in IndexRun : /\ r.stage = stage /\ r.retires = old.retires
                              /\ [old EXCEPT !.stage = stage] = r
<1>1. old \in RunRecord /\ old.chunks = ChunkTree(old.commit) /\ old.retires \in SUBSET Nat
  BY DEF IndexRun, RunRecord
<1>2. PICK r : r = [old EXCEPT !.stage = stage]
  OBVIOUS
<1>3. r = [stage |-> stage, commit |-> old.commit, chunks |-> old.chunks, retires |-> old.retires]
  BY <1>1, <1>2 DEF RunRecord
<1>4. r \in RunRecord /\ r.chunks = ChunkTree(r.commit)
  BY <1>1, <1>3 DEF RunRecord
<1> QED BY <1>2, <1>3, <1>4 DEF IndexRun

LEMMA EmbedInv ==
    ASSUME RxInv, NEW i \in Indexers, NEW commit \in DOMAIN Trees, NEW widthOk \in BOOLEAN,
           ChunkAndEmbed(i, commit, widthOk)
    PROVE  RxInv'
<1>1. CASE widthOk
  <2> DEFINE r == [stage |-> "embedded", commit |-> commit, chunks |-> ChunkTree(commit), retires |-> {}]
  <2>1. r \in IndexRun /\ r.stage # "activated"
    BY DEF IndexRun, RunRecord, Chunkings
  <2>2. rxIndexers' = [rxIndexers EXCEPT ![i] = r] /\ rxGenerations' = rxGenerations
    BY <1>1 DEF ChunkAndEmbed
  <2> HIDE DEF r
  <2> QED BY <2>1, <2>2, RunMoves
<1>2. CASE ~widthOk
  BY <1>2 DEF ChunkAndEmbed, RxInv, ActivationIsAlone, At, Active
<1> QED BY <1>1, <1>2

LEMMA BuildingInv == ASSUME RxInv, NEW i \in Indexers, InsertBuilding(i) PROVE RxInv'
<1>1. CASE RollBack(i)
  BY <1>1, RollBackInv
<1>2. CASE rxIndexers' = [rxIndexers EXCEPT ![i].stage = "building"] /\ rxGenerations' = rxGenerations
  <2>1. PICK old \in IndexRun : rxIndexers[i] = old
    BY RunFields DEF InsertBuilding, At
  <2>2. PICK r \in IndexRun : r = [old EXCEPT !.stage = "building"] /\ r.stage # "activated"
    BY <2>1, StagedRun
  <2>3. rxIndexers' = [rxIndexers EXCEPT ![i] = r]
    BY <1>2, <2>1, <2>2
  <2> QED BY <1>2, <2>2, <2>3, RunMoves
<1> QED BY <1>1, <1>2 DEF InsertBuilding

LEMMA RetireInv == ASSUME RxInv, NEW i \in Indexers, RetireActive(i) PROVE RxInv'
<1>1. PICK old \in IndexRun : rxIndexers[i] = old
  BY RunFields DEF RetireActive, At
<1>2. Active \subseteq Nat
  BY DEF Active, RxInv
<1>3. PICK gone \in SUBSET Nat : gone = Active
  BY <1>2
<1>4. PICK r \in IndexRun : /\ r.stage = "retired" /\ r.retires = gone
                            /\ [old EXCEPT !.stage = "retired", !.retires = gone] = r
  BY RetiringRun, Zenon
<1>5. rxIndexers' = [rxIndexers EXCEPT ![i] = r] /\ rxGenerations' = rxGenerations
  BY <1>1, <1>3, <1>4 DEF RetireActive
<1> QED BY <1>4, <1>5, RunMoves

LEMMA ActivateInv == ASSUME RxInv, NEW i \in Indexers, Activate(i) PROVE RxInv'
<1>1. CASE RollBack(i)
  BY <1>1, RollBackInv
<1>2. CASE /\ Active \subseteq rxIndexers[i].retires
           /\ rxIndexers' = [rxIndexers EXCEPT ![i].stage = "activated"] /\ rxGenerations' = rxGenerations
  <2>1. PICK old \in IndexRun : rxIndexers[i] = old
    BY RunFields DEF Activate, At
  <2>2. PICK r \in IndexRun : r = [old EXCEPT !.stage = "activated"] /\ r.retires = old.retires
    BY <2>1, StagedRun
  <2>3. rxIndexers' = [rxIndexers EXCEPT ![i] = r]
    BY <1>2, <2>1, <2>2
  <2>4. \A j \in Indexers : rxIndexers'[j] = IF j = i THEN r ELSE rxIndexers[j]
    BY <2>3 DEF RxInv
  <2>5. \A j \in Indexers : rxIndexers'[j].stage = "activated" => j = i
    BY <2>4 DEF Activate, At
  <2>6. Active' = Active /\ Active \subseteq r.retires
    BY <1>2, <2>1, <2>2 DEF Active
  <2>7. ActivationIsAlone'
    BY <2>4, <2>5, <2>6 DEF ActivationIsAlone, At
  <2>8. rxIndexers' \in [Indexers -> IndexRun \union {RxIdle}]
    BY <2>3 DEF RxInv
  <2> QED BY <1>2, <2>6, <2>7, <2>8 DEF RxInv
<1> QED BY <1>1, <1>2 DEF Activate

\* The commit retires the one active generation and adds its own, in one step.
LEMMA CommitInv == ASSUME RxInv, NEW i \in Indexers, CommitGeneration(i) PROVE RxInv'
<1>1. PICK run \in IndexRun : rxIndexers[i] = run
  BY RunFields DEF CommitGeneration, At
<1> DEFINE n == Len(rxGenerations)
           old == [g \in DOMAIN rxGenerations |->
                     IF g \in run.retires THEN [rxGenerations[g] EXCEPT !.state = "retired"]
                                          ELSE rxGenerations[g]]
           new == [commit |-> run.commit, state |-> "active", chunks |-> run.chunks]
<1>2. n \in Nat /\ DOMAIN rxGenerations = 1..n /\ \A g \in 1..n : rxGenerations[g] \in Generation
  BY DEF RxInv
<1>3. new \in Generation /\ new.state = "active"
  BY DEF IndexRun, RunRecord, Generation
<1>4. ASSUME NEW x \in Generation PROVE [x EXCEPT !.state = "retired"] \in Generation
                                        /\ [x EXCEPT !.state = "retired"].state = "retired"
  BY DEF Generation
<1>5. old \in [1..n -> Generation]
  BY <1>2, <1>4
<1>6. Active \subseteq run.retires
  BY <1>1 DEF RxInv, ActivationIsAlone, CommitGeneration, At
<1>7. \A g \in 1..n : old[g].state # "active"
  <2> SUFFICES ASSUME NEW g \in 1..n PROVE old[g].state # "active"
    OBVIOUS
  <2>1. CASE g \in run.retires
    BY <2>1, <1>2, <1>4
  <2>2. CASE g \notin run.retires
    BY <2>2, <1>2, <1>6 DEF Active
  <2> QED BY <2>1, <2>2
<1>8. rxGenerations' = Append(old, new)
  BY <1>1 DEF CommitGeneration
<1> HIDE DEF old, new, n
<1>9. old \in Seq(Generation) /\ Len(old) = n
  BY <1>5, <1>2
<1>10. rxGenerations' \in Seq(Generation) /\ DOMAIN rxGenerations' = 1..(n + 1)
  BY <1>8, <1>9, <1>3, <1>2
<1>11. \A g \in 1..(n + 1) : rxGenerations'[g] = IF g = n + 1 THEN new ELSE old[g]
  BY <1>8, <1>9, <1>2
<1>12. Active' = {n + 1} /\ n + 1 \in DOMAIN rxGenerations'
  BY <1>10, <1>11, <1>7, <1>3, <1>2 DEF Active
<1>13. rxIndexers' = [rxIndexers EXCEPT ![i] = RxIdle]
  BY DEF CommitGeneration
<1>14. \A j \in Indexers : rxIndexers'[j].stage # "activated"
  BY <1>13 DEF RxInv, ActivationIsAlone, CommitGeneration, At, RxIdle
<1>15. ActivationIsAlone'
  BY <1>14 DEF ActivationIsAlone, At
<1>16. rxIndexers' \in [Indexers -> IndexRun \union {RxIdle}]
  BY <1>13 DEF RxInv
<1> QED BY <1>10, <1>12, <1>15, <1>16 DEF RxInv

LEMMA RxNextInv == RxInv /\ [RxNext]_rxVars => RxInv'
<1> SUFFICES ASSUME RxInv, [RxNext]_rxVars PROVE RxInv'
  OBVIOUS
<1>1. ASSUME UNCHANGED <<rxGenerations, rxIndexers>> PROVE RxInv'
  BY <1>1 DEF RxInv, ActivationIsAlone, At, Active
<1>2. ASSUME NEW i \in Indexers, IndexRunDies(i) PROVE RxInv'
  BY <1>2, RollBackInv DEF IndexRunDies
<1>3. CASE UNCHANGED rxVars
  BY <1>1, <1>3 DEF rxVars
<1>4. CASE RankByVector \/ RankByText
  BY <1>1, <1>4 DEF RankByVector, RankByText
<1>5. ASSUME NEW commit, NEW enabled, StartQuery(commit, enabled) PROVE RxInv'
  BY <1>1, <1>5 DEF StartQuery
<1>6. ASSUME NEW packed, LoadAndFit(packed) PROVE RxInv'
  BY <1>1, <1>6 DEF LoadAndFit
<1>7. ASSUME NEW i \in Indexers, NEW commit \in DOMAIN Trees, NEW widthOk \in BOOLEAN,
             ChunkAndEmbed(i, commit, widthOk)
      PROVE  RxInv'
  BY <1>7, EmbedInv
<1>8. ASSUME NEW i \in Indexers, InsertBuilding(i) \/ RetireActive(i) \/ Activate(i) \/ CommitGeneration(i)
      PROVE  RxInv'
  <2>1. CASE InsertBuilding(i)
    BY <2>1, BuildingInv
  <2>2. CASE RetireActive(i)
    BY <2>2, RetireInv
  <2>3. CASE Activate(i)
    BY <2>3, ActivateInv
  <2>4. CASE CommitGeneration(i)
    BY <2>4, CommitInv
  <2> QED BY <1>8, <2>1, <2>2, <2>3, <2>4
<1> QED BY <1>2, <1>3, <1>4, <1>5, <1>6, <1>7, <1>8 DEF RxNext

\* From the first committed index run on there is exactly one active generation,
\* whichever runs race, fail or die, and its windows cover every line of every file
\* that is chunked by windows, for every window size, overlap and length
\* (index_repository.py, _chunk_windows of chunk_code.py).
THEOREM IndexStaysWhole == RxSpec => []IndexAlwaysWhole
<1>1. RxSpec => []RxInv
  BY RxInitInv, RxNextInv, PTL DEF RxSpec
<1> QED BY <1>1, RxMeans, PTL

-----------------------------------------------------------------------------
(* The answer to a query.                                                  *)

Seeing == INSTANCE FoldInduction WITH op <- SeeItem
Fitting == INSTANCE FoldInduction WITH op <- FitChunk
Fusing == INSTANCE FoldInduction WITH op <- FusesBefore

\* Multiplying keeps an order.
LEMMA Scaled ==
    ASSUME NEW a \in Nat, NEW b \in Nat, NEW c \in Nat \ {0}
    PROVE  (a <= b) <=> (a * c <= b * c)
  <1>1. a <= b => a * c <= b * c
    OBVIOUS
  <1>2. ASSUME b < a PROVE b * c < a * c
    <2>1. PICK d \in Nat \ {0} : a = b + d
      BY <1>2
    <2>2. a * c = b * c + d * c /\ d * c \in Nat \ {0} /\ b * c \in Nat
      BY <2>1
    <2> QED
      BY <2>2
  <1> QED
    BY <1>1, <1>2

\* Fractions are ordered by their cross products.
LEMMA CrossProducts ==
    ASSUME NEW x \in Nat, NEW y \in Nat, NEW z \in Nat,
           NEW a \in Nat \ {0}, NEW b \in Nat \ {0}, NEW c \in Nat \ {0},
           x * b <= y * a, y * c <= z * b
    PROVE  x * c <= z * a
  <1>1. /\ x * b \in Nat /\ y * a \in Nat /\ y * c \in Nat /\ z * b \in Nat
        /\ x * c \in Nat /\ z * a \in Nat
    OBVIOUS
  <1>2. (x * b) * c <= (y * a) * c
    BY <1>1, Scaled
  <1>3. (y * c) * a <= (z * b) * a
    BY <1>1, Scaled
  <1>4. (x * b) * c = (x * c) * b /\ (y * a) * c = (y * c) * a /\ (z * b) * a = (z * a) * b
    OBVIOUS
  <1>5. /\ (x * c) * b \in Nat /\ (y * c) * a \in Nat /\ (z * a) * b \in Nat
    BY <1>1
  <1>6. (x * c) * b <= (z * a) * b
    BY <1>2, <1>3, <1>4, <1>5
  <1> QED
    BY <1>1, <1>6, Scaled

LEMMA CrossProductsStrict ==
    ASSUME NEW x \in Nat, NEW y \in Nat, NEW z \in Nat,
           NEW a \in Nat \ {0}, NEW b \in Nat \ {0}, NEW c \in Nat \ {0},
           x * b > y * a, y * c > z * b
    PROVE  x * c > z * a
  <1> SUFFICES ASSUME x * c <= z * a PROVE FALSE
    <2>1. x * c \in Nat /\ z * a \in Nat
      OBVIOUS
    <2> QED
      BY <2>1
  <1>1. z * b <= y * c
    <2>1. y * c \in Nat /\ z * b \in Nat
      OBVIOUS
    <2> QED
      BY <2>1
  <1>2. x * b <= y * a
    BY <1>1, CrossProducts
  <1>3. x * b \in Nat /\ y * a \in Nat
    OBVIOUS
  <1> QED
    BY <1>2, <1>3

\* Two ranks of at most 61 weigh more than any one rank.
LEMMA TwoRanksOutweighOne ==
    ASSUME NEW v \in 1..61, NEW t \in 1..61, NEW s \in Nat \ {0}
    PROVE  ((60 + t) + (60 + v)) * ((60 + s) * 60) > 60 * ((60 + v) * (60 + t))
  <1> DEFINE a == 60 + v
             b == 60 + t
             e == 60 + s
  <1>1. a \in 61..121 /\ b \in 61..121 /\ e \in Nat /\ e >= 61
    OBVIOUS
  <1> HIDE DEF a, b, e
  <1>2. a * b <= 121 * b /\ b * a <= 121 * a /\ a * b = b * a /\ a * b \in Nat
    BY <1>1
  <1>3. a * b < 61 * (b + a)
    BY <1>1, <1>2
  <1>4. 61 * (b + a) <= e * (b + a) /\ (b + a) * e = e * (b + a) /\ e * (b + a) \in Nat
    BY <1>1
  <1>5. a * b < (b + a) * e
    BY <1>1, <1>2, <1>3, <1>4
  <1>6. (b + a) * (e * 60) = 60 * ((b + a) * e)
    BY <1>1
  <1>7. 60 * (a * b) < 60 * ((b + a) * e)
    BY <1>2, <1>4, <1>5
  <1> QED
    BY <1>6, <1>7 DEF a, b, e

LEMMA AppendedId ==
    ASSUME NEW S, NEW s \in Seq(S), NEW e \in S
    PROVE  /\ Append(s, e) \in Seq(S)
           /\ DOMAIN Append(s, e) = DOMAIN s \cup {Len(s) + 1}
           /\ \A i \in DOMAIN s : Append(s, e)[i] = s[i]
           /\ Append(s, e)[Len(s) + 1] = e /\ Len(s) + 1 \notin DOMAIN s
           /\ Len(s) \in Nat /\ DOMAIN s = 1..Len(s)
  <1>1. /\ Append(s, e) \in Seq(S)
        /\ DOMAIN s = 1..Len(s) /\ DOMAIN Append(s, e) = 1..(Len(s) + 1) /\ Len(s) \in Nat
    OBVIOUS
  <1>2. 1..(Len(s) + 1) = (1..Len(s)) \cup {Len(s) + 1} /\ Len(s) + 1 \notin 1..Len(s)
    BY <1>1
  <1> QED
    BY <1>1, <1>2

LEMMA SeeingUnrolls ==
    ASSUME NEW base, NEW s, NEW n, Seeing!Sized(s, n)
    PROVE  \E h : /\ h[0] = base
                  /\ \A k \in 1..n : h[k] = SeeItem(h[k - 1], s[k])
                  /\ Seeing!Folded(base, s) = h[n]
  BY Seeing!FoldUnrolls

\* What is seen is of the rankings.
LEMMA SeeFold ==
    ASSUME NEW S, NEW s \in Seq(S), NEW base \in Seq(S)
    PROVE  FoldLeft(SeeItem, base, s) \in Seq(S)
  <1>1. PICK n \in Nat : DOMAIN s = 1..n
    OBVIOUS
  <1>2. PICK h : /\ h[0] = base
                 /\ \A k \in 1..n : h[k] = SeeItem(h[k - 1], s[k])
                 /\ Seeing!Folded(base, s) = h[n]
    <2>1. Seeing!Sized(s, n)
      BY <1>1 DEF Seeing!Sized
    <2> QED
      BY <2>1, SeeingUnrolls
  <1>3. Seeing!Folded(base, s) = FoldLeft(SeeItem, base, s)
    BY DEF Seeing!Folded, Seeing!FoldLeft, FoldLeft, MapThenFoldSet,
           Seeing!MapThenFoldSet, Max, Seeing!Max
  <1> DEFINE T == {k \in 0..n : h[k] \in Seq(S)}
  <1>4. 0 \in T
    BY <1>1, <1>2
  <1>5. ASSUME NEW k \in 1..n, k - 1 \in T PROVE k \in T
    <2>1. h[k - 1] \in Seq(S) /\ s[k] \in S
      BY <1>1, <1>5
    <2>2. SeeItem(h[k - 1], s[k]) \in Seq(S)
      BY <2>1 DEF SeeItem
    <2> QED
      BY <1>2, <2>2
  <1> HIDE DEF T
  <1>6. \A k \in 1..n : k - 1 \in T => k \in T
    BY <1>5
  <1>7. \A k \in 0..n : k \in T
    BY <1>1, <1>4, <1>6, Seeing!UpTo
  <1>8. h[n] \in Seq(S)
    BY <1>1, <1>7 DEF T
  <1> QED
    BY <1>2, <1>3, <1>8

-----------------------------------------------------------------------------
CostOf(ids) == SumFunction([n \in DOMAIN ids |-> ChunkCost(ids[n])])

\* What is selected so far and what remains is the budget.
FitOk(S, budget, acc) ==
    /\ acc.selected \in Seq(S) /\ acc.remaining \in Nat
    /\ CostOf(acc.selected) \in Nat /\ CostOf(acc.selected) + acc.remaining = budget

LEMMA OneMoreChunk ==
    ASSUME NEW S, \A id \in S : ChunkCost(id) \in Nat, NEW ids \in Seq(S), NEW id \in S
    PROVE  CostOf(Append(ids, id)) = CostOf(ids) + ChunkCost(id)
  <1> DEFINE all == Append(ids, id)
             f == [i \in DOMAIN all |-> ChunkCost(all[i])]
             e == [i \in DOMAIN ids |-> ChunkCost(ids[i])]
             x == Len(ids) + 1
  <1>1. /\ all \in Seq(S) /\ DOMAIN all = DOMAIN ids \cup {x}
        /\ \A i \in DOMAIN ids : all[i] = ids[i]
        /\ all[x] = id /\ x \notin DOMAIN ids /\ Len(ids) \in Nat /\ DOMAIN ids = 1..Len(ids)
    BY AppendedId
  <1> HIDE DEF all, x
  <1>2. \A i \in DOMAIN all : all[i] \in S
    BY <1>1
  <1>3. IsFiniteSet(DOMAIN ids)
    <2>1. PICK l \in Nat : l = Len(ids) /\ DOMAIN ids = 1..l
      BY <1>1
    <2>2. IsFiniteSet(1..l)
      BY FS_Interval
    <2> QED
      BY <2>1, <2>2
  <1>4. /\ DOMAIN e = DOMAIN ids /\ DOMAIN f = DOMAIN all
        /\ \A y \in DOMAIN ids : f[y] = e[y]
        /\ \A y \in DOMAIN all : f[y] \in Nat
        /\ f[x] = ChunkCost(id)
    BY <1>1, <1>2
  <1>5. CostOf(all) = SumFunction(f) /\ CostOf(ids) = SumFunction(e)
    BY DEF CostOf
  <1> HIDE DEF f, e
  <1>6. Fitting!OneMore(f, e, x)
    <2>1. Fitting!IsFiniteSet(DOMAIN ids)
      BY <1>3 DEF Fitting!IsFiniteSet, IsFiniteSet
    <2> QED
      BY <1>1, <1>4, <2>1 DEF Fitting!OneMore
  <1>7. Fitting!SumFunction(f) = Fitting!SumFunction(e) + f[x]
    BY <1>6, Fitting!SumWithOneMore
  <1>8. Fitting!SumFunction(f) = SumFunction(f) /\ Fitting!SumFunction(e) = SumFunction(e)
    BY DEF Fitting!SumFunction, Fitting!SumFunctionOnSet, Fitting!FoldFunctionOnSet,
           Fitting!MapThenFoldSet, SumFunction, SumFunctionOnSet, FoldFunctionOnSet,
           MapThenFoldSet
  <1> QED
    BY <1>4, <1>5, <1>7, <1>8 DEF all

LEMMA NoChunks == CostOf(<<>>) = 0
  <1> DEFINE f == [i \in DOMAIN <<>> |-> ChunkCost(<<>>[i])]
  <1>1. DOMAIN f = {} /\ CostOf(<<>>) = SumFunction(f)
    BY DEF CostOf
  <1> HIDE DEF f
  <1>2. Fitting!SumFunction(f) = 0
    BY <1>1, Fitting!SumOfNone
  <1>3. Fitting!SumFunction(f) = SumFunction(f)
    BY DEF Fitting!SumFunction, Fitting!SumFunctionOnSet, Fitting!FoldFunctionOnSet,
           Fitting!MapThenFoldSet, SumFunction, SumFunctionOnSet, FoldFunctionOnSet,
           MapThenFoldSet
  <1> QED
    BY <1>1, <1>2, <1>3

LEMMA FitStep ==
    ASSUME NEW S, \A id \in S : ChunkCost(id) \in Nat, NEW budget \in Nat, NEW id \in S,
           NEW acc, FitOk(S, budget, acc)
    PROVE  FitOk(S, budget, FitChunk(acc, id))
  <1> DEFINE cost == ChunkCost(id)
             new == [selected |-> Append(acc.selected, id), remaining |-> acc.remaining - cost]
  <1>1. /\ acc.selected \in Seq(S) /\ acc.remaining \in Nat
        /\ CostOf(acc.selected) \in Nat /\ CostOf(acc.selected) + acc.remaining = budget
    BY DEF FitOk
  <1>2. cost \in Nat
    OBVIOUS
  <1>3. FitChunk(acc, id) = IF cost <= acc.remaining THEN new ELSE acc
    BY DEF FitChunk
  <1>4. CASE cost <= acc.remaining
    <2>1. CostOf(Append(acc.selected, id)) = CostOf(acc.selected) + cost
      BY <1>1, OneMoreChunk
    <2>2. new.selected = Append(acc.selected, id) /\ new.remaining = acc.remaining - cost
          /\ Append(acc.selected, id) \in Seq(S)
      BY <1>1
    <2> HIDE DEF cost
    <2>3. PICK a \in Nat, b \in Nat, c \in Nat :
             a = CostOf(acc.selected) /\ b = acc.remaining /\ c = cost
      BY <1>1, <1>2
    <2>4. a + c \in Nat /\ b - c \in Nat /\ (a + c) + (b - c) = budget
      BY <1>1, <1>4, <2>3
    <2> HIDE DEF new
    <2>5. FitOk(S, budget, new)
      BY <2>1, <2>2, <2>3, <2>4 DEF FitOk
    <2> QED
      BY <1>3, <1>4, <2>5
  <1>5. CASE ~(cost <= acc.remaining)
    BY <1>3, <1>5
  <1> QED
    BY <1>4, <1>5

LEMMA FittingUnrolls ==
    ASSUME NEW base, NEW s, NEW n, Fitting!Sized(s, n)
    PROVE  \E h : /\ h[0] = base
                  /\ \A k \in 1..n : h[k] = FitChunk(h[k - 1], s[k])
                  /\ Fitting!Folded(base, s) = h[n]
  BY Fitting!FoldUnrolls

LEMMA FitFold ==
    ASSUME NEW S, \A id \in S : ChunkCost(id) \in Nat, NEW budget \in Nat, NEW s \in Seq(S),
           NEW base, FitOk(S, budget, base)
    PROVE  FitOk(S, budget, FoldLeft(FitChunk, base, s))
  <1>1. PICK n \in Nat : DOMAIN s = 1..n
    OBVIOUS
  <1>2. PICK h : /\ h[0] = base
                 /\ \A k \in 1..n : h[k] = FitChunk(h[k - 1], s[k])
                 /\ Fitting!Folded(base, s) = h[n]
    <2>1. Fitting!Sized(s, n)
      BY <1>1 DEF Fitting!Sized
    <2> QED
      BY <2>1, FittingUnrolls
  <1>3. Fitting!Folded(base, s) = FoldLeft(FitChunk, base, s)
    BY DEF Fitting!Folded, Fitting!FoldLeft, FoldLeft, MapThenFoldSet,
           Fitting!MapThenFoldSet, Max, Fitting!Max
  <1> DEFINE T == {k \in 0..n : FitOk(S, budget, h[k])}
  <1>4. 0 \in T
    BY <1>1, <1>2
  <1>5. ASSUME NEW k \in 1..n, k - 1 \in T PROVE k \in T
    <2>1. FitOk(S, budget, h[k - 1]) /\ s[k] \in S
      BY <1>1, <1>5
    <2>2. FitOk(S, budget, FitChunk(h[k - 1], s[k]))
      BY <2>1, FitStep
    <2> QED
      BY <1>2, <2>2
  <1> HIDE DEF T
  <1>6. \A k \in 1..n : k - 1 \in T => k \in T
    BY <1>5
  <1>7. \A k \in 0..n : k \in T
    BY <1>1, <1>4, <1>6, Seeing!UpTo
  <1>8. FitOk(S, budget, h[n])
    BY <1>1, <1>7 DEF T
  <1> QED
    BY <1>2, <1>3, <1>8

\* The chunks that are returned are of those loaded and fit in the budget.
LEMMA FitsBudget ==
    ASSUME NEW S, \A id \in S : ChunkCost(id) \in Nat, NEW budget \in Nat, NEW s \in Seq(S)
    PROVE  /\ FitRetrievedChunks(s, budget) \in Seq(S)
           /\ CostOf(FitRetrievedChunks(s, budget)) <= budget
  <1> DEFINE base == [selected |-> <<>>, remaining |-> budget]
             acc == FoldLeft(FitChunk, base, s)
  <1>1. base.selected = <<>> /\ base.remaining = budget /\ <<>> \in Seq(S)
    OBVIOUS
  <1>2. FitRetrievedChunks(s, budget) = acc.selected
    BY DEF FitRetrievedChunks
  <1> HIDE DEF base
  <1>3. FitOk(S, budget, base)
    BY <1>1, NoChunks DEF FitOk
  <1>4. FitOk(S, budget, acc)
    BY <1>3, FitFold
  <1> HIDE DEF acc
  <1>5. PICK a \in Nat, b \in Nat : a = CostOf(acc.selected) /\ b = acc.remaining
    BY <1>4 DEF FitOk
  <1> QED
    BY <1>2, <1>4, <1>5 DEF FitOk

-----------------------------------------------------------------------------
\* A rank is a place in the ranking, or 0 for what the ranking does not have.
LEMMA RankIs ==
    ASSUME NEW S, NEW r \in Seq(S), NEW id
    PROVE  /\ RankIn(r, id) \in 0..Len(r) /\ Len(r) \in Nat
           /\ RankIn(r, id) = 0 <=> id \notin ToSet(r)
  <1>1. DOMAIN r = 1..Len(r) /\ Len(r) \in Nat
    OBVIOUS
  <1>2. CASE id \in ToSet(r)
    <2>1. \E n \in DOMAIN r : r[n] = id
      BY <1>2 DEF ToSet
    <2>2. RankIn(r, id) \in DOMAIN r
      BY <1>2, <2>1 DEF RankIn
    <2> QED
      BY <1>1, <1>2, <2>2
  <1>3. CASE id \notin ToSet(r)
    BY <1>1, <1>3 DEF RankIn
  <1> QED
    BY <1>2, <1>3

\* The rankings that are fused.
Fused(S) == rxQuery.vector \in Seq(S) /\ rxQuery.text \in Seq(S)

LEMMA ScoreIs ==
    ASSUME NEW S, Fused(S), NEW id
    PROVE  FusedScore(id).score \in Nat /\ FusedScore(id).over \in Nat \ {0}
  <1> DEFINE v == RankIn(rxQuery.vector, id)
             t == RankIn(rxQuery.text, id)
  <1>1. v \in Nat /\ t \in Nat
    BY RankIs DEF Fused
  <1>2. /\ FusedScore(id).over = (60 + v) * (60 + t)
        /\ FusedScore(id).score = (IF v = 0 THEN 0 ELSE 60 + t) + (IF t = 0 THEN 0 ELSE 60 + v)
    BY DEF FusedScore
  <1> HIDE DEF v, t
  <1> QED
    BY <1>1, <1>2

\* The order of the scores is a strict weak order.
LEMMA FusingIsWeak ==
    ASSUME NEW S, Fused(S), NEW s, NEW n \in Nat, DOMAIN s = 1..n
    PROVE  Fusing!WeaklyOrdered(s, n)
  <1> DEFINE x(i) == FusedScore(s[i]).score
             o(i) == FusedScore(s[i]).over
  <1>1. \A i \in 1..n : x(i) \in Nat /\ o(i) \in Nat \ {0}
    BY ScoreIs
  <1>2. \A i, j \in 1..n : FusesBefore(s[i], s[j]) <=> x(i) * o(j) > x(j) * o(i)
    BY DEF FusesBefore
  <1> HIDE DEF x, o
  <1>3. \A i \in 1..n : ~(x(i) * o(i) > x(i) * o(i))
    <2> SUFFICES ASSUME NEW i \in 1..n PROVE ~(x(i) * o(i) > x(i) * o(i))
      OBVIOUS
    <2>1. PICK a \in Nat, b \in Nat : a = x(i) /\ b = o(i)
      BY <1>1
    <2>2. a * b \in Nat
      OBVIOUS
    <2> QED
      BY <2>1, <2>2
  <1>4. ASSUME NEW i \in 1..n, NEW j \in 1..n, NEW k \in 1..n,
               x(i) * o(j) > x(j) * o(i), x(j) * o(k) > x(k) * o(j)
        PROVE  x(i) * o(k) > x(k) * o(i)
    BY <1>1, <1>4, CrossProductsStrict
  <1>5. ASSUME NEW i \in 1..n, NEW j \in 1..n, NEW k \in 1..n,
               ~(x(i) * o(j) > x(j) * o(i)), ~(x(j) * o(k) > x(k) * o(j))
        PROVE  ~(x(i) * o(k) > x(k) * o(i))
    <2>1. PICK xi \in Nat, xj \in Nat, xk \in Nat : xi = x(i) /\ xj = x(j) /\ xk = x(k)
      BY <1>1
    <2>2. PICK oi \in Nat \ {0}, oj \in Nat \ {0}, ok \in Nat \ {0} :
             oi = o(i) /\ oj = o(j) /\ ok = o(k)
      BY <1>1
    <2>3. ~(xi * oj > xj * oi) /\ ~(xj * ok > xk * oj)
      BY <1>5, <2>1, <2>2
    <2>4. /\ xi * oj \in Nat /\ xj * oi \in Nat /\ xj * ok \in Nat /\ xk * oj \in Nat
          /\ xi * ok \in Nat /\ xk * oi \in Nat
      OBVIOUS
    <2>5. xi * oj <= xj * oi /\ xj * ok <= xk * oj
      BY <2>3, <2>4
    <2>6. xi * ok <= xk * oi
      BY <2>5, CrossProducts
    <2>7. ~(xi * ok > xk * oi)
      BY <2>4, <2>6
    <2> QED
      BY <2>1, <2>2, <2>7
  <1>6. \A i, j, k \in 1..n : FusesBefore(s[i], s[j]) /\ FusesBefore(s[j], s[k])
                                => FusesBefore(s[i], s[k])
    BY <1>2, <1>4
  <1>7. \A i, j, k \in 1..n : FusesBefore(s[i], s[k])
                                => FusesBefore(s[i], s[j]) \/ FusesBefore(s[j], s[k])
    BY <1>2, <1>5
  <1>8. \A i \in 1..n : ~FusesBefore(s[i], s[i])
    BY <1>2, <1>3
  <1> QED
    BY <1>6, <1>7, <1>8 DEF Fusing!WeaklyOrdered

\* The fused ranking has what was seen, and nothing after what it scores above.
LEMMA FusingOrder ==
    ASSUME NEW S, Fused(S), NEW s \in Seq(S)
    PROVE  /\ Sorted(s, FusesBefore) \in Seq(S)
           /\ \A l, m \in DOMAIN Sorted(s, FusesBefore) :
                l < m => ~FusesBefore(Sorted(s, FusesBefore)[m], Sorted(s, FusesBefore)[l])
  <1> DEFINE r == Sorted(s, FusesBefore)
  <1>1. PICK n \in Nat : DOMAIN s = 1..n /\ \A i \in 1..n : s[i] \in S
    OBVIOUS
  <1>2. PICK p \in [1..n -> 1..n] :
              /\ Fusing!InOrder(s) = [m \in 1..n |-> s[p[m]]]
              /\ \A l, m \in 1..n : l < m => ~FusesBefore(s[p[m]], s[p[l]])
    <2>1. Fusing!WeaklyOrdered(s, n)
      BY <1>1, FusingIsWeak
    <2> QED
      BY <2>1, Fusing!SortRearranges
  <1>3. Fusing!InOrder(s) = r
    BY DEF Fusing!InOrder, Fusing!Sorted, Fusing!PlaceOf, Sorted, PlaceOf,
           Fusing!Cardinality, Cardinality
  <1> HIDE DEF r
  <1>4. r = [m \in 1..n |-> s[p[m]]]
    BY <1>2, <1>3
  <1>5. \A m \in 1..n : p[m] \in 1..n /\ r[m] = s[p[m]] /\ s[p[m]] \in S
    BY <1>1, <1>2, <1>4
  <1>6. r \in Seq(S) /\ DOMAIN r = 1..n
    BY <1>4, <1>5
  <1>7. \A l, m \in 1..n : l < m => ~FusesBefore(r[m], r[l])
    BY <1>2, <1>5
  <1> QED
    BY <1>6, <1>7 DEF r

\* What both rankings have scores above what one of them has.
LEMMA BothScoreAbove ==
    ASSUME NEW S, Fused(S), Len(rxQuery.vector) <= 61, Len(rxQuery.text) <= 61,
           NEW a, a \in ToSet(rxQuery.vector), a \in ToSet(rxQuery.text),
           NEW b, b \in ToSet(rxQuery.vector) \/ b \in ToSet(rxQuery.text),
           ~(b \in ToSet(rxQuery.vector) /\ b \in ToSet(rxQuery.text))
    PROVE  FusesBefore(a, b)
  <1> DEFINE v == RankIn(rxQuery.vector, a)
             t == RankIn(rxQuery.text, a)
             w == RankIn(rxQuery.vector, b)
             u == RankIn(rxQuery.text, b)
  <1>1. v \in 1..61 /\ t \in 1..61
    <2>1. /\ v \in 0..Len(rxQuery.vector) /\ Len(rxQuery.vector) \in Nat /\ v # 0
          /\ t \in 0..Len(rxQuery.text) /\ Len(rxQuery.text) \in Nat /\ t # 0
      BY RankIs DEF Fused
    <2> HIDE DEF v, t
    <2> QED
      BY <2>1
  <1>2. w \in Nat /\ u \in Nat /\ ((w = 0 /\ u # 0) \/ (w # 0 /\ u = 0))
    BY RankIs DEF Fused
  <1>3. /\ FusedScore(a).over = (60 + v) * (60 + t)
        /\ FusedScore(a).score = (IF v = 0 THEN 0 ELSE 60 + t) + (IF t = 0 THEN 0 ELSE 60 + v)
        /\ FusedScore(b).over = (60 + w) * (60 + u)
        /\ FusedScore(b).score = (IF w = 0 THEN 0 ELSE 60 + u) + (IF u = 0 THEN 0 ELSE 60 + w)
    BY DEF FusedScore
  <1>4. FusesBefore(a, b) <=>
          FusedScore(a).score * FusedScore(b).over > FusedScore(b).score * FusedScore(a).over
    BY DEF FusesBefore
  <1> HIDE DEF v, t, w, u
  <1>5. PICK s \in Nat \ {0} : FusedScore(b).over = (60 + s) * 60 /\ FusedScore(b).score = 60
    <2>1. CASE w = 0 /\ u # 0
      <3>1. FusedScore(b).over = (60 + u) * 60 /\ FusedScore(b).score = 60
        BY <1>2, <1>3, <2>1
      <3> QED
        BY <1>2, <2>1, <3>1
    <2>2. CASE w # 0 /\ u = 0
      <3>1. FusedScore(b).over = (60 + w) * 60 /\ FusedScore(b).score = 60
        BY <1>2, <1>3, <2>2
      <3> QED
        BY <1>2, <2>2, <3>1
    <2> QED
      BY <1>2, <2>1, <2>2
  <1>6. ((60 + t) + (60 + v)) * ((60 + s) * 60) > 60 * ((60 + v) * (60 + t))
    BY <1>1, TwoRanksOutweighOne
  <1>7. FusedScore(a).score = (60 + t) + (60 + v)
    BY <1>1, <1>3
  <1> QED
    BY <1>3, <1>4, <1>5, <1>6, <1>7

-----------------------------------------------------------------------------
\* The chunks of the committed generations of a commit, whatever became of them.
CommitIds(commit) ==
    UNION {{[generation |-> g, chunk |-> c] : c \in rxGenerations[g].chunks} :
              g \in {h \in DOMAIN rxGenerations : rxGenerations[h].commit = commit}}

RankingOk(ranking, commit) ==
    ranking \in Seq(CommitIds(commit)) /\ Len(ranking) <= CandidateLimit

\* Both rankings are of the query's commit, though each statement may have seen
\* another generation of it, and so is the answer.
QueryOk ==
    /\ rxQuery.stage \in {"vector", "ranked"} => RankingOk(rxQuery.vector, rxQuery.commit)
    /\ rxQuery.stage = "ranked" => RankingOk(rxQuery.text, rxQuery.commit)
    /\ rxQuery.stage = "answered" =>
         /\ rxQuery.chunks \in Seq(CommitIds(rxQuery.commit))
         /\ CostOf(rxQuery.chunks) <= rxQuery.left
         /\ \A m, n \in DOMAIN rxQuery.fused :
              rxQuery.fused[m] \in rxQuery.both /\ rxQuery.fused[n] \notin rxQuery.both => m < n

LEMMA QueryMeans == QueryOk => ContextOfTheCommit
  <1> SUFFICES ASSUME QueryOk, rxQuery.stage = "answered" PROVE ContextOfTheCommit
    BY DEF ContextOfTheCommit
  <1>1. /\ rxQuery.chunks \in Seq(CommitIds(rxQuery.commit))
        /\ CostOf(rxQuery.chunks) <= rxQuery.left
        /\ \A m, n \in DOMAIN rxQuery.fused :
             rxQuery.fused[m] \in rxQuery.both /\ rxQuery.fused[n] \notin rxQuery.both => m < n
    BY DEF QueryOk
  <1>2. ASSUME NEW n \in DOMAIN rxQuery.chunks, NEW id, id = rxQuery.chunks[n]
        PROVE  /\ rxGenerations[id.generation].commit = rxQuery.commit
               /\ id.chunk \in rxGenerations[id.generation].chunks
    <2>1. id \in CommitIds(rxQuery.commit)
      BY <1>1, <1>2
    <2>2. PICK g \in DOMAIN rxGenerations : /\ rxGenerations[g].commit = rxQuery.commit
                                            /\ \E c \in rxGenerations[g].chunks :
                                                 id = [generation |-> g, chunk |-> c]
      BY <2>1 DEF CommitIds
    <2> QED
      BY <2>2
  <1> QED
    BY <1>1, <1>2 DEF ContextOfTheCommit, CostOf

\* What a chunk costs is a number of lines.
LEMMA CostIsNatural ==
    ASSUME rxGenerations \in Seq(Generation), NEW commit, NEW id \in CommitIds(commit)
    PROVE  ChunkCost(id) \in Nat
  <1>1. PICK g \in DOMAIN rxGenerations : \E c \in rxGenerations[g].chunks :
                                             id = [generation |-> g, chunk |-> c]
    BY DEF CommitIds
  <1>2. PICK c \in rxGenerations[g].chunks : id = [generation |-> g, chunk |-> c]
    BY <1>1
  <1>3. rxGenerations[g] \in Generation
    BY <1>1
  <1>4. PICK tree \in DOMAIN Trees : c \in ChunkTree(tree)
    BY <1>2, <1>3 DEF Generation
  <1>5. PICK f \in Trees[tree] : c \in ChunkSource(f)
    BY <1>4 DEF ChunkTree
  <1>6. c.start \in Nat /\ c.end \in Nat /\ c.start <= c.end
    <2>1. CASE f.kind = "python"
      <3>1. c \in ChunkPython(f)
        BY <1>5, <2>1 DEF ChunkSource
      <3>2. PICK d \in f.definitions : c.start = d.start /\ c.end = d.end
        BY <3>1 DEF ChunkPython
      <3> QED
        BY <3>2, RetrievalAssumption
    <2>2. CASE f.kind # "python"
      <3>1. c \in ChunkWindows(f)
        BY <1>5, <2>2 DEF ChunkSource
      <3>2. PICK s \in 1..f.lines :
               /\ c.start = s
               /\ c.end = IF s + WindowSize - 1 < f.lines THEN s + WindowSize - 1 ELSE f.lines
        BY <3>1 DEF ChunkWindows
      <3>3. f.lines \in Nat /\ WindowSize \in Nat /\ WindowSize > 0
        BY RetrievalAssumption
      <3> QED
        BY <3>2, <3>3
    <2> QED
      BY <2>1, <2>2
  <1>7. id.chunk = c
    BY <1>2
  <1> QED
    BY <1>6, <1>7 DEF ChunkCost

LEMMA LimitIsNatural == CandidateLimit \in Nat /\ QueryLimit \in Nat
  BY RetrievalAssumption DEF CandidateLimit

LEMMA RankingsOk ==
    ASSUME NEW commit, NEW n \in 0..CandidateLimit, NEW r \in Rankings(Queryable(commit), n)
    PROVE  RankingOk(r, commit)
  <1>1. n \in Nat /\ n <= CandidateLimit
    BY LimitIsNatural
  <1>2. r \in [1..n -> Queryable(commit)]
    BY DEF Rankings
  <1>3. Queryable(commit) \subseteq CommitIds(commit)
    BY DEF Queryable, CommitIds, Active
  <1>4. r \in Seq(CommitIds(commit)) /\ Len(r) = n
    <2>1. r \in [1..n -> CommitIds(commit)]
      BY <1>2, <1>3
    <2> QED
      BY <1>1, <2>1
  <1> QED
    BY <1>1, <1>4 DEF RankingOk

\* Index runs change only the state of a committed generation.
LEMMA IdsStay ==
    ASSUME rxGenerations \in Seq(Generation), [RxNext]_rxVars, NEW commit
    PROVE  CommitIds(commit) \subseteq CommitIds(commit)'
  <1>1. CASE UNCHANGED rxGenerations
    BY <1>1 DEF CommitIds
  <1>2. ASSUME NEW i \in Indexers, CommitGeneration(i)
        PROVE  CommitIds(commit) \subseteq CommitIds(commit)'
    <2> DEFINE n == Len(rxGenerations)
               old == [g \in DOMAIN rxGenerations |->
                         IF g \in rxIndexers[i].retires
                         THEN [rxGenerations[g] EXCEPT !.state = "retired"] ELSE rxGenerations[g]]
               new == [commit |-> rxIndexers[i].commit, state |-> "active",
                       chunks |-> rxIndexers[i].chunks]
    <2>1. n \in Nat /\ DOMAIN rxGenerations = 1..n /\ \A g \in 1..n : rxGenerations[g] \in Generation
      OBVIOUS
    <2>2. rxGenerations' = Append(old, new)
      BY <1>2 DEF CommitGeneration
    <2>3. \A g \in 1..n : old[g].commit = rxGenerations[g].commit
                          /\ old[g].chunks = rxGenerations[g].chunks
      BY <2>1 DEF Generation
    <2>4. DOMAIN old = 1..n /\ old = [g \in 1..n |-> old[g]]
      BY <2>1
    <2> HIDE DEF old, new, n
    <2>5. \A g \in 1..n : g \in DOMAIN rxGenerations' /\ rxGenerations'[g] = old[g]
      <3>1. PICK all : \A g \in 1..n : old[g] \in all
        <4>1. \A g \in 1..n : old[g] \in {old[h] : h \in 1..n}
          OBVIOUS
        <4> QED
          BY <4>1
      <3>2. old \in Seq(all) /\ Len(old) = n
        BY <2>1, <2>4, <3>1
      <3> QED
        BY <2>1, <2>2, <3>2
    <2>6. \A g \in DOMAIN rxGenerations :
            /\ g \in DOMAIN rxGenerations'
            /\ rxGenerations'[g].commit = rxGenerations[g].commit
            /\ rxGenerations'[g].chunks = rxGenerations[g].chunks
      BY <2>1, <2>3, <2>5
    <2> QED
      BY <2>6 DEF CommitIds
  <1>3. ASSUME NEW i \in Indexers,
               InsertBuilding(i) \/ RetireActive(i) \/ Activate(i) \/ IndexRunDies(i)
        PROVE  UNCHANGED rxGenerations
    BY <1>3 DEF InsertBuilding, RetireActive, Activate, IndexRunDies, RollBack
  <1>4. ASSUME NEW i, NEW c, NEW w, ChunkAndEmbed(i, c, w) PROVE UNCHANGED rxGenerations
    BY <1>4 DEF ChunkAndEmbed
  <1>5. ASSUME NEW c, NEW e, StartQuery(c, e) PROVE UNCHANGED rxGenerations
    BY <1>5 DEF StartQuery
  <1>6. CASE RankByVector \/ RankByText
    BY <1>1, <1>6 DEF RankByVector, RankByText
  <1>7. ASSUME NEW t, LoadAndFit(t) PROVE UNCHANGED rxGenerations
    BY <1>7 DEF LoadAndFit
  <1>8. CASE UNCHANGED rxVars
    BY <1>1, <1>8 DEF rxVars
  <1> QED
    BY <1>1, <1>2, <1>3, <1>4, <1>5, <1>6, <1>7, <1>8 DEF RxNext

LEMMA WiderSeq ==
    ASSUME NEW A, NEW B, A \subseteq B, NEW s \in Seq(A)
    PROVE  s \in Seq(B)
  OBVIOUS

LEMMA OwnElements ==
    ASSUME NEW S, NEW s \in Seq(S), NEW U, ToSet(s) \subseteq U
    PROVE  s \in Seq(U)
  <1>1. PICK n \in Nat : DOMAIN s = 1..n /\ s = [i \in 1..n |-> s[i]]
    OBVIOUS
  <1>2. \A i \in 1..n : s[i] \in U
    BY <1>1 DEF ToSet
  <1> QED
    BY <1>1, <1>2

LEMMA QueryKept ==
    ASSUME rxGenerations \in Seq(Generation), [RxNext]_rxVars, QueryOk, UNCHANGED rxQuery
    PROVE  QueryOk'
  <1>1. \A r : RankingOk(r, rxQuery.commit) => RankingOk(r, rxQuery.commit)'
    <2> SUFFICES ASSUME NEW r, RankingOk(r, rxQuery.commit) PROVE RankingOk(r, rxQuery.commit)'
      OBVIOUS
    <2>1. CommitIds(rxQuery.commit) \subseteq CommitIds(rxQuery.commit)'
      BY IdsStay
    <2> QED
      BY <2>1, WiderSeq DEF RankingOk
  <1>2. \A r : r \in Seq(CommitIds(rxQuery.commit)) => r \in Seq(CommitIds(rxQuery.commit)')
    BY IdsStay, WiderSeq
  <1> QED
    BY <1>1, <1>2 DEF QueryOk, RankingOk

LEMMA RankedOk ==
    ASSUME QueryOk, RankByVector \/ RankByText
    PROVE  QueryOk'
  <1>1. rxGenerations' = rxGenerations
    BY DEF RankByVector, RankByText
  <1>2. \A r, c : RankingOk(r, c) => RankingOk(r, c)'
    BY <1>1 DEF RankingOk, CommitIds
  <1>3. CASE RankByVector
    <2>1. PICK n \in 0..CandidateLimit : \E ranking \in Rankings(Queryable(rxQuery.commit), n) :
             rxQuery' = [stage |-> "vector", commit |-> rxQuery.commit, vector |-> ranking]
      BY <1>3 DEF RankByVector
    <2>2. PICK ranking \in Rankings(Queryable(rxQuery.commit), n) :
             rxQuery' = [stage |-> "vector", commit |-> rxQuery.commit, vector |-> ranking]
      BY <2>1
    <2>3. RankingOk(ranking, rxQuery.commit)
      BY RankingsOk
    <2>4. rxQuery'.stage = "vector" /\ rxQuery'.commit = rxQuery.commit /\ rxQuery'.vector = ranking
      BY <2>2
    <2> QED
      BY <1>2, <2>3, <2>4 DEF QueryOk, RankingOk
  <1>4. CASE RankByText
    <2>1. PICK n \in 0..CandidateLimit : \E ranking \in Rankings(Queryable(rxQuery.commit), n) :
             rxQuery' = [stage |-> "ranked", commit |-> rxQuery.commit,
                         vector |-> rxQuery.vector, text |-> ranking]
      BY <1>4 DEF RankByText
    <2>2. PICK ranking \in Rankings(Queryable(rxQuery.commit), n) :
             rxQuery' = [stage |-> "ranked", commit |-> rxQuery.commit,
                         vector |-> rxQuery.vector, text |-> ranking]
      BY <2>1
    <2>3. RankingOk(ranking, rxQuery.commit) /\ RankingOk(rxQuery.vector, rxQuery.commit)
      BY <1>4, RankingsOk DEF RankByText, QueryOk
    <2>4. /\ rxQuery'.stage = "ranked" /\ rxQuery'.commit = rxQuery.commit
          /\ rxQuery'.vector = rxQuery.vector /\ rxQuery'.text = ranking
      BY <2>2
    <2> QED
      BY <1>2, <2>3, <2>4 DEF QueryOk, RankingOk
  <1> QED
    BY <1>3, <1>4

\* The answer is put together from the two rankings.
LEMMA AnsweredOk ==
    ASSUME rxGenerations \in Seq(Generation), CandidateLimit <= 61, QueryOk,
           NEW packed \in 0..QueryBudget, LoadAndFit(packed)
    PROVE  QueryOk'
  <1> DEFINE S == CommitIds(rxQuery.commit)
             seen == FoldLeft(SeeItem, <<>>, rxQuery.vector \o rxQuery.text)
             fused == ReciprocalRankFusion
             loaded == SubSeq(fused, 1, IF Len(fused) < QueryLimit THEN Len(fused) ELSE QueryLimit)
             left == QueryBudget - packed
             both == ToSet(rxQuery.vector) \cap ToSet(rxQuery.text)
  <1>1. /\ rxQuery.vector \in Seq(S) /\ rxQuery.text \in Seq(S)
        /\ Len(rxQuery.vector) <= CandidateLimit /\ Len(rxQuery.text) <= CandidateLimit
    BY DEF LoadAndFit, QueryOk, RankingOk
  <1>2. /\ rxQuery'.stage = "answered" /\ rxQuery'.commit = rxQuery.commit
        /\ rxQuery'.fused = fused /\ rxQuery'.both = both /\ rxQuery'.left = left
        /\ rxQuery'.chunks = FitRetrievedChunks(loaded, left)
        /\ rxGenerations' = rxGenerations
    BY DEF LoadAndFit
  <1>3. fused = Sorted(seen, FusesBefore)
    BY DEF ReciprocalRankFusion
  <1>4. CommitIds(rxQuery.commit)' = S
    BY <1>2 DEF CommitIds
  <1>5. left \in Nat
    BY RetrievalAssumption
  <1>6. \A id \in S : ChunkCost(id) \in Nat
    BY CostIsNatural
  <1>7. Len(rxQuery.vector) <= 61 /\ Len(rxQuery.text) <= 61
    <2>1. Len(rxQuery.vector) \in Nat /\ Len(rxQuery.text) \in Nat
      BY <1>1
    <2> QED
      BY <1>1, <2>1, LimitIsNatural
  <1>8. Fused(S)
    BY <1>1 DEF Fused
  <1>9. /\ seen \in Seq(S)
        /\ seen \in Seq(ToSet(rxQuery.vector) \cup ToSet(rxQuery.text))
    <2> DEFINE U == ToSet(rxQuery.vector) \cup ToSet(rxQuery.text)
               s == rxQuery.vector \o rxQuery.text
    <2>1. s \in Seq(S) /\ <<>> \in Seq(S) /\ <<>> \in Seq(U)
      BY <1>1
    <2>2. s \in Seq(U)
      <3>1. rxQuery.vector \in Seq(U) /\ rxQuery.text \in Seq(U)
        BY <1>1, OwnElements
      <3> QED
        BY <3>1
    <2> HIDE DEF S, U, s
    <2> QED
      BY <2>1, <2>2, SeeFold DEF s, U
  <1> HIDE DEF S, seen, fused
  <1>10. /\ fused \in Seq(S)
         /\ \A l, m \in DOMAIN fused : l < m => ~FusesBefore(fused[m], fused[l])
    BY <1>3, <1>8, <1>9, FusingOrder
  <1>11. fused \in Seq(ToSet(rxQuery.vector) \cup ToSet(rxQuery.text))
    <2>1. Fused(ToSet(rxQuery.vector) \cup ToSet(rxQuery.text))
      BY <1>1, OwnElements DEF Fused
    <2> QED
      BY <1>3, <1>9, <2>1, FusingOrder
  <1>12. loaded \in Seq(S)
    <2>1. Len(fused) \in Nat /\ QueryLimit \in Nat
      BY <1>10, LimitIsNatural
    <2> QED
      BY <1>10, <2>1
  <1>13. /\ FitRetrievedChunks(loaded, left) \in Seq(S)
         /\ CostOf(FitRetrievedChunks(loaded, left)) <= left
    <2> HIDE DEF loaded, left
    <2> QED
      BY <1>5, <1>6, <1>12, FitsBudget
  <1>14. ASSUME NEW m \in DOMAIN fused, NEW n \in DOMAIN fused,
                fused[m] \in both, fused[n] \notin both
         PROVE  m < n
    <2>1. FusesBefore(fused[m], fused[n])
      <3>1. fused[n] \in ToSet(rxQuery.vector) \cup ToSet(rxQuery.text)
        BY <1>11, <1>14
      <3> QED
        BY <1>7, <1>8, <1>14, <3>1, BothScoreAbove
    <2>2. ~(n < m)
      BY <1>10, <1>14, <2>1
    <2>3. m # n
      BY <1>14
    <2>4. m \in Nat /\ n \in Nat
      BY <1>10, <1>14
    <2> QED
      BY <2>2, <2>3, <2>4
  <1> HIDE DEF both, left, loaded
  <1> QED
    BY <1>2, <1>4, <1>13, <1>14 DEF QueryOk, CostOf

LEMMA QueryStep ==
    ASSUME rxGenerations \in Seq(Generation), CandidateLimit <= 61, QueryOk, [RxNext]_rxVars
    PROVE  QueryOk'
  <1>1. ASSUME NEW i \in Indexers,
               \/ InsertBuilding(i) \/ RetireActive(i) \/ Activate(i) \/ CommitGeneration(i)
               \/ IndexRunDies(i)
        PROVE  UNCHANGED rxQuery
    BY <1>1 DEF InsertBuilding, RetireActive, Activate, CommitGeneration, IndexRunDies, RollBack
  <1>2. ASSUME NEW i, NEW c, NEW w, ChunkAndEmbed(i, c, w) PROVE UNCHANGED rxQuery
    BY <1>2 DEF ChunkAndEmbed
  <1>3. ASSUME NEW c, NEW e, StartQuery(c, e) PROVE QueryOk'
    BY <1>3 DEF StartQuery, QueryOk
  <1>4. CASE RankByVector \/ RankByText
    BY <1>4, RankedOk
  <1>5. ASSUME NEW t \in 0..QueryBudget, LoadAndFit(t) PROVE QueryOk'
    BY <1>5, AnsweredOk
  <1>6. CASE UNCHANGED rxVars
    BY <1>6, QueryKept DEF rxVars
  <1>7. CASE UNCHANGED rxQuery
    BY <1>7, QueryKept
  <1> QED
    BY <1>1, <1>2, <1>3, <1>4, <1>5, <1>6, <1>7 DEF RxNext

\* An answered query has chunks of the commit it asked for and of committed
\* generations only, however index runs race with its two statements; they fit in
\* the budget; and while a ranking lists at most 61 candidates, what both rankings
\* found comes before what one of them found. retrieve_context asks for 32 by default;
\* two 62nd places weigh no more than one first place (hybrid_search.py, rrf.py).
THEOREM ContextStaysOfTheCommit ==
    ASSUME CandidateLimit <= 61
    PROVE  RxSpec => []ContextOfTheCommit
  <1>1. RxInit => RxInv /\ QueryOk
    BY RxInitInv DEF RxInit, RxIdle, QueryOk
  <1>2. RxInv /\ QueryOk /\ [RxNext]_rxVars => (RxInv /\ QueryOk)'
    BY RxNextInv, QueryStep DEF RxInv
  <1> QED
    BY <1>1, <1>2, QueryMeans, PTL DEF RxSpec
=============================================================================
