--------------------------- MODULE RetrievalIndex ---------------------------
(***************************************************************************)
(* The local retrieval index (retrieval/index_repository.py, chunk_code.py,*)
(* embed.py) and the queries of it (retrieval/hybrid_search.py, rrf.py).   *)
(* An index run chunks a checked out tree, embeds it, and in one           *)
(* transaction inserts a generation with its chunks, retires the active    *)
(* one and activates its own.  Several runs and queries share the          *)
(* database, under read committed isolation: a statement sees what was     *)
(* committed before it, an update waits for a lock on its row and then     *)
(* looks at the row again, and a partial unique index allows one active    *)
(* generation (external: the database).                                    *)
(*                                                                         *)
(* A file is its path, kind, number of lines and Python definitions; a     *)
(* chunk is a range of lines; a token is a line.                           *)
(***************************************************************************)
EXTENDS Integers, FiniteSets, Sequences, SequencesExt, StableSort

CONSTANTS
    Indexers,       \* Processes that index.
    Trees,          \* Commit to the files of its tree.
    Excluded,       \* Generated and ignored paths.
    WindowSize, WindowOverlap,
    MaxGenerations, \* Bound on the index runs that build a generation.
    QueryLimit, QueryBudget,
    CandidateMultiplier  \* _CANDIDATE_MULTIPLIER, 4 in the code.

ASSUME RetrievalAssumption ==
    /\ WindowOverlap \in Nat /\ WindowSize \in Nat /\ WindowOverlap < WindowSize
    /\ MaxGenerations \in Nat /\ QueryLimit \in Nat \ {0} /\ QueryBudget \in Nat
    /\ CandidateMultiplier \in Nat \ {0}
    /\ \A commit \in DOMAIN Trees : \A f \in Trees[commit] :
         /\ f.lines \in Nat
         /\ \A d \in f.definitions : d.start \in Nat /\ d.end \in Nat /\ d.start <= d.end

VARIABLES
    rxGenerations,  \* The committed generations: commit, state, chunks.
    rxIndexers,     \* Per process: stage, commit and chunks, and what it retires.
    rxBuilt,        \* Generation ids handed out.
    rxQuery         \* The query in progress.

rxVars == <<rxGenerations, rxIndexers, rxBuilt, rxQuery>>

RxIdle == [stage |-> "idle"]

RxInit ==
    /\ rxGenerations = <<>> /\ rxBuilt = 0
    /\ rxIndexers = [i \in Indexers |-> RxIdle]
    /\ rxQuery = RxIdle

-----------------------------------------------------------------------------
(* Chunks of a tree. *)

\* Windows start a step apart until one reaches the last line.
ChunkWindows(file) ==
    LET step == WindowSize - WindowOverlap
        endAt(start) == IF start + WindowSize - 1 < file.lines
                        THEN start + WindowSize - 1 ELSE file.lines
        starts == {s \in 1..file.lines : /\ (s - 1) % step = 0
                                         /\ s = 1 \/ endAt(s - step) < file.lines}
    IN  {[path |-> file.path, start |-> s, end |-> endAt(s),
          identity |-> <<file.path, s, endAt(s)>>] : s \in starts}

\* One chunk per function or class; two of one qualified name share an identity.
ChunkPython(file) ==
    {[path |-> file.path, start |-> d.start, end |-> d.end, identity |-> <<file.path, d.name>>] :
        d \in file.definitions}

\* Python that does not parse is chunked like any other text.
ChunkSource(file) ==
    IF file.kind = "python" THEN ChunkPython(file) ELSE ChunkWindows(file)

Indexed(file) == file.kind \notin {"symlink", "binary"} /\ file.path \notin Excluded

ChunkTree(commit) == UNION {ChunkSource(file) : file \in {f \in Trees[commit] : Indexed(f)}}

\* The unique index over a generation's identities.
DistinctIdentities(chunks) ==
    \A c, d \in chunks : c.identity = d.identity => c = d

-----------------------------------------------------------------------------
(* Index runs. *)

At(i, stage) == rxIndexers[i].stage = stage

\* The schema is checked, the tree chunked and embedded, before anything is
\* written; a wrong vector width refuses the run here.
ChunkAndEmbed(i, commit, widthOk) ==
    /\ At(i, "idle") /\ rxBuilt < MaxGenerations
    /\ IF widthOk
       THEN rxIndexers' = [rxIndexers EXCEPT ![i] = [stage |-> "embedded", commit |-> commit,
                                                     chunks |-> ChunkTree(commit), retires |-> {}]]
       ELSE UNCHANGED rxIndexers
    /\ UNCHANGED <<rxGenerations, rxBuilt, rxQuery>>

\* A rolled back transaction leaves nothing.
RollBack(i) ==
    /\ rxIndexers' = [rxIndexers EXCEPT ![i] = RxIdle]
    /\ UNCHANGED <<rxGenerations, rxBuilt, rxQuery>>

\* The generation and its chunks are inserted, unseen by the others.
InsertBuilding(i) ==
    /\ At(i, "embedded") /\ rxBuilt < MaxGenerations
    /\ \/ /\ DistinctIdentities(rxIndexers[i].chunks)
          /\ rxIndexers' = [rxIndexers EXCEPT ![i].stage = "building"]
          /\ rxBuilt' = rxBuilt + 1
          /\ UNCHANGED <<rxGenerations, rxQuery>>
       \/ ~DistinctIdentities(rxIndexers[i].chunks) /\ RollBack(i)

Active == {g \in DOMAIN rxGenerations : rxGenerations[g].state = "active"}

LockedByOther(i, g) == \E j \in Indexers \ {i} :
    rxIndexers[j].stage \in {"retired", "activated"} /\ g \in rxIndexers[j].retires

\* A retirement outside the transaction, as on an autocommitting connection.
RetireActiveFault(i) ==
    /\ At(i, "building")
    /\ rxGenerations' = [g \in DOMAIN rxGenerations |->
                           [rxGenerations[g] EXCEPT !.state = "retired"]]
    /\ rxIndexers' = [rxIndexers EXCEPT ![i].stage = "retired"]
    /\ UNCHANGED <<rxBuilt, rxQuery>>

\* The update waits while another run holds the active row.
RetireActive(i) ==
    /\ At(i, "building") /\ \A g \in Active : ~LockedByOther(i, g)
    /\ rxIndexers' = [rxIndexers EXCEPT ![i].stage = "retired", ![i].retires = Active]
    /\ UNCHANGED <<rxGenerations, rxBuilt, rxQuery>>

\* Another run's uncommitted activation is waited for; a committed generation that
\* this run did not retire violates the unique index.
Activate(i) ==
    /\ At(i, "retired") /\ \A j \in Indexers : ~At(j, "activated")
    /\ \/ /\ Active \subseteq rxIndexers[i].retires
          /\ rxIndexers' = [rxIndexers EXCEPT ![i].stage = "activated"]
          /\ UNCHANGED <<rxGenerations, rxBuilt, rxQuery>>
       \/ ~(Active \subseteq rxIndexers[i].retires) /\ RollBack(i)

CommitGeneration(i) ==
    /\ At(i, "activated")
    /\ LET run == rxIndexers[i] IN
       rxGenerations' = Append([g \in DOMAIN rxGenerations |->
                                  IF g \in run.retires
                                  THEN [rxGenerations[g] EXCEPT !.state = "retired"]
                                  ELSE rxGenerations[g]],
                               [commit |-> run.commit, state |-> "active", chunks |-> run.chunks])
    /\ rxIndexers' = [rxIndexers EXCEPT ![i] = RxIdle]
    /\ UNCHANGED <<rxBuilt, rxQuery>>

\* The process dies, or a statement fails: the transaction is rolled back.
IndexRunDies(i) == ~At(i, "idle") /\ RollBack(i)

-----------------------------------------------------------------------------
(* Queries. *)

\* A search that forgets which commit it is for.
QueryableFault(commit) ==
    {[generation |-> g, chunk |-> c] : g \in Active, c \in UNION {rxGenerations[h].chunks : h \in Active}}

\* The chunks a ranking statement ranges over.
Queryable(commit) ==
    UNION {{[generation |-> g, chunk |-> c] : c \in rxGenerations[g].chunks} :
              g \in {h \in Active : rxGenerations[h].commit = commit}}

\* What a ranking statement's limit clause lets through.
CandidateLimit == QueryLimit * CandidateMultiplier

\* The rankings of n of the chunks found.
Rankings(found, n) == {r \in [1..n -> found] : \A i, j \in 1..n : r[i] = r[j] => i = j}

\* Retrieval is off by default.
StartQuery(commit, enabled) ==
    /\ rxQuery.stage \in {"idle", "answered"} /\ enabled
    /\ rxQuery' = [stage |-> "asked", commit |-> commit]
    /\ UNCHANGED <<rxGenerations, rxIndexers, rxBuilt>>

\* The nearest chunks of the generation: all of them, or as many as the limit lets
\* through.
RankByVector ==
    /\ rxQuery.stage = "asked"
    /\ LET found == Queryable(rxQuery.commit) IN
       \E n \in {CandidateLimit, Cardinality(found)} \cap 0..CandidateLimit :
         \E ranking \in Rankings(found, n) :
           rxQuery' = [stage |-> "vector", commit |-> rxQuery.commit, vector |-> ranking]
    /\ UNCHANGED <<rxGenerations, rxIndexers, rxBuilt>>

\* The chunks that match the text, in a statement of its own.
RankByText ==
    /\ rxQuery.stage = "vector"
    /\ \E n \in 0..CandidateLimit : \E ranking \in Rankings(Queryable(rxQuery.commit), n) :
         rxQuery' = [stage |-> "ranked", commit |-> rxQuery.commit,
                     vector |-> rxQuery.vector, text |-> ranking]
    /\ UNCHANGED <<rxGenerations, rxIndexers, rxBuilt>>

RankIn(ranking, id) == IF id \in ToSet(ranking) THEN CHOOSE n \in DOMAIN ranking : ranking[n] = id ELSE 0

\* 1/(60 + rank) of every ranking that has the item, over one denominator.
FusedScore(id) ==
    LET v == RankIn(rxQuery.vector, id)
        t == RankIn(rxQuery.text, id)
    IN  [over |-> (60 + v) * (60 + t),
         score |-> (IF v = 0 THEN 0 ELSE 60 + t) + (IF t = 0 THEN 0 ELSE 60 + v)]

\* Higher scores first.
FusesBefore(a, b) ==
    LET p == FusedScore(a)
        q == FusedScore(b)
    IN  p.score * q.over > q.score * p.over

SeeItem(seen, id) == IF id \in ToSet(seen) THEN seen ELSE Append(seen, id)

\* The items in the order they were first seen, which the sort keeps among equals.
ReciprocalRankFusion ==
    Sorted(FoldLeft(SeeItem, <<>>, rxQuery.vector \o rxQuery.text), FusesBefore)

ChunkCost(id) == id.chunk.end - id.chunk.start + 1

\* A chunk that does not fit is passed over.
FitChunk(acc, id) ==
    IF ChunkCost(id) <= acc.remaining
    THEN [selected |-> Append(acc.selected, id), remaining |-> acc.remaining - ChunkCost(id)]
    ELSE acc

FitRetrievedChunks(ids, budget) ==
    FoldLeft(FitChunk, [selected |-> <<>>, remaining |-> budget], ids).selected

\* The chunks are loaded by id, whatever became of their generation.
LoadAndFit(packedTokens) ==
    /\ rxQuery.stage = "ranked"
    /\ LET fused == ReciprocalRankFusion
           loaded == SubSeq(fused, 1, IF Len(fused) < QueryLimit THEN Len(fused) ELSE QueryLimit)
       IN  rxQuery' = [stage |-> "answered", commit |-> rxQuery.commit, fused |-> fused,
                       both |-> ToSet(rxQuery.vector) \cap ToSet(rxQuery.text),
                       left |-> QueryBudget - packedTokens,
                       chunks |-> FitRetrievedChunks(loaded, QueryBudget - packedTokens)]
    /\ UNCHANGED <<rxGenerations, rxIndexers, rxBuilt>>

-----------------------------------------------------------------------------
RxNext ==
    \/ \E i \in Indexers :
         \/ \E commit \in DOMAIN Trees, widthOk \in BOOLEAN : ChunkAndEmbed(i, commit, widthOk)
         \/ InsertBuilding(i) \/ RetireActive(i) \/ Activate(i) \/ CommitGeneration(i)
         \/ IndexRunDies(i)
    \/ \E commit \in DOMAIN Trees, enabled \in BOOLEAN : StartQuery(commit, enabled)
    \/ RankByVector \/ RankByText
    \/ \E packedTokens \in 0..QueryBudget : LoadAndFit(packedTokens)

RxSpec == RxInit /\ [][RxNext]_rxVars

-----------------------------------------------------------------------------
(* Properties. *)

\* From the first committed run on there is exactly one active generation,
\* whichever runs race, fail or die, so that a query never falls into a gap; and
\* in it every line of a file that is chunked by windows is in some chunk
\* (index_repository.py, _chunk_windows of chunk_code.py).
IndexAlwaysWhole ==
    rxGenerations # <<>> =>
        /\ Cardinality(Active) = 1
        /\ \A g \in Active : \A f \in Trees[rxGenerations[g].commit] :
             Indexed(f) /\ f.kind # "python" =>
                 \A n \in 1..f.lines : \E c \in rxGenerations[g].chunks :
                     c.path = f.path /\ n \in c.start .. c.end

\* An answered query has chunks of the commit it asked for and of committed
\* generations only, although the index may be rebuilt between its statements;
\* they fit in what the packed diff left of the budget; and no chunk that both
\* rankings found comes after one that a single ranking found, which is so while a
\* ranking lists at most 61 candidates (retrieve_context, hybrid_search.py; rrf.py).
ContextOfTheCommit ==
    rxQuery.stage = "answered" =>
        /\ \A n \in DOMAIN rxQuery.chunks :
             LET id == rxQuery.chunks[n] IN
             /\ rxGenerations[id.generation].commit = rxQuery.commit
             /\ id.chunk \in rxGenerations[id.generation].chunks
        /\ SumFunction([n \in DOMAIN rxQuery.chunks |-> ChunkCost(rxQuery.chunks[n])])
             <= rxQuery.left
        /\ \A m, n \in DOMAIN rxQuery.fused :
             rxQuery.fused[m] \in rxQuery.both /\ rxQuery.fused[n] \notin rxQuery.both => m < n
=============================================================================
