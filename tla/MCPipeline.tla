----------------------------- MODULE MCPipeline -----------------------------
(***************************************************************************)
(* The parts of a review that do not share state with each other, checked  *)
(* in one run: a behaviour belongs to one part and leaves the others alone.*)
(***************************************************************************)
EXTENDS Workflow, ReviewOutput, ModelCalls, LocalStore, DiffReview, AgentSurfaces,
        RetrievalIndex, GitHubConnector, LocalService

VARIABLE part

MCStepNames == <<"fetch", "baseline_review", "storage">>
MCMigrations == <<"local_state", "human_feedback_hashes">>
MCJobIds == {"a", "b"} \X {1}

\* A hunk of context, a removal and an addition; one of additions further down; a
\* removal only; and one that removes a line "NEW ..." above a line "4| ...".
MCLine(mark, says) == [mark |-> mark, says |-> says, number |-> 4]
MCHunk(start, marks) ==
    [header |-> TRUE, start |-> start, lines |-> [i \in DOMAIN marks |-> MCLine(marks[i], "code")]]
MCEdit == MCHunk(1, <<"context", "removed", "added">>)
MCAddition == MCHunk(3, <<"added", "added">>)
MCRemoval == MCHunk(2, <<"removed", "note">>)
MCMisread ==
    [MCHunk(1, <<>>) EXCEPT !.lines = <<MCLine("removed", "NEW"), MCLine("added", "rule"),
                                        MCLine("context", "numbered")>>]

\* The text of a file: nothing, a list with dashes, or a patch kept as a file.
MCTexts ==
    {NoPatch, <<[MCEdit EXCEPT !.header = FALSE]>>,
     <<[MCRemoval EXCEPT !.header = FALSE], MCEdit>>}
MCChanges ==
    {[path |-> p, status |-> "modified", patch |-> q] :
        p \in 1..3, q \in {<<MCEdit>>, <<MCEdit, MCAddition>>}}
      \cup {[path |-> 1, status |-> "modified", patch |-> <<MCMisread>>],
            [path |-> 2, status |-> "renamed", patch |-> NoPatch],
            [path |-> 3, status |-> "removed", patch |-> <<MCRemoval>>],
            [path |-> 3, status |-> "copied", patch |-> <<MCEdit>>]}
MCPolicies ==
    LET plain == [budget |-> 14, identity |-> FALSE, specialists |-> FALSE,
                  generated |-> {}, ignored |-> {}, sensitive |-> {}]
    IN  {plain, [plain EXCEPT !.identity = TRUE], [plain EXCEPT !.budget = 10],
         [plain EXCEPT !.generated = {1}, !.ignored = {2}],
         [plain EXCEPT !.budget = 7, !.sensitive = {3}],
         [plain EXCEPT !.specialists = TRUE]}
MCDrafts ==
    {[path |-> 1, start |-> a, end |-> b, words |-> 1, valid |-> v] :
        a \in 1..4, b \in {2, 4}, v \in {TRUE}}
      \cup {[path |-> 2, start |-> 1, end |-> 1, words |-> 1, valid |-> v] : v \in BOOLEAN}
MCReports ==
    {[path |-> 1, category |-> <<1, "A_b">>, start |-> n, end |-> n + 1, words |-> 1,
      severity |-> n, evidence |-> {n}] : n \in 1..3}
      \cup {[path |-> 1, category |-> c, start |-> 2, end |-> 2, words |-> 2,
             severity |-> 2, evidence |-> {0}] : c \in {<<1, "a-b">>, <<2, "c">>}}

MCFile(name, kind, lines, definitions) ==
    [path |-> name, kind |-> kind, lines |-> lines, definitions |-> definitions]
MCTrees ==
    [old |-> {MCFile("a", "text", 7, {}), MCFile("b", "binary", 1, {})},
     new |-> {MCFile("a", "text", 2, {}),
              MCFile("c", "python", 4, {[name |-> "f", start |-> 2, end |-> 3]}),
              MCFile("gen", "text", 3, {})},
     twice |-> {MCFile("c", "python", 4, {[name |-> "f", start |-> 1, end |-> 2],
                                          [name |-> "f", start |-> 3, end |-> 4]})}]

\* Index runs are alike.
MCSymmetry == Permutations(Indexers)

OneOf(S) == CHOOSE x \in S : TRUE

Parts == {"workflow", "posting", "sending", "calls", "disk", "hosted", "vector", "rows", "diff", "agent", "index",
          "connector", "service", "pages"}

MCInit ==
    /\ part \in Parts
    /\ WfInit /\ (part # "workflow" => wfKind = "simple" /\ wfLive = OneOf(WfHeads))
    /\ OutInit /\ (part \notin {"posting", "sending"} => finding = OneOf(Findings))
               /\ (part # "posting" => /\ live = OneOf(OutHeads)
                                       /\ policy = [autoPost |-> TRUE, publicPosting |-> TRUE])
    /\ CallInit /\ (part # "calls" => loop = "provider" /\ clock = 0)
    /\ DiskInit /\ HostedInit /\ RowInit
    /\ RvInit /\ (part # "diff" => rvPolicy = OneOf(Policies))
    /\ RxInit /\ CnInit /\ LsInit
    /\ AgInit /\ (part # "agent" => agSurface = "mcp" /\ agEnv = [github |-> TRUE, key |-> TRUE])
    /\ VectorInit /\ (part # "vector" => backend = "keyring")

\* Starts of the server are alike, and so are pages: they come in this order. Pages
\* meet two starts, with one secret store or both; stops meet three, with one.
MCStarters == <<"s1", "s2", "s3">>
MCTabs == <<"t1", "t2">>
InOrder ==
    /\ \A i, k \in DOMAIN MCStarters :
           i < k /\ lsStart'[MCStarters[i]] = Off => lsStart'[MCStarters[k]] = Off
    /\ \A i, k \in DOMAIN MCTabs :
           i < k /\ lsTab'[MCTabs[i]] = Nobody => lsTab'[MCTabs[k]] = Nobody
    /\ part = "pages" => lsStart'["s3"] = Off
    /\ part = "service" => lsHistory'.used \subseteq {"keyring"}

surfaces == <<agVars, cnVars, lsVars>>
outside == <<part, wfVars, rvVars, rxVars, surfaces>>
stores == <<diskVars, hostedVars, vectorVars, localVars>>
outputs == <<outVars, callVars, stores>>

MCNext ==
    \/ part = "workflow" /\ WfNext /\ UNCHANGED <<part, rvVars, rxVars, surfaces, outputs>>
    \/ part = "diff" /\ RvNext /\ UNCHANGED <<part, wfVars, rxVars, surfaces, outputs>>
    \/ part = "index" /\ RxNext /\ UNCHANGED <<part, wfVars, rvVars, surfaces, outputs>>
    \/ /\ UNCHANGED <<part, wfVars, rvVars, rxVars, outputs>>
       /\ \/ part = "agent" /\ AgNext /\ UNCHANGED <<cnVars, lsVars>>
          \/ part = "connector" /\ CnNext /\ UNCHANGED <<agVars, lsVars>>
          \/ /\ \/ part = "service" /\ (StartStep \/ StopStep)
                \/ part = "pages" /\ (StartStep \/ PageStep)
             /\ InOrder
             /\ UNCHANGED <<agVars, cnVars>>
    \/ part = "posting" /\ PostNext /\ UNCHANGED <<outside, callVars, stores>>
    \/ part = "sending" /\ SendNext /\ UNCHANGED <<outside, callVars, stores>>
    \/ part = "calls" /\ CallNext /\ UNCHANGED <<outside, outVars, stores>>
    \/ /\ UNCHANGED <<outside, outVars, callVars>>
       /\ \/ part = "disk" /\ DiskNext /\ UNCHANGED <<hostedVars, vectorVars, localVars>>
          \/ part = "hosted" /\ HostedNext /\ UNCHANGED <<diskVars, vectorVars, localVars>>
          \/ part = "vector" /\ VectorNext /\ UNCHANGED <<diskVars, hostedVars, localVars>>
          \/ part = "rows" /\ RowNext /\ UNCHANGED <<diskVars, hostedVars, vectorVars>>

MCSpec == MCInit /\ [][MCNext]_<<outside, outVars, callVars, stores>>
=============================================================================
