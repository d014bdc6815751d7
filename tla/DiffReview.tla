----------------------------- MODULE DiffReview -----------------------------
(***************************************************************************)
(* One diff review: the pages of changed files are fetched                 *)
(* (github/pull_request.py), missing patches are recovered from a bounded  *)
(* clone (runner/repository_fallback.py), whole files are packed into the  *)
(* token budget (reviewer/diff_budget.py, reviewer/hunk_format.py), and    *)
(* the model's drafts are filtered (reviewer/review_pull_request.py) or    *)
(* the specialists' findings merged (reviewer/specialists.py,              *)
(* reviewer/aggregate_findings.py).                                        *)
(*                                                                         *)
(* A path is a number, so that paths are ordered.  A patch is a sequence   *)
(* of hunks, a hunk the number of its first new line and its lines; what   *)
(* stands before the first hunk header is a hunk without a header.  Of a   *)
(* line the mark is kept, and what the text after it starts with: "NEW ",  *)
(* "OLD ", a number as in "42| ", the rest of a "+++" or "---", or other   *)
(* code.  A token is a rendered line.  A finding's words (title and        *)
(* rationale) are a number, its category a name and a spelling.            *)
(***************************************************************************)
EXTENDS Integers, FiniteSets, Sequences, SequencesExt, StableSort

CONSTANTS
    Changes,        \* The changed files GitHub may list, as path and patch.
    NoPatch,        \* GitHub's omitted patch, or an empty text.
    Texts,          \* The texts of files, as they are parsed in place of a patch.
    Policies,       \* Token budget, whether the repository's identity is known,
                    \* specialist mode, and the paths excluded or sensitive.
    Drafts,         \* What a model may return as one finding.
    Reports,        \* What a specialist may return as one finding.
    MaxDrafts,      \* MAX_FINDING_DRAFTS.
    MaxReturned,    \* Bound on the findings a model returns.
    MaxReported,    \* Bound on the findings a specialist returns.
    Answering       \* The sets of specialists that may answer in time.

Lines == [mark : STRING, says : STRING, number : Nat]
Hunks == [header : BOOLEAN, start : Nat, lines : Seq(Lines)]

\* FindingDraft refuses a range that ends before it starts.
ReportTypes ==
    [path : Nat, category : Nat \X STRING, start : Nat, end : Nat, words : Nat,
     severity : Nat, evidence : SUBSET Nat]

ASSUME DiffReviewAssumption ==
    /\ MaxDrafts \in Nat \ {0} /\ MaxReturned \in Nat /\ MaxReported \in Nat
    /\ \A p \in Policies : p.budget \in Nat
    /\ \A c \in Changes : c.path \in Nat /\ (c.patch # NoPatch => c.patch \in Seq(Hunks))
    /\ Texts \subseteq Seq(Hunks) \union {NoPatch}
    /\ \A r \in Reports : r \in ReportTypes /\ r.start <= r.end

VARIABLES
    rvStage,        \* Where the review is.
    rvFiles,        \* The snapshot's files, in GitHub's order.
    rvPolicy,       \* The policy this review runs under.
    rvPacked,       \* The packed diff.
    rvRaw,          \* What the model or the specialists returned.
    rvFindings      \* The findings of the review.

rvVars == <<rvStage, rvFiles, rvPolicy, rvPacked, rvRaw, rvFindings>>

NoDiff == [items |-> <<>>, omitted |-> <<>>, coversAll |-> FALSE]

RvInit ==
    /\ rvStage = "start" /\ rvFiles = <<>>
    /\ rvPolicy \in Policies
    /\ rvPacked = NoDiff /\ rvRaw = <<>> /\ rvFindings = <<>>

Fail == rvStage' = "failed" /\ UNCHANGED <<rvFiles, rvPolicy, rvPacked, rvRaw, rvFindings>>

-----------------------------------------------------------------------------
(* Fetching. *)

SupportedStatuses == {"added", "modified", "removed", "renamed"}

\* The snapshot's record of a listed file: nothing marks one binary or truncated.
NormalizeFile(change) ==
    [path |-> change.path, patch |-> change.patch, status |-> change.status,
     binary |-> FALSE, truncated |-> FALSE, reason |-> "none"]

Fetching ==
    rvStage' = "fetching" /\ UNCHANGED <<rvFiles, rvPolicy, rvPacked, rvRaw, rvFindings>>

\* With the caller's own token, by owner and name.
FetchPullRequest == rvStage = "start" /\ Fetching

FetchByRepositoryId == rvStage = "start" /\ Fetching

\* For a leased job: the brokered token must be for the job's repository.
FetchJobSnapshot(tokenMatches) ==
    \/ tokenMatches /\ FetchByRepositoryId
    \/ ~tokenMatches /\ rvStage = "start" /\ Fail

\* One page, here of one file, and the link to the next one.
FetchPage(change) ==
    /\ rvStage = "fetching"
    /\ \A i \in DOMAIN rvFiles : rvFiles[i].path # change.path
    /\ rvFiles' = Append(rvFiles, NormalizeFile(change))
    /\ UNCHANGED <<rvStage, rvPolicy, rvPacked, rvRaw, rvFindings>>

\* The last page carries no link; an unknown status refuses the whole snapshot.
LastPage ==
    /\ rvStage = "fetching" /\ rvFiles # <<>>
    /\ rvStage' = IF \A i \in DOMAIN rvFiles : rvFiles[i].status \in SupportedStatuses
                  THEN "fetched" ELSE "failed"
    /\ UNCHANGED <<rvFiles, rvPolicy, rvPacked, rvRaw, rvFindings>>

FetchFails == rvStage = "fetching" /\ Fail

-----------------------------------------------------------------------------
(* Recovering patches that GitHub left out. *)

\* How a clone may end: git's own failures, a tree that leaves the work
\* directory, a tree or a file above the size bound, no such file, or its text.
CloneEnds ==
    [end : {"timeout", "error", "unsafe_tree", "tree_too_big", "no_file", "file_too_big"},
     text : {NoPatch}]
      \union [end : {"text"}, text : Texts]

\* What is recovered is the text of the file, from whichever commit is checked out.
RecoverPatch(clone) ==
    CASE clone.end = "timeout" -> "clone_timeout"
      [] clone.end \in {"error", "unsafe_tree"} -> "raise"
      [] clone.end \in {"tree_too_big", "file_too_big"} -> "file_size_limit"
      [] clone.end = "no_file" -> "none"
      [] clone.end = "text" -> "text"

RecoverOrOmit(clone) == IF rvPolicy.identity THEN RecoverPatch(clone) ELSE "none"

\* The text is taken for a patch: lines of it that look like hunk headers are.
CompleteFile(file, clone) ==
    CASE file.binary -> [file EXCEPT !.patch = NoPatch, !.reason = "binary"]
      [] ~file.binary /\ file.truncated -> [file EXCEPT !.reason = "patch_truncated_by_github"]
      [] ~file.binary /\ ~file.truncated /\ file.patch # NoPatch -> file
      [] OTHER ->
           LET recovered == RecoverOrOmit(clone) IN
           CASE recovered = "none" -> [file EXCEPT !.reason = "patch_omitted_by_github"]
             [] recovered = "text" -> [file EXCEPT !.patch = clone.text]
             [] OTHER -> [file EXCEPT !.reason = recovered]

\* Every file without a patch costs a clone of its own; an unsafe tree or a
\* failed clone raises and ends the review.
EnsureCompleteDiff(ends) ==
    /\ rvStage = "fetched"
    /\ IF \E i \in DOMAIN rvFiles : rvFiles[i].patch = NoPatch /\ RecoverOrOmit(ends[i]) = "raise"
       THEN Fail
       ELSE /\ rvFiles' = [i \in DOMAIN rvFiles |-> CompleteFile(rvFiles[i], ends[i])]
            /\ rvStage' = "completed"
            /\ UNCHANGED <<rvPolicy, rvPacked, rvRaw, rvFindings>>

-----------------------------------------------------------------------------
(* Rendering and packing. *)

OnNewSide == {"context", "added"}
OnOldSide == {"context", "removed"}

\* The lines of a hunk whose marks are in a set.
Marked(hunk, marks) == {i \in DOMAIN hunk.lines : hunk.lines[i].mark \in marks}

SplitLine(acc, line) ==
    IF line.mark \in OnNewSide THEN [no |-> acc.no + 1, new |-> Append(acc.new, acc.no)] ELSE acc

\* The numbers of a hunk's new-side lines, counted from its header.
SplitHunk(hunk) == FoldLeft(SplitLine, [no |-> hunk.start, new |-> <<>>], hunk.lines).new

\* The rendered text is read back line by line. A new-side line is its number and its
\* code; an old-side line is its code alone, which may say that a new side begins, or
\* ends, or look like a numbered line.
ReadOldLine(acc, line) ==
    IF line.mark \notin OnOldSide THEN acc
    ELSE [open |-> line.says = "NEW" \/ (acc.open /\ line.says # "OLD"),
          read |-> IF acc.open /\ line.says = "numbered" THEN Append(acc.read, line.number)
                   ELSE acc.read]

ReadOldSide(hunk) == FoldLeft(ReadOldLine, [open |-> FALSE, read |-> <<>>], hunk.lines).read

\* A hunk is rendered as its new side and its old side, each under a header: how many
\* lines that is, and the numbers that are read back from it as new-side lines.
RenderHunk(acc, hunk) ==
    IF ~hunk.header THEN acc
    ELSE [new |-> acc.new \o SplitHunk(hunk) \o ReadOldSide(hunk),
          lines |-> acc.lines + 2 + Len(SplitHunk(hunk)) + Cardinality(Marked(hunk, OnOldSide))]

RenderHunks(patch) == FoldLeft(RenderHunk, [new |-> <<>>, lines |-> 0], patch)

CountTokens(content) == IF content.lines = 0 THEN 1 ELSE content.lines

LineRange(content) ==
    IF content.new = <<>> THEN <<0, 0>> ELSE <<Head(content.new), Last(content.new)>>

\* The lines that start with a plus or a minus, but not with three.
Changed(hunk) == {i \in Marked(hunk, {"added", "removed"}) : hunk.lines[i].says # "rule"}

ChangeSize(patch) ==
    IF patch = NoPatch THEN 0
    ELSE SumFunction([h \in DOMAIN patch |-> Cardinality(Changed(patch[h]))])

Sensitivity(file) == IF file.path \in rvPolicy.sensitive THEN 1 ELSE 0

\* Sensitive files first, then larger changes, then by path.
PacksBefore(f, g) ==
    \/ Sensitivity(f) > Sensitivity(g)
    \/ /\ Sensitivity(f) = Sensitivity(g)
       /\ \/ ChangeSize(f.patch) > ChangeSize(g.patch)
          \/ ChangeSize(f.patch) = ChangeSize(g.patch) /\ f.path < g.path

\* The reason a file cannot be packed at all, or "none".
Classify(file) ==
    CASE file.reason # "none" -> file.reason
      [] file.reason = "none" /\ file.binary -> "binary"
      [] file.reason = "none" /\ ~file.binary /\ file.path \in rvPolicy.generated -> "generated"
      [] OTHER -> CASE file.path \in rvPolicy.ignored -> "ignored_path"
                    [] file.path \notin rvPolicy.ignored /\ file.truncated ->
                         "patch_truncated_by_github"
                    [] OTHER -> IF file.patch = NoPatch THEN "patch_omitted_by_github" ELSE "none"

OmitFile(diff, file, reason) ==
    [items |-> diff.items,
     omitted |-> Append(diff.omitted, [path |-> file.path, reason |-> reason,
                                       size |-> ChangeSize(file.patch)]),
     remaining |-> diff.remaining]

IncludeFile(diff, file, content) ==
    [items |-> Append(diff.items, [path |-> file.path, range |-> LineRange(content),
                                   lines |-> ToSet(content.new),
                                   tokens |-> CountTokens(content)]),
     omitted |-> diff.omitted,
     remaining |-> diff.remaining - CountTokens(content)]

\* A packer that stops looking at the first file that does not fit.
PackFileFault(diff, file) ==
    LET reason == Classify(file)
        content == RenderHunks(file.patch)
    IN  CASE \E i \in DOMAIN diff.omitted : diff.omitted[i].reason = "token_budget" -> diff
          [] reason # "none" -> OmitFile(diff, file, reason)
          [] OTHER -> IF CountTokens(content) > diff.remaining
                      THEN OmitFile(diff, file, "token_budget")
                      ELSE IncludeFile(diff, file, content)

\* A file goes in whole or is left out with its reason.
PackFile(diff, file) ==
    LET reason == Classify(file)
        content == RenderHunks(file.patch)
    IN  IF reason # "none" THEN OmitFile(diff, file, reason)
        ELSE IF CountTokens(content) > diff.remaining
             THEN OmitFile(diff, file, "token_budget")
             ELSE IncludeFile(diff, file, content)

PackDiff ==
    /\ rvStage \in {"fetched", "completed"}
    /\ LET ordered == Sorted(rvFiles, PacksBefore)
           packed == FoldLeft(PackFile, [items |-> <<>>, omitted |-> <<>>,
                                         remaining |-> rvPolicy.budget], ordered)
       IN  rvPacked' = [items |-> packed.items, omitted |-> packed.omitted,
                        coversAll |-> packed.omitted = <<>>]
    /\ rvStage' = "packed"
    /\ UNCHANGED <<rvFiles, rvPolicy, rvRaw, rvFindings>>

-----------------------------------------------------------------------------
(* The model's findings. *)

LinesOf(item) == item.start .. item.end

ShownLines(path) ==
    UNION {rvPacked.items[i].lines : i \in {j \in DOMAIN rvPacked.items :
                                              rvPacked.items[j].path = path}}

\* A filter that looks at the first line only.
InChangedDiffFault(draft) == draft.start \in ShownLines(draft.path)

InChangedDiff(draft) == LinesOf(draft) \subseteq ShownLines(draft.path)

\* A draft outside the schema, outside the diff, or already taken, is dropped.
TakeDraft(accepted, draft) ==
    IF /\ Len(accepted) < MaxDrafts
       /\ draft.valid /\ draft.start <= draft.end
       /\ InChangedDiff(draft)
       /\ \A i \in DOMAIN accepted :
            <<accepted[i].path, accepted[i].start, accepted[i].end, accepted[i].words>>
              # <<draft.path, draft.start, draft.end, draft.words>>
    THEN Append(accepted, draft)
    ELSE accepted

CandidatesFromParsed(raw) == FoldLeft(TakeDraft, <<>>, raw)

\* The lease is asked once, before the one call of the model.
ReviewPullRequest(heartbeat, raw) ==
    /\ rvStage = "packed" /\ ~rvPolicy.specialists
    /\ CASE heartbeat = "cancelled" ->
              rvStage' = "cancelled" /\ UNCHANGED <<rvFiles, rvPolicy, rvPacked, rvRaw, rvFindings>>
         [] heartbeat = "invalid_or_expired" -> Fail
         [] OTHER -> /\ rvStage' = "reviewed" /\ rvRaw' = raw
                     /\ rvFindings' = CandidatesFromParsed(raw)
                     /\ UNCHANGED <<rvFiles, rvPolicy, rvPacked>>

ModelFails == rvStage = "packed" /\ ~rvPolicy.specialists /\ Fail

-----------------------------------------------------------------------------
(* The specialists' findings. *)

NormaliseCategory(category) == category[1]

SameKey(a, b) ==
    a.path = b.path /\ NormaliseCategory(a.category) = NormaliseCategory(b.category)

Starts(cluster) == {cluster[i].start : i \in DOMAIN cluster}
Ends(cluster) == {cluster[i].end : i \in DOMAIN cluster}
HullStart(cluster) == CHOOSE n \in Starts(cluster) : \A m \in Starts(cluster) : n <= m
HullEnd(cluster) == CHOOSE n \in Ends(cluster) : \A m \in Ends(cluster) : n >= m

\* A merge that looks at a cluster's first finding only.
ClusterOverlapsFault(item, cluster) ==
    item.start <= cluster[1].end /\ cluster[1].start <= item.end

ClusterOverlaps(item, cluster) ==
    item.start <= HullEnd(cluster) /\ HullStart(cluster) <= item.end

\* By file, category, lines and words.
MergeKey(f) == <<f.path, NormaliseCategory(f.category), f.start, f.end, f.words>>

MergesBefore(a, b) ==
    \E i \in 1..5 : /\ MergeKey(a)[i] < MergeKey(b)[i]
                    /\ \A j \in 1..(i - 1) : MergeKey(a)[j] = MergeKey(b)[j]

\* The first cluster of the same file and category that the finding overlaps.
PlaceFinding(clusters, item) ==
    LET fits == {i \in DOMAIN clusters : /\ SameKey(item, clusters[i][1])
                                         /\ ClusterOverlaps(item, clusters[i])}
    IN  IF fits = {} THEN Append(clusters, <<item>>)
        ELSE LET first == CHOOSE i \in fits : \A j \in fits : i <= j
             IN  [clusters EXCEPT ![first] = Append(@, item)]

Outranks(a, b) == a.severity > b.severity \/ (a.severity = b.severity /\ a.words >= b.words)

PickRepresentative(cluster) ==
    CHOOSE item \in ToSet(cluster) : \A other \in ToSet(cluster) : Outranks(item, other)

MergeCluster(cluster) ==
    [PickRepresentative(cluster) EXCEPT
        !.start = HullStart(cluster), !.end = HullEnd(cluster),
        !.evidence = UNION {cluster[i].evidence : i \in DOMAIN cluster}]

AggregateFindings(findings) ==
    LET clusters == FoldLeft(PlaceFinding, <<>>, Sorted(findings, MergesBefore))
    IN  [i \in DOMAIN clusters |-> MergeCluster(clusters[i])]

\* The specialists run one after another; one that is missing or out of time
\* leaves the others' findings alone.
RunSpecialists(returned) ==
    /\ rvStage = "packed" /\ rvPolicy.specialists
    /\ LET of(concern) == IF concern \in DOMAIN returned THEN returned[concern] ELSE <<>>
           collected == of("security") \o of("correctness") \o of("tests") \o of("docs")
       IN  rvRaw' = collected /\ rvFindings' = AggregateFindings(collected)
    /\ rvStage' = "merged"
    /\ UNCHANGED <<rvFiles, rvPolicy, rvPacked>>

-----------------------------------------------------------------------------
RvNext ==
    \/ FetchPullRequest \/ \E matches \in BOOLEAN : FetchJobSnapshot(matches)
    \/ \E change \in Changes : FetchPage(change)
    \/ LastPage \/ FetchFails
    \/ \E ends \in [DOMAIN rvFiles -> CloneEnds] : EnsureCompleteDiff(ends)
    \/ PackDiff
    \/ \E heartbeat \in {"none", "active", "cancelled", "invalid_or_expired"},
          raw \in SeqOf(Drafts, MaxReturned) : ReviewPullRequest(heartbeat, raw)
    \/ ModelFails
    \/ \E concerns \in Answering :
         \E returned \in [concerns -> SeqOf(Reports, MaxReported)] : RunSpecialists(returned)

RvSpec == RvInit /\ [][RvNext]_rvVars

-----------------------------------------------------------------------------
(* Properties. *)

RvDone == rvStage \in {"packed", "reviewed", "merged"}

Cost(path) ==
    LET file == CHOOSE f \in ToSet(rvFiles) : f.path = path
    IN  CountTokens(RenderHunks(file.patch))

Spent == SumFunction([i \in DOMAIN rvPacked.items |-> rvPacked.items[i].tokens])

\* Every changed file is packed once or left out with a reason, never neither or
\* both; the packed ones are within the budget; and no file is left out for the
\* budget that would still fit beside the files that were packed
\* (pack_diff, diff_budget.py).
EveryFileAccounted ==
    RvDone =>
        LET packed == [i \in DOMAIN rvPacked.items |-> rvPacked.items[i].path]
            left == [i \in DOMAIN rvPacked.omitted |-> rvPacked.omitted[i].path]
        IN  /\ Len(packed) + Len(left) = Len(rvFiles)
            /\ ToSet(packed) \cup ToSet(left) = {rvFiles[i].path : i \in DOMAIN rvFiles}
            /\ Spent <= rvPolicy.budget
            /\ \A i \in DOMAIN rvPacked.omitted :
                 rvPacked.omitted[i].reason = "token_budget" =>
                     Spent + Cost(rvPacked.omitted[i].path) > rvPolicy.budget

\* A number that an old-side line shows, below one that says a new side begins.
Misread(hunk, n) ==
    \E i, k \in Marked(hunk, OnOldSide) :
        /\ i < k /\ hunk.lines[i].says = "NEW"
        /\ hunk.lines[k].says = "numbered" /\ hunk.lines[k].number = n

\* Every line of a finding of the one-call review is a new-side line of a hunk of a
\* packed file, counted from the hunk's header, however the model drew its ranges. The
\* exception is what reading the rendered text back adds: a number in the code of an
\* old-side line, below one whose code starts with "NEW " (_new_side_lines and
\* _in_changed_diff, review_pull_request.py).
FindingsOnShownLines ==
    rvStage = "reviewed" =>
        \A i \in DOMAIN rvFindings : \A n \in LinesOf(rvFindings[i]) :
            \E f \in ToSet(rvFiles) : \E h \in DOMAIN f.patch :
                /\ f.path = rvFindings[i].path /\ f.patch[h].header
                /\ \/ \E at \in Marked(f.patch[h], OnNewSide) :
                          n = f.patch[h].start
                                + Cardinality({k \in Marked(f.patch[h], OnNewSide) : k < at})
                   \/ Misread(f.patch[h], n)

\* Merging loses nothing and invents nothing, in whatever order the specialists
\* answered: a reported finding is inside a merged one that is at least as severe
\* and keeps its evidence, a merged one has only reported lines, and no two
\* merged ones of a file and category share a line (aggregate_findings.py).
MergeKeepsEveryFinding ==
    rvStage = "merged" =>
        LET merged == rvFindings
            inside(f, m) == SameKey(f, m) /\ LinesOf(f) \subseteq LinesOf(m)
        IN  /\ \A i \in DOMAIN rvRaw : \E j \in DOMAIN merged :
                 /\ inside(rvRaw[i], merged[j])
                 /\ rvRaw[i].severity <= merged[j].severity
                 /\ rvRaw[i].evidence \subseteq merged[j].evidence
            /\ \A j \in DOMAIN merged : \A n \in LinesOf(merged[j]) :
                 \E i \in DOMAIN rvRaw : inside(rvRaw[i], merged[j]) /\ n \in LinesOf(rvRaw[i])
            /\ \A j, k \in DOMAIN merged :
                 j # k /\ SameKey(merged[j], merged[k]) =>
                     LinesOf(merged[j]) \cap LinesOf(merged[k]) = {}
=============================================================================
