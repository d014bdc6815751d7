--------------------------- MODULE GitHubConnector ---------------------------
(***************************************************************************)
(* The audited calls to GitHub: mint a token, fetch a pull request, post a *)
(* review.  A call is answered by GitHub first and audited afterwards, in  *)
(* a database transaction of its own, before its result is returned.       *)
(* Several callers run beside each other and share the table.              *)
(***************************************************************************)
EXTENDS Naturals, FiniteSets

CONSTANTS
    ConnectorCallers     \* each makes one call

VARIABLES
    cnCall,       \* what each caller asked for and how far it is
    cnDone,       \* history: the calls that took effect at GitHub
    cnRuns        \* connector_runs

cnVars == <<cnCall, cnDone, cnRuns>>

\* How a call ends as the HTTP client sees it; "broken" is a connection that broke, or
\* a body without what the call needs.
Replies == {"ok", "timeout", "status_error", "broken"}

ConnectorResult(outcome, status, counted) ==
    [outcome |-> outcome, status |-> status, counted |-> counted]

Raises == ConnectorResult("raised", "none", {})
Timeout == ConnectorResult("timeout", "none", {})
HttpError == ConnectorResult("http_error", "4xx_or_5xx", {"error_body"})

\* Fault: a call that timed out raises, as it does without the wrapper.
CreatePullRequestReviewFault(reply) ==
    CASE reply = "ok" -> ConnectorResult("success", "as_sent", {"review_id", "comment_count"})
      [] reply = "status_error" -> HttpError
      [] OTHER -> Raises

\* The three wrappers, and what the bytes of an answer are counted over.
CreateInstallationToken(reply) ==
    CASE reply = "ok" -> ConnectorResult("success", "201", {"expires_at"})
      [] reply = "timeout" -> Timeout
      [] reply = "status_error" -> HttpError
      [] OTHER -> Raises

AuditedFetchPullRequest(reply) ==
    CASE reply = "ok" -> ConnectorResult("success", "200", {"file_count", "paths", "shas"})
      [] reply = "timeout" -> Timeout
      [] reply = "status_error" -> HttpError
      [] OTHER -> Raises

CreatePullRequestReview(reply) ==
    CASE reply = "ok" -> ConnectorResult("success", "as_sent", {"review_id", "comment_count"})
      [] reply = "timeout" -> Timeout
      [] reply = "status_error" -> HttpError
      [] OTHER -> Raises

Operations == {"create_installation_token", "fetch_pull_request", "create_pull_request_review"}

Wrapped(op, reply) ==
    CASE op = "create_installation_token" -> CreateInstallationToken(reply)
      [] op = "fetch_pull_request" -> AuditedFetchPullRequest(reply)
      [] OTHER -> CreatePullRequestReview(reply)

\* After anything but a success GitHub may have done what it was asked to, an error of
\* its gateway included.  A fetch may have a token minted, if its provider holds none.
TakesEffect(op, reply, done) == (reply = "ok" /\ op # "fetch_pull_request") \/ done

-----------------------------------------------------------------------------
NotCalled == [stage |-> "not_called"]

\* The arguments: whether the caller wants a record, and whether it has a trace
\* id, which a token call always has.
StartCall(c, op, record, traced) ==
    /\ cnCall[c] = NotCalled
    /\ op = "create_installation_token" => traced
    /\ cnCall' = [cnCall EXCEPT ![c] = [stage |-> "waiting", op |-> op,
                                        recorded |-> record /\ traced]]
    /\ UNCHANGED <<cnDone, cnRuns>>

GithubReplies(c, reply, done) ==
    /\ cnCall[c].stage = "waiting"
    /\ LET result == Wrapped(cnCall[c].op, reply)
       IN  cnCall' = [cnCall EXCEPT ![c] =
               [stage |-> IF result = Raises THEN "raised" ELSE "to_record",
                op |-> @.op, recorded |-> @.recorded, reply |-> reply, result |-> result]]
    /\ cnDone' = IF TakesEffect(cnCall[c].op, reply, done) THEN cnDone \cup {c} ELSE cnDone
    /\ UNCHANGED cnRuns

\* The row names the operation and the bytes; the status is in its hash only.  (The
\* call is the row's identity: the calls of a job share their trace id.)
ConnectorAudit(c) ==
    LET result == cnCall[c].result
    IN  [call |-> c, op |-> cnCall[c].op, response_bytes |-> result.counted,
         payload_hash |-> <<cnCall[c].op, result.status, result.counted>>]

MaybeRecord(c) == cnCall[c].recorded

RecordConnectorRun(c) ==
    cnRuns' = IF MaybeRecord(c) THEN cnRuns \cup {ConnectorAudit(c)} ELSE cnRuns

RecordAndReturn(c) ==
    /\ cnCall[c].stage = "to_record"
    /\ RecordConnectorRun(c)
    /\ cnCall' = [cnCall EXCEPT ![c].stage = "returned"]
    /\ UNCHANGED cnDone

\* The insert fails (no database, the job's row is gone): the result is lost with it.
RecordFails(c) ==
    /\ cnCall[c].stage = "to_record" /\ MaybeRecord(c)
    /\ cnCall' = [cnCall EXCEPT ![c].stage = "record_failed"]
    /\ UNCHANGED <<cnDone, cnRuns>>

\* The process ends while a call is under way or its answer not yet recorded.
CallerDies(c, done) ==
    /\ cnCall[c].stage \in {"waiting", "to_record"}
    /\ cnCall' = [cnCall EXCEPT ![c] = [stage |-> "died", op |-> @.op, recorded |-> @.recorded]]
    /\ cnDone' = IF cnCall[c].stage = "waiting" /\ done THEN cnDone \cup {c} ELSE cnDone
    /\ UNCHANGED cnRuns

CnInit == cnCall = [c \in ConnectorCallers |-> NotCalled] /\ cnDone = {} /\ cnRuns = {}

CnNext ==
    \E c \in ConnectorCallers :
        \/ \E op \in Operations, record \in BOOLEAN, traced \in BOOLEAN :
               StartCall(c, op, record, traced)
        \/ \E reply \in Replies, done \in BOOLEAN : GithubReplies(c, reply, done)
        \/ RecordAndReturn(c) \/ RecordFails(c)
        \/ \E done \in BOOLEAN : CallerDies(c, done)

CnSpec == CnInit /\ [][CnNext]_cnVars

-----------------------------------------------------------------------------
\* The audit table tells what GitHub was made to do.  A token or a review of a
\* recorded call has its row, also when its answer timed out or was an HTTP error
\* after the fact; it has none only when the answer was broken or the insert failed,
\* and then the caller was raised at, or when the process died.  Exactly the
\* recorded calls whose callers were answered have rows (connectors/github.py).
AuditMatchesAnswers ==
    /\ \A c \in cnDone :
           \/ ~cnCall[c].recorded \/ cnCall[c].stage \in {"to_record", "record_failed", "died"}
           \/ cnCall[c].reply = "broken" /\ cnCall[c].stage = "raised"
           \/ \E run \in cnRuns : run.call = c
    /\ {run.call : run \in cnRuns} =
          {c \in ConnectorCallers : cnCall[c].stage = "returned" /\ cnCall[c].recorded}
=============================================================================
