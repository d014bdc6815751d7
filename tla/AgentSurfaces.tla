---------------------------- MODULE AgentSurfaces ----------------------------
(***************************************************************************)
(* The surfaces through which another agent asks for a review              *)
(* (agent_surfaces/, runner/cli/mcp.py, a2a.py, acp.py and review.py): one *)
(* process serves one surface over its standard input, with the reviews it *)
(* made kept in memory, or runs one `reviewer review`.                     *)
(*                                                                         *)
(* A line of input is abstracted to what the handlers tell apart: its      *)
(* form, the command it names, whether its arguments are valid and the id  *)
(* they carry.  A review's findings are a set.                             *)
(***************************************************************************)
EXTENDS Naturals, FiniteSets, Sequences

CONSTANTS MaxReviews, SurfaceFindings

ASSUME AgentSurfacesAssumption == MaxReviews \in Nat

VARIABLES
    agSurface,      \* The process: which surface it serves, or "ended".
    agEnv,          \* GitHub token and model key of the environment.
    agReviews,      \* The backend's reviews: id to findings.
    agReply,        \* The last reply, or exit code and output.
    agTold          \* History: the reviews the client was told of.

agVars == <<agSurface, agEnv, agReviews, agReply, agTold>>

NoReply == [kind |-> "none"]
Servers == {"mcp", "a2a", "acp"}

AgInit ==
    /\ agSurface \in Servers \cup {"review", "agent-json"}
    /\ agEnv \in [github : BOOLEAN, key : BOOLEAN]
    /\ agReviews = <<>> /\ agReply = NoReply /\ agTold = <<>>

-----------------------------------------------------------------------------
(* The backend: what a request yields, as status, code, review and findings. *)

Ok(id, findings) == [status |-> "ok", code |-> "none", id |-> id, findings |-> findings]
Refusal(code) == [status |-> "refused", code |-> code, id |-> 0, findings |-> {}]
Failure(code) == [status |-> "error", code |-> code, id |-> 0, findings |-> {}]

\* What a fetch and a model call may raise.
Raised == {"github_status", "bad_body", "ModelKeyInvalid", "ModelRateLimit", "ModelContextLimit",
           "ModelTimeout", "InvalidModelJson", "ModelProviderFailure"}

\* A body that does not parse is a ValueError, like a bad argument.
ErrorFromException(error) ==
    CASE error \in {"bad_body", "ValueError"} -> "invalid_request"
      [] error = "ModelKeyInvalid" -> "model_key_invalid"
      [] error = "ModelRateLimit" -> "provider_rate_limited"
      [] error = "ModelContextLimit" -> "context_limit_exceeded"
      [] error = "ModelTimeout" -> "model_timeout"
      [] error = "InvalidModelJson" -> "invalid_model_response"
      [] error = "ModelProviderFailure" -> "provider_failure"
      [] OTHER -> "unexpected_error"

RequireGithub(answer) == IF agEnv.github THEN answer ELSE Refusal("github_not_connected")

\* One synchronous review; only a finished one is kept.
StartReview(outcome) ==
    IF ~agEnv.key THEN Refusal("no_model_key")
    ELSE IF outcome.raised # "none" THEN Failure(ErrorFromException(outcome.raised))
    ELSE Ok(Len(agReviews) + 1, outcome.findings)

\* A backend that remembers its latest review only.
ExistingReviewFault(id) ==
    IF id \in DOMAIN agReviews THEN Ok(0, agReviews[Len(agReviews)]) ELSE Refusal("unknown_review")

ExistingReview(id) ==
    IF id \in DOMAIN agReviews THEN Ok(0, agReviews[id]) ELSE Refusal("unknown_review")

-----------------------------------------------------------------------------
(* Commands.  A call carries a command, an id, whether its arguments are     *)
(* valid, and what the review would end with.                                *)

ReviewOutcomes ==
    {[raised |-> error, findings |-> {}] : error \in Raised}
      \cup {[raised |-> "none", findings |-> found] : found \in SUBSET SurfaceFindings}
Commands == {"review_pull_request", "list_findings", "list_remediation_prompts", "unknown"}

\* Arguments are validated before the connection is looked at.  Every surface
\* dispatches in this order.
Dispatch(c) ==
    IF c.command = "unknown" \/ ~c.valid THEN Failure(ErrorFromException("ValueError"))
    ELSE RequireGithub(IF c.command = "review_pull_request" THEN StartReview(c.outcome)
                       ELSE ExistingReview(c.id))

-----------------------------------------------------------------------------
(* Lines of a session. *)

Quiet == [raised |-> "none", findings |-> {}]
Calls ==
    {[command |-> "review_pull_request", id |-> 0, valid |-> TRUE, outcome |-> o] : o \in ReviewOutcomes}
      \cup {[command |-> k, id |-> i, valid |-> TRUE, outcome |-> Quiet] :
              k \in Commands \ {"review_pull_request"}, i \in 1..(MaxReviews + 1)}
      \cup {[command |-> k, id |-> 0, valid |-> FALSE, outcome |-> Quiet] : k \in Commands}
Forms == {"not_json", "not_object", "list", "unknown_method", "bad_params", "no_data", "call"}

RpcError(code) == [kind |-> "rpc_error", code |-> code]
Listing == [kind |-> "listing"]
Result(c, answer) == [kind |-> "result", asked |-> c, answer |-> answer]

\* The loop answers a line it cannot read and goes on.
StdioReply(form, handled) ==
    CASE form = "not_json" -> RpcError("parse_error")
      [] form = "not_object" -> RpcError("invalid_request")
      [] OTHER -> handled

McpReply(form, c) ==
    CASE form = "list" -> Listing
      [] form = "call" -> Result(c, Dispatch(c))
      [] OTHER -> RpcError("invalid_params")

AcpReply(form, c) ==
    CASE form = "list" -> Listing
      [] form = "call" -> Result(c, Dispatch(c))
      [] OTHER -> RpcError("invalid_request")

\* A task carries the review's id when the result is a review.
Task(c, answer) ==
    [kind |-> "task", asked |-> c, answer |-> answer,
     state |-> CASE answer.status = "ok" -> "completed"
                 [] answer.status = "refused" -> "rejected"
                 [] OTHER -> "failed"]

\* A message without a readable data part is a failed task, not an RPC error.
A2aReply(form, c) ==
    CASE form = "list" -> Listing
      [] form = "call" -> Task(c, Dispatch(c))
      [] form = "no_data" -> Task(c, Failure(ErrorFromException("ValueError")))
      [] form = "bad_params" -> RpcError("invalid_params")
      [] OTHER -> RpcError("method_not_found")

IsReview(reply) ==
    reply.kind \in {"result", "task", "exit"} /\ reply.answer.status = "ok" /\ reply.answer.id # 0

\* The backend keeps the review it made, and the client is told of it.
Answer(reply) ==
    /\ agReply' = reply
    /\ agReviews' = IF IsReview(reply) THEN Append(agReviews, reply.asked.outcome.findings) ELSE agReviews
    /\ agTold' = IF IsReview(reply)
                 THEN [id \in DOMAIN agTold \cup {reply.answer.id} |->
                         IF id = reply.answer.id THEN reply.answer.findings ELSE agTold[id]]
                 ELSE agTold
    /\ UNCHANGED agEnv

ServeLine(form, c) ==
    /\ agSurface \in Servers
    /\ Len(agReviews) < MaxReviews \/ c.command # "review_pull_request"
    /\ Answer(StdioReply(form, CASE agSurface = "mcp" -> McpReply(form, c)
                                 [] agSurface = "acp" -> AcpReply(form, c)
                                 [] OTHER -> A2aReply(form, c)))
    /\ UNCHANGED agSurface

\* End of input.
CloseInput ==
    /\ agSurface \in Servers
    /\ agSurface' = "ended" /\ UNCHANGED <<agEnv, agReviews, agReply, agTold>>

-----------------------------------------------------------------------------
(* One-shot commands. *)

Exit(c, code, answer) == [kind |-> "exit", asked |-> c, code |-> code, answer |-> answer]

\* `reviewer review owner/repo#pr`, whose reference may not parse.
ReviewMain(c) ==
    /\ agSurface = "review" /\ c.command = "review_pull_request"
    /\ LET answer == IF c.valid THEN Dispatch(c) ELSE Failure(ErrorFromException("ValueError"))
       IN  Answer(Exit(c, CASE answer.status = "refused" -> 2
                             [] answer.status = "error" -> 3
                             [] OTHER -> IF answer.findings = {} THEN 0 ELSE 1, answer))
    /\ agSurface' = "ended"

JsonCliMain(c) ==
    /\ agSurface = "agent-json"
    /\ LET answer == Dispatch(c)
       IN  Answer(Exit(c, CASE answer.status = "refused" -> 2
                             [] answer.status = "error" -> 1
                             [] OTHER -> 0, answer))
    /\ agSurface' = "ended"

AgNext ==
    \/ \E form \in Forms, c \in Calls : ServeLine(form, c)
    \/ CloseInput
    \/ \E c \in Calls : ReviewMain(c) \/ JsonCliMain(c)

AgSpec == AgInit /\ [][AgNext]_agVars

-----------------------------------------------------------------------------
(* Properties. *)

\* Over a whole session, in every surface: findings listed for a review are the
\* ones the client was given when it was made, whatever was asked in between; a
\* review the client was told of is never unknown later; and no review comes
\* from a process without a GitHub token and a model key
\* (LiveAgentReviewBackend, agent_surfaces/backend.py).
ListedAsReviewed ==
    /\ agReply.kind \in {"result", "task", "exit"} =>
         LET c == agReply.asked IN
         c.command \in {"list_findings", "list_remediation_prompts"} =>
             /\ agReply.answer.status = "ok" => agReply.answer.findings = agTold[c.id]
             /\ agReply.answer.code = "unknown_review" => c.id \notin DOMAIN agTold
    /\ DOMAIN agTold # {} => agEnv.github /\ agEnv.key
=============================================================================
