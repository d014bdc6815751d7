---------------------------- MODULE ReviewOutput ----------------------------
(***************************************************************************)
(* What leaves the runner: the gate decides where a finding goes           *)
(* (notifications/gate.py), a review is posted to GitHub                   *)
(* (github/post_review.py) and notifications are sent                      *)
(* (notifications/dispatch.py).                                            *)
(*                                                                         *)
(* One poster works at a time and is started again after it failed or      *)
(* crashed.  A submission that times out was accepted, is lost, or is      *)
(* accepted later on.  A send that raised may have been delivered.         *)
(***************************************************************************)
EXTENDS Naturals, FiniteSets

CONSTANTS OutHeads, OutChannels, RestrictedChannels, MaxTries

ASSUME OutputAssumption ==
    /\ RestrictedChannels \subseteq OutChannels
    /\ MaxTries \in Nat \ {0}

VARIABLES
    finding, policy,       \* The finding and the repository's policy.
    live, posts,           \* GitHub: the live head, reviews per head,
    onWire, late,          \* submissions under way, and how many came late.
    poster, recordedPosts, \* The call in progress; posts in the local store.
    revokedChannels, sender, seen, sent, unsure, tries

githubVars == <<live, posts, onWire, late>>
posterVars == <<poster, recordedPosts>>
sendVars == <<revokedChannels, sender, seen, sent, unsure>>
outVars == <<finding, policy, githubVars, posterVars, sendVars, tries>>

Findings ==
    [security : BOOLEAN, publicSafe : BOOLEAN, critical : BOOLEAN, verified : BOOLEAN,
     rejected : BOOLEAN, sensitive : BOOLEAN, inconclusive : BOOLEAN, onChangedLine : BOOLEAN]

Waiting == [stage |-> "idle"]
Posting(stage) == poster.stage = stage

-----------------------------------------------------------------------------
\* The gate.

PrivateFault(f) == f.security /\ ~f.publicSafe /\ f.critical

Private(f) == f.security /\ (~f.publicSafe \/ f.critical)

\* Sensitive stands for a path with structural flags, many fixes or many callers.
RouteFinding(f) ==
    LET allow == policy.autoPost /\ policy.publicPosting /\ f.verified /\ f.publicSafe
                 /\ ~Private(f) /\ ~f.sensitive /\ ~f.inconclusive
    IN [allowPublicPost |-> allow,
        queueForHuman |-> ~allow,
        confidentiality |-> IF Private(f) THEN "restricted" ELSE "ordinary",
        notifyPurpose |-> IF Private(f) THEN "security_alert" ELSE "none"]

IsPublic(f, decision) ==
    ~f.rejected /\ decision.confidentiality # "restricted" /\ decision.allowPublicPost

-----------------------------------------------------------------------------
\* Posting.

\* A lookup that forgets to search GitHub for the marker.
ExistingFault(head) == head \in recordedPosts

\* The local record, or the marker in a review that is on GitHub.
Existing(head) == head \in recordedPosts \/ posts[head] > 0

\* Found, nothing public, or a stale head: the call ends. Otherwise it submits.
PostReview(head) ==
    /\ Posting("idle") /\ tries < MaxTries
    /\ tries' = tries + 1
    /\ poster' = IF ~Existing(head) /\ IsPublic(finding, RouteFinding(finding)) /\ head = live
                 THEN [stage |-> "submitting", head |-> head]
                 ELSE Waiting
    /\ UNCHANGED <<finding, policy, githubVars, recordedPosts, sendVars>>

\* A comment on a changed line, or the summary alone.
Anchored(f) == f.onChangedLine

Submit(result) ==
    /\ Posting("submitting")
    /\ posts' = IF result \in {"accepted", "accepted_unanswered"}
                THEN [posts EXCEPT ![poster.head] = @ + 1] ELSE posts
    /\ onWire' = IF result = "late" THEN [onWire EXCEPT ![poster.head] = @ + 1] ELSE onWire
    /\ poster' = IF result = "accepted"
                 THEN [stage |-> "posted", head |-> poster.head, inline |-> Anchored(finding)]
                 ELSE [stage |-> "timed_out", head |-> poster.head]
    /\ UNCHANGED <<finding, policy, live, late, recordedPosts, sendVars, tries>>

\* After a timeout the marker is looked for once more; without it the error is raised.
RecoverPost ==
    /\ Posting("timed_out")
    /\ poster' = IF Existing(poster.head)
                 THEN [stage |-> "posted", head |-> poster.head, inline |-> Anchored(finding)]
                 ELSE Waiting
    /\ UNCHANGED <<finding, policy, githubVars, recordedPosts, sendVars, tries>>

RecordPost ==
    /\ Posting("posted")
    /\ recordedPosts' = recordedPosts \union {poster.head}
    /\ poster' = Waiting
    /\ UNCHANGED <<finding, policy, githubVars, sendVars, tries>>

CrashPoster ==
    /\ ~Posting("idle")
    /\ poster' = Waiting
    /\ UNCHANGED <<finding, policy, githubVars, recordedPosts, sendVars, tries>>

PushHead(head) ==
    /\ live # head
    /\ live' = head
    /\ UNCHANGED <<finding, policy, posts, onWire, late, posterVars, sendVars, tries>>

AcceptLate(head) ==
    /\ onWire[head] > 0
    /\ onWire' = [onWire EXCEPT ![head] = @ - 1]
    /\ posts' = [posts EXCEPT ![head] = @ + 1]
    /\ late' = [late EXCEPT ![head] = @ + 1]
    /\ UNCHANGED <<finding, policy, live, posterVars, sendVars, tries>>

-----------------------------------------------------------------------------
\* Notifications.

\* Restricted content is refused outright when one channel is ordinary.
Refused(channels) ==
    /\ RouteFinding(finding).confidentiality = "restricted"
    /\ ~(channels \subseteq RestrictedChannels)

\* A fan-out over the channels the caller loaded, with the keys it remembers.
DispatchNotifications(channels) ==
    /\ sender.pending = {} /\ channels # {} /\ ~Refused(channels)
    /\ tries < MaxTries
    /\ tries' = tries + 1
    /\ sender' = [pending |-> channels, revoked |-> revokedChannels]
    /\ UNCHANGED <<finding, policy, githubVars, posterVars, revokedChannels, seen, sent, unsure>>

Remembers(result) == result = "ok"

SendTo(channel, result) ==
    /\ channel \in sender.pending
    /\ sender' = [sender EXCEPT !.pending = @ \ {channel}]
    /\ IF channel \in sender.revoked \/ channel \in seen
       THEN UNCHANGED <<seen, sent, unsure>>
       ELSE /\ sent' = [sent EXCEPT ![channel] =
                            @ + (IF result \in {"ok", "raised_after_delivery"} THEN 1 ELSE 0)]
            /\ unsure' = IF result = "raised_after_delivery"
                         THEN [unsure EXCEPT ![channel] = @ + 1] ELSE unsure
            /\ seen' = IF Remembers(result) THEN seen \union {channel} ELSE seen
    /\ UNCHANGED <<finding, policy, githubVars, posterVars, revokedChannels, tries>>

RevokeChannel(channel) ==
    /\ channel \notin revokedChannels
    /\ revokedChannels' = revokedChannels \union {channel}
    /\ UNCHANGED <<finding, policy, githubVars, posterVars, sender, seen, sent, unsure, tries>>

-----------------------------------------------------------------------------
OutInit ==
    /\ finding \in Findings
    /\ policy \in [autoPost : BOOLEAN, publicPosting : BOOLEAN]
    /\ live \in OutHeads /\ posts = [h \in OutHeads |-> 0]
    /\ onWire = [h \in OutHeads |-> 0] /\ late = [h \in OutHeads |-> 0]
    /\ poster = Waiting /\ recordedPosts = {}
    /\ revokedChannels = {} /\ seen = {}
    /\ sender = [pending |-> {}, revoked |-> {}]
    /\ sent = [c \in OutChannels |-> 0] /\ unsure = [c \in OutChannels |-> 0]
    /\ tries = 0

Results == {"accepted", "accepted_unanswered", "lost", "late"}

PostNext ==
    \/ \E h \in OutHeads : PostReview(h) \/ PushHead(h) \/ AcceptLate(h)
    \/ \E r \in Results : Submit(r)
    \/ RecoverPost \/ RecordPost \/ CrashPoster

SendNext ==
    \/ \E channels \in SUBSET OutChannels : DispatchNotifications(channels)
    \/ \E c \in OutChannels :
           \/ RevokeChannel(c)
           \/ \E r \in {"ok", "failed", "raised_after_delivery"} : SendTo(c, r)

\* Both at once: the poster and the sender of one finding run beside each other.
OutSpec == OutInit /\ [][PostNext \/ SendNext]_outVars

-----------------------------------------------------------------------------
\* One review per head is on GitHub and one notification in each channel, through
\* time-outs, crashes before the post was recorded and retries. The only repeats are
\* a submission GitHub accepted after the poster had looked for it in vain, and a send
\* that raised after it was delivered.
OncePerKey ==
    /\ \A h \in OutHeads :
           posts[h] <= 1 + late[h] /\ (h \in recordedPosts => posts[h] > 0)
    /\ \A c \in OutChannels : sent[c] = unsure[c] + (IF c \in seen THEN 1 ELSE 0)

\* A security finding that is critical or not safe to publish is in no review and in
\* no ordinary channel, and nothing unverified is in a review.
PrivateStaysPrivate ==
    LET secret == finding.security /\ (finding.critical \/ ~finding.publicSafe)
    IN /\ (\E h \in OutHeads : posts[h] > 0) => ~secret /\ finding.verified
       /\ secret => \A c \in OutChannels \ RestrictedChannels : sent[c] = 0
=============================================================================
