------------------------------ MODULE Newsroom ------------------------------
(***************************************************************************)
(* autonomy/social/NewsroomAgency.ts with the parts of WonderlandNetwork   *)
(* that feed it and publish for it: one citizen's newsroom from a stimulus *)
(* to a post, and the queue of posts that wait for the owner's approval.   *)
(* Stimuli overlap, each awaits its model calls.  A stimulus makes at most *)
(* one post, so a post goes by its stimulus.  What the observer, the reply *)
(* gate and the writer decide is data and left open.                       *)
(***************************************************************************)
EXTENDS Naturals, FiniteSets

CONSTANTS Stimuli, maxPostsPerHour

ASSUME NewsroomAssumption == maxPostsPerHour \in Nat \ {0} /\ IsFiniteSet(Stimuli)

VARIABLES
    requireApproval,    \* the newsroom's configuration
    open,               \* the network runs
    hourOver,           \* the clock is past rateLimitResetTime
    postsThisHour,
    reaction,           \* how far each stimulus is
    pendingApprovals,   \* the posts in the approval queue
    decision,           \* what became of the queue entry of each post
    posts,              \* the network's posts
    handled,            \* how often the network counted each post: the author's
                        \* totalPosts, XP and audit entries
    peak                \* the most drafts there were at a time (history)

newsroomVars == <<requireApproval, open, hourOver, postsThisHour, reaction,
                  pendingApprovals, decision, posts, handled, peak>>

NewsroomInit ==
    /\ requireApproval \in BOOLEAN
    /\ open = FALSE /\ hourOver = FALSE /\ postsThisHour = 0
    /\ reaction = [s \in Stimuli |-> "none"]
    /\ pendingApprovals = {}
    /\ decision = [s \in Stimuli |-> "none"]
    /\ posts = {}
    /\ handled = [s \in Stimuli |-> 0]
    /\ peak = 0

-----------------------------------------------------------------------------
(* Admitted and not yet handed to the publisher.                           *)
Drafts == {s \in Stimuli : reaction[s] \in {"gate", "writing"}}

Reacts(s, to) == reaction' = [reaction EXCEPT ![s] = to]

(* handlePostPublished, up to its await of the store callback.             *)
HandlePostPublished(s) ==
    /\ posts' = posts \cup {s}
    /\ handled' = [handled EXCEPT ![s] = @ + 1]

NotHandled == UNCHANGED <<posts, handled>>

-----------------------------------------------------------------------------
StartNetwork ==
    /\ open' = TRUE
    /\ UNCHANGED <<requireApproval, hourOver, postsThisHour, reaction, pendingApprovals, decision, peak>>
    /\ NotHandled

(* Drafts and approvals go on in a stopped network.                        *)
StopNetwork ==
    /\ open' = FALSE
    /\ UNCHANGED <<requireApproval, hourOver, postsThisHour, reaction, pendingApprovals, decision, peak>>
    /\ NotHandled

HourPasses ==
    /\ hourOver' = TRUE
    /\ UNCHANGED <<requireApproval, open, postsThisHour, reaction, pendingApprovals, decision, peak>>
    /\ NotHandled

(* A stopped network drops the stimulus; else its mood is applied first.   *)
StimulusArrives(s) ==
    /\ reaction[s] = "none"
    /\ Reacts(s, IF open THEN "mood" ELSE "dropped")
    /\ UNCHANGED <<requireApproval, open, hourOver, postsThisHour, pendingApprovals, decision, peak>>
    /\ NotHandled

(* What checkRateLimit leaves in postsThisHour.                            *)
CountNow == IF hourOver THEN 0 ELSE postsThisHour

(* Mutant: the limit itself still passes.                                  *)
ProcessStimulusAtLimit(s) ==
    /\ reaction[s] = "mood"
    /\ postsThisHour' = CountNow /\ hourOver' = FALSE
    /\ \/ CountNow <= maxPostsPerHour /\ \E to \in {"gate", "writing"} : Reacts(s, to)
       \/ Reacts(s, "dropped")
    /\ peak' = IF Cardinality(Drafts') > peak THEN Cardinality(Drafts') ELSE peak
    /\ UNCHANGED <<requireApproval, open, pendingApprovals, decision>> /\ NotHandled

(* The rate limit, then the observer; a reply to another agent goes        *)
(* through the gate when there is a model.                                 *)
ProcessStimulus(s) ==
    /\ reaction[s] = "mood"
    /\ postsThisHour' = CountNow /\ hourOver' = FALSE
    /\ \/ CountNow < maxPostsPerHour /\ \E to \in {"gate", "writing"} : Reacts(s, to)
       \/ Reacts(s, "dropped")
    /\ peak' = IF Cardinality(Drafts') > peak THEN Cardinality(Drafts') ELSE peak
    /\ UNCHANGED <<requireApproval, open, pendingApprovals, decision>> /\ NotHandled

(* A gate that fails lets the reply through.                               *)
ReplyGateAnswers(s) ==
    /\ reaction[s] = "gate"
    /\ \E to \in {"writing", "dropped"} : Reacts(s, to)
    /\ UNCHANGED <<requireApproval, open, hourOver, postsThisHour, pendingApprovals, decision, peak>>
    /\ NotHandled

(* No text, a placeholder, or a failed model or tool call.                 *)
WriterGivesNothing(s) ==
    /\ reaction[s] = "writing"
    /\ Reacts(s, "dropped")
    /\ UNCHANGED <<requireApproval, open, hourOver, postsThisHour, pendingApprovals, decision, peak>>
    /\ NotHandled

(* publisherPhase without approval: counted first, then the callbacks.     *)
PublishPost(s) ==
    /\ reaction[s] = "writing" /\ ~requireApproval
    /\ postsThisHour' = postsThisHour + 1
    /\ HandlePostPublished(s)
    /\ Reacts(s, "publishing")
    /\ UNCHANGED <<requireApproval, open, hourOver, pendingApprovals, decision, peak>>

(* publisherPhase with approval: an entry, then the owner is asked.        *)
QueuePost(s) ==
    /\ reaction[s] = "writing" /\ requireApproval
    /\ pendingApprovals' = pendingApprovals \cup {s}
    /\ Reacts(s, "asking")
    /\ UNCHANGED <<requireApproval, open, hourOver, postsThisHour, decision, peak>> /\ NotHandled

(* The callbacks are through, whether they failed or not.                  *)
CallbacksReturn(s) ==
    /\ reaction[s] \in {"publishing", "asking"}
    /\ Reacts(s, "done")
    /\ UNCHANGED <<requireApproval, open, hourOver, postsThisHour, pendingApprovals, decision, peak>>
    /\ NotHandled

-----------------------------------------------------------------------------
(* The owner's decisions.  A call for an entry that is gone does nothing.  *)

(* Mutant: the entry is taken out of the queue at the end.                 *)
ApprovePostKeepsEntry(s) ==
    /\ s \in pendingApprovals
    /\ decision' = [decision EXCEPT ![s] = "publishing"]
    /\ HandlePostPublished(s)
    /\ UNCHANGED <<requireApproval, open, hourOver, postsThisHour, pendingApprovals, reaction, peak>>

ApprovePost(s) ==
    /\ s \in pendingApprovals
    /\ pendingApprovals' = pendingApprovals \ {s}
    /\ decision' = [decision EXCEPT ![s] = "publishing"]
    /\ HandlePostPublished(s)
    /\ UNCHANGED <<requireApproval, open, hourOver, postsThisHour, reaction, peak>>

(* The newsroom's callbacks are through: the post counts, with no look at  *)
(* the limit, and the network hands the post on once more.                 *)
ApprovedPostCounts(s) ==
    /\ decision[s] = "publishing"
    /\ decision' = [decision EXCEPT ![s] = "counted"]
    /\ postsThisHour' = postsThisHour + 1
    /\ HandlePostPublished(s)
    /\ UNCHANGED <<requireApproval, open, hourOver, pendingApprovals, reaction, peak>>

ApprovalReturns(s) ==
    /\ decision[s] = "counted"
    /\ decision' = [decision EXCEPT ![s] = "approved"]
    /\ UNCHANGED <<requireApproval, open, hourOver, postsThisHour, pendingApprovals, reaction, peak>>
    /\ NotHandled

RejectPost(s) ==
    /\ s \in pendingApprovals
    /\ pendingApprovals' = pendingApprovals \ {s}
    /\ decision' = [decision EXCEPT ![s] = "rejected"]
    /\ UNCHANGED <<requireApproval, open, hourOver, postsThisHour, reaction, peak>> /\ NotHandled

NewsroomNext ==
    \/ StartNetwork \/ StopNetwork \/ HourPasses
    \/ \E s \in Stimuli :
        \/ StimulusArrives(s) \/ ProcessStimulus(s) \/ ReplyGateAnswers(s)
        \/ WriterGivesNothing(s) \/ PublishPost(s) \/ QueuePost(s) \/ CallbacksReturn(s)
        \/ ApprovePost(s) \/ ApprovedPostCounts(s) \/ ApprovalReturns(s) \/ RejectPost(s)

NewsroomSpec == NewsroomInit /\ [][NewsroomNext]_newsroomVars

-----------------------------------------------------------------------------
Reactions == {"none", "mood", "gate", "writing", "publishing", "asking", "done", "dropped"}
Decisions == {"none", "publishing", "counted", "approved", "rejected"}

NewsroomTypeOK ==
    /\ requireApproval \in BOOLEAN /\ open \in BOOLEAN /\ hourOver \in BOOLEAN
    /\ postsThisHour \in Nat /\ peak \in Nat
    /\ reaction \in [Stimuli -> Reactions]
    /\ pendingApprovals \subseteq Stimuli /\ posts \subseteq Stimuli
    /\ decision \in [Stimuli -> Decisions]
    /\ handled \in [Stimuli -> Nat]

(* A post in the queue was drafted for approval and nobody has decided on  *)
(* it: none is decided twice.  Whether an undecided one may leave the      *)
(* queue is left open: it has a timeoutMs, which nothing in src reads.     *)
QueueIsUndecided ==
    \A s \in pendingApprovals :
        requireApproval /\ reaction[s] \in {"asking", "done"} /\ decision[s] = "none"

(* Published without approval, or approved.                                *)
Published(s) ==
    \/ ~requireApproval /\ reaction[s] \in {"publishing", "done"}
    \/ decision[s] \in {"publishing", "counted", "approved"}

(* The network shows and counts a post only when it was published: nothing *)
(* of one that was rejected or still waits, and once what needed no        *)
(* approval.  Of an approved one it says only that it is counted.          *)
CountedWhenPublished ==
    \A s \in Stimuli :
        /\ s \in posts <=> Published(s)
        /\ handled[s] > 0 <=> Published(s)
        /\ ~requireApproval => handled[s] <= 1

(* The limit is read when a stimulus comes and counted when its post is    *)
(* published, model calls later: an hour without approvals has at most the *)
(* limit and one post more for each draft that overlapped another.         *)
HourlyPostLimit ==
    ~requireApproval => postsThisHour + 1 <= maxPostsPerHour + (IF peak = 0 THEN 1 ELSE peak)

(* The approval queue decides each post once, and the network counts and   *)
(* shows what was published or approved and nothing else, whatever calls   *)
(* of approvePost, rejectPost and processStimulus overlap; and overlapping *)
(* drafts pass the hourly limit by no more than their number.              *)
NewsroomInv == NewsroomTypeOK /\ QueueIsUndecided /\ CountedWhenPublished /\ HourlyPostLimit
=============================================================================
