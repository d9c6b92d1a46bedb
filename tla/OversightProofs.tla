-------------------------- MODULE OversightProofs ---------------------------
(***************************************************************************)
(* Proofs about the places where what an agent does is held to somebody's  *)
(* limits: the newsroom and its approvals, step-up authorization, the      *)
(* pairing of unknown senders, the browsing sessions with their budgets,   *)
(* and the turns of a conversation with their prompts and folder grants.   *)
(* Each invariant is strengthened until it is inductive, each action is a  *)
(* lemma, and the last step of each theorem is temporal.                   *)
(***************************************************************************)
EXTENDS Newsroom, Authorization, Pairing, Browsing, ToolTurn, TLAPS, FiniteSetTheorems

-----------------------------------------------------------------------------
(* The newsroom.                                                           *)

(* The strengthening of NewsroomInv.  A post is asked about or published   *)
(* according to the configuration, decided only after it was queued, and   *)
(* without approvals what is published or drafted stays below the limit    *)
(* and the most drafts there were.                                         *)
DecidedAfterQueued ==
    \A s \in Stimuli :
        /\ reaction[s] = "asking" => requireApproval
        /\ reaction[s] = "publishing" => ~requireApproval
        /\ decision[s] # "none" => requireApproval /\ reaction[s] \in {"asking", "done"}

DraftsCounted == Cardinality(Drafts) <= peak

PostsAndDraftsBounded ==
    ~requireApproval =>
        postsThisHour + Cardinality(Drafts) + 1 <= maxPostsPerHour + (IF peak = 0 THEN 1 ELSE peak)

NewsroomInd ==
    /\ NewsroomTypeOK /\ QueueIsUndecided /\ CountedWhenPublished
    /\ DecidedAfterQueued /\ DraftsCounted /\ PostsAndDraftsBounded

LEMMA NewsroomHolds == NewsroomInd => NewsroomInv
<1> SUFFICES ASSUME NewsroomInd PROVE HourlyPostLimit
    BY DEF NewsroomInd, NewsroomInv
<1>1. IsFiniteSet(Drafts)
    BY FS_Subset, NewsroomAssumption DEF Drafts
<1>2. Cardinality(Drafts) \in Nat
    BY <1>1, FS_CardinalityType
<1> QED
    BY <1>2, NewsroomAssumption DEF NewsroomInd, NewsroomTypeOK, PostsAndDraftsBounded, HourlyPostLimit

(* How many drafts there are when a reaction moves on.                     *)
LEMMA DraftsFinite == IsFiniteSet(Drafts) /\ Cardinality(Drafts) \in Nat
<1>1. IsFiniteSet(Drafts)
    BY FS_Subset, NewsroomAssumption DEF Drafts
<1> QED
    BY <1>1, FS_CardinalityType

LEMMA DraftsKept ==
    ASSUME NewsroomTypeOK, NEW s \in Stimuli, NEW to, Reacts(s, to),
           reaction[s] \in {"gate", "writing"} <=> to \in {"gate", "writing"}
    PROVE  Drafts' = Drafts
BY DEF NewsroomTypeOK, Reacts, Drafts

LEMMA DraftEnds ==
    ASSUME NewsroomTypeOK, NEW s \in Stimuli, NEW to, Reacts(s, to),
           reaction[s] \in {"gate", "writing"}, to \notin {"gate", "writing"}
    PROVE  Cardinality(Drafts') = Cardinality(Drafts) - 1
<1>1. s \in Drafts /\ Drafts' = Drafts \ {s}
    BY DEF NewsroomTypeOK, Reacts, Drafts
<1> QED
    BY <1>1, DraftsFinite, FS_RemoveElement

LEMMA DraftBegins ==
    ASSUME NewsroomTypeOK, NEW s \in Stimuli, NEW to, Reacts(s, to),
           reaction[s] \notin {"gate", "writing"}, to \in {"gate", "writing"}
    PROVE  Cardinality(Drafts') = Cardinality(Drafts) + 1
<1>1. s \notin Drafts /\ Drafts' = Drafts \cup {s}
    BY DEF NewsroomTypeOK, Reacts, Drafts
<1> QED
    BY <1>1, DraftsFinite, FS_AddElement

(* Whether a post is published depends on its reaction and decision.       *)
LEMMA CountedAsBefore ==
    ASSUME NewsroomTypeOK, CountedWhenPublished,
           UNCHANGED <<requireApproval, decision, posts, handled>>,
           NEW s \in Stimuli, NEW to, Reacts(s, to),
           ~requireApproval => (reaction[s] \in {"publishing", "done"} <=> to \in {"publishing", "done"})
    PROVE  CountedWhenPublished'
<1> SUFFICES ASSUME NEW t \in Stimuli PROVE Published(t)' <=> Published(t)
    BY DEF CountedWhenPublished
<1>1. t # s => reaction'[t] = reaction[t]
    BY DEF NewsroomTypeOK, Reacts
<1>2. t = s => reaction'[t] = to
    BY DEF NewsroomTypeOK, Reacts
<1> QED
    BY <1>1, <1>2 DEF Published

-----------------------------------------------------------------------------
LEMMA NewsroomInitial == NewsroomInit => NewsroomInd
<1> SUFFICES ASSUME NewsroomInit PROVE NewsroomInd
    OBVIOUS
<1>1. Drafts = {}
    BY DEF NewsroomInit, Drafts
<1>2. Cardinality(Drafts) = 0
    BY <1>1, FS_EmptySet
<1>3. NewsroomTypeOK /\ QueueIsUndecided /\ DecidedAfterQueued
    BY DEF NewsroomInit, NewsroomTypeOK, QueueIsUndecided, DecidedAfterQueued, Reactions, Decisions
<1>4. CountedWhenPublished
    BY DEF NewsroomInit, CountedWhenPublished, Published
<1>5. DraftsCounted /\ PostsAndDraftsBounded
    BY <1>2, NewsroomAssumption DEF NewsroomInit, DraftsCounted, PostsAndDraftsBounded
<1> QED
    BY <1>3, <1>4, <1>5 DEF NewsroomInd

LEMMA NewsroomStep ==
    ASSUME NewsroomInd, [NewsroomNext]_newsroomVars
    PROVE  NewsroomInd'
<1> USE NewsroomAssumption DEF NewsroomInd
<1>0. Cardinality(Drafts) \in Nat /\ Cardinality(Drafts)' \in Nat
    <2>1. IsFiniteSet(Drafts) /\ IsFiniteSet(Drafts')
        BY FS_Subset DEF Drafts
    <2> QED
        BY <2>1, FS_CardinalityType
<1>a. ASSUME UNCHANGED reaction PROVE Drafts' = Drafts
    BY <1>a DEF Drafts
<1>1. ASSUME \/ StartNetwork \/ StopNetwork \/ HourPasses \/ UNCHANGED newsroomVars
      PROVE  NewsroomInd'
    <2> USE DEF StartNetwork, StopNetwork, HourPasses, NotHandled, newsroomVars
    <2>1. UNCHANGED <<requireApproval, postsThisHour, reaction, pendingApprovals, decision, posts, handled, peak>>
        BY <1>1
    <2>2. NewsroomTypeOK'
        BY <1>1 DEF NewsroomTypeOK
    <2>3. QueueIsUndecided' /\ CountedWhenPublished' /\ DecidedAfterQueued'
        BY <2>1 DEF QueueIsUndecided, CountedWhenPublished, Published, DecidedAfterQueued
    <2>4. DraftsCounted' /\ PostsAndDraftsBounded'
        BY <2>1, <1>a DEF DraftsCounted, PostsAndDraftsBounded
    <2> QED
        BY <2>2, <2>3, <2>4
<1>2. ASSUME NEW s \in Stimuli, StimulusArrives(s)
      PROVE  NewsroomInd'
    <2> DEFINE to == IF open THEN "mood" ELSE "dropped"
    <2> USE <1>2 DEF StimulusArrives, NotHandled
    <2>1. NewsroomTypeOK'
        BY DEF NewsroomTypeOK, Reacts, Reactions
    <2>2. QueueIsUndecided' /\ DecidedAfterQueued'
        BY DEF QueueIsUndecided, DecidedAfterQueued, Reacts, NewsroomTypeOK
    <2>3. CountedWhenPublished'
        BY CountedAsBefore
    <2>4. Drafts' = Drafts
        BY DraftsKept
    <2>5. DraftsCounted' /\ PostsAndDraftsBounded'
        BY <2>4 DEF DraftsCounted, PostsAndDraftsBounded
    <2> QED
        BY <2>1, <2>2, <2>3, <2>5
<1>3. ASSUME NEW s \in Stimuli, ProcessStimulus(s)
      PROVE  NewsroomInd'
    <2> USE <1>3 DEF ProcessStimulus, NotHandled
    <2>0. PICK to \in {"gate", "writing", "dropped"} :
             Reacts(s, to) /\ (to # "dropped" => CountNow < maxPostsPerHour)
        OBVIOUS
    <2>1. CountNow \in Nat /\ CountNow <= postsThisHour
        BY DEF CountNow, NewsroomTypeOK
    <2>2. /\ peak' \in Nat /\ peak' >= peak /\ peak' >= Cardinality(Drafts)'
          /\ peak' \in {peak, Cardinality(Drafts)'}
        BY <1>0 DEF NewsroomTypeOK
    <2>3. NewsroomTypeOK'
        BY <2>0, <2>1, <2>2 DEF NewsroomTypeOK, Reacts, Reactions
    <2>4. QueueIsUndecided' /\ DecidedAfterQueued'
        BY <2>0 DEF QueueIsUndecided, DecidedAfterQueued, Reacts, NewsroomTypeOK
    <2>5. CountedWhenPublished'
        BY <2>0, CountedAsBefore
    <2>6. CASE to = "dropped"
        <3>1. Drafts' = Drafts
            BY <2>0, <2>6, DraftsKept
        <3>2. DraftsCounted' /\ PostsAndDraftsBounded'
            BY <1>0, <2>1, <2>2, <3>1 DEF DraftsCounted, PostsAndDraftsBounded, NewsroomTypeOK
        <3> QED
            BY <2>3, <2>4, <2>5, <3>2
    <2>7. CASE to # "dropped"
        <3>1. Cardinality(Drafts') = Cardinality(Drafts) + 1
            BY <2>0, <2>7, DraftBegins
        <3>2. DraftsCounted' /\ PostsAndDraftsBounded'
            BY <1>0, <2>0, <2>1, <2>2, <2>7, <3>1 DEF DraftsCounted, PostsAndDraftsBounded, NewsroomTypeOK
        <3> QED
            BY <2>3, <2>4, <2>5, <3>2
    <2> QED
        BY <2>6, <2>7
<1>4. ASSUME NEW s \in Stimuli, ReplyGateAnswers(s) \/ WriterGivesNothing(s)
      PROVE  NewsroomInd'
    <2> USE <1>4 DEF ReplyGateAnswers, WriterGivesNothing, NotHandled
    <2>0. PICK to \in {"writing", "dropped"} : Reacts(s, to)
        OBVIOUS
    <2>1. NewsroomTypeOK'
        BY <2>0 DEF NewsroomTypeOK, Reacts, Reactions
    <2>2. QueueIsUndecided' /\ DecidedAfterQueued'
        BY <2>0 DEF QueueIsUndecided, DecidedAfterQueued, Reacts, NewsroomTypeOK
    <2>3. CountedWhenPublished'
        BY <2>0, CountedAsBefore
    <2>4. Cardinality(Drafts') = Cardinality(Drafts) \/ Cardinality(Drafts') = Cardinality(Drafts) - 1
        BY <2>0, DraftsKept, DraftEnds
    <2>5. DraftsCounted' /\ PostsAndDraftsBounded'
        BY <1>0, <2>4 DEF DraftsCounted, PostsAndDraftsBounded, NewsroomTypeOK
    <2> QED
        BY <2>1, <2>2, <2>3, <2>5
<1>5. ASSUME NEW s \in Stimuli, PublishPost(s)
      PROVE  NewsroomInd'
    <2> USE <1>5 DEF PublishPost, HandlePostPublished
    <2>1. NewsroomTypeOK'
        BY DEF NewsroomTypeOK, Reacts, Reactions
    <2>2. QueueIsUndecided' /\ DecidedAfterQueued'
        BY DEF QueueIsUndecided, DecidedAfterQueued, Reacts, NewsroomTypeOK
    <2>3. CountedWhenPublished'
        <3> SUFFICES ASSUME NEW t \in Stimuli PROVE CountedWhenPublished!(t)'
            BY DEF CountedWhenPublished
        <3>1. decision[s] = "none" /\ handled[s] = 0
            BY DEF CountedWhenPublished, Published, DecidedAfterQueued, NewsroomTypeOK
        <3>2. CASE t = s
            BY <3>1, <3>2 DEF CountedWhenPublished, Published, Reacts, NewsroomTypeOK
        <3>3. CASE t # s
            <4>1. reaction'[t] = reaction[t] /\ handled'[t] = handled[t] /\ (t \in posts' <=> t \in posts)
                BY <3>3 DEF Reacts, NewsroomTypeOK
            <4> QED
                BY <4>1 DEF CountedWhenPublished, Published
        <3> QED
            BY <3>2, <3>3
    <2>4. Cardinality(Drafts') = Cardinality(Drafts) - 1
        BY DraftEnds
    <2>5. DraftsCounted' /\ PostsAndDraftsBounded'
        BY <1>0, <2>4 DEF DraftsCounted, PostsAndDraftsBounded, NewsroomTypeOK
    <2> QED
        BY <2>1, <2>2, <2>3, <2>5
<1>6. ASSUME NEW s \in Stimuli, QueuePost(s) \/ CallbacksReturn(s)
      PROVE  NewsroomInd'
    <2> USE <1>6 DEF QueuePost, CallbacksReturn, NotHandled
    <2>0. PICK to \in {"asking", "done"} :
             Reacts(s, to) /\ (to = "asking" <=> reaction[s] = "writing")
        OBVIOUS
    <2>1. NewsroomTypeOK'
        BY <2>0 DEF NewsroomTypeOK, Reacts, Reactions
    <2>2. QueueIsUndecided' /\ DecidedAfterQueued'
        BY <2>0 DEF QueueIsUndecided, DecidedAfterQueued, Reacts, NewsroomTypeOK
    <2>3. CountedWhenPublished'
        BY <2>0, CountedAsBefore DEF DecidedAfterQueued
    <2>4. Cardinality(Drafts') = Cardinality(Drafts) \/ Cardinality(Drafts') = Cardinality(Drafts) - 1
        BY <2>0, DraftsKept, DraftEnds
    <2>5. DraftsCounted' /\ PostsAndDraftsBounded'
        BY <1>0, <2>4 DEF DraftsCounted, PostsAndDraftsBounded, NewsroomTypeOK
    <2> QED
        BY <2>1, <2>2, <2>3, <2>5
<1>7. ASSUME NEW s \in Stimuli,
             ApprovePost(s) \/ ApprovedPostCounts(s) \/ ApprovalReturns(s) \/ RejectPost(s)
      PROVE  NewsroomInd'
    <2> USE <1>7 DEF ApprovePost, ApprovedPostCounts, ApprovalReturns, RejectPost, NotHandled,
                     HandlePostPublished
    <2>0. requireApproval /\ requireApproval'
        BY DEF QueueIsUndecided, DecidedAfterQueued
    <2>1. NewsroomTypeOK'
        BY DEF NewsroomTypeOK, Decisions
    <2>2. QueueIsUndecided'
        BY DEF QueueIsUndecided, DecidedAfterQueued, NewsroomTypeOK
    <2>3. DecidedAfterQueued'
        BY DEF QueueIsUndecided, DecidedAfterQueued, NewsroomTypeOK
    <2>4. CountedWhenPublished'
        <3> SUFFICES ASSUME NEW t \in Stimuli PROVE CountedWhenPublished!(t)'
            BY DEF CountedWhenPublished
        <3>1. CASE t = s
            BY <2>0, <3>1 DEF CountedWhenPublished, Published, QueueIsUndecided, NewsroomTypeOK
        <3>2. CASE t # s
            <4>1. decision'[t] = decision[t] /\ handled'[t] = handled[t] /\ (t \in posts' <=> t \in posts)
                BY <3>2 DEF NewsroomTypeOK
            <4> QED
                BY <2>0, <4>1 DEF CountedWhenPublished, Published
        <3> QED
            BY <3>1, <3>2
    <2>5. Drafts' = Drafts
        BY DEF Drafts
    <2>6. DraftsCounted' /\ PostsAndDraftsBounded'
        BY <2>0, <2>5 DEF DraftsCounted, PostsAndDraftsBounded
    <2> QED
        BY <2>1, <2>2, <2>3, <2>4, <2>6
<1> QED
    BY <1>1, <1>2, <1>3, <1>4, <1>5, <1>6, <1>7 DEF NewsroomNext

(* For any stimuli and hourly limit: the approval queue holds only         *)
(* undecided posts, a post is counted and shown exactly when it was        *)
(* published or approved, and overlapping drafts exceed the limit by no    *)
(* more than their number.                                                 *)
THEOREM ApprovalsDecideOnce == NewsroomSpec => []NewsroomInv
BY NewsroomInitial, NewsroomStep, NewsroomHolds, PTL DEF NewsroomSpec

-----------------------------------------------------------------------------
(* Step-up authorization.                                                  *)

(* The strengthening of AuthorizationInv: a verdict stands only where a    *)
(* reviewer gave one, so what ClearReviewedItems takes away was reviewed.  *)
VerdictsByReviewers == \A r \in Requests : review[r] \in Verdicts => r \in reviewed

AuthInd == AuthorizationInv /\ VerdictsByReviewers

(* The requests that wait, counted before and after a request moves.       *)
LEMMA WaitingFinite == IsFiniteSet(Waiting) /\ Cardinality(Waiting) \in Nat
<1>1. IsFiniteSet(Waiting)
    BY FS_Subset, AuthorizationAssumption DEF Waiting
<1> QED
    BY <1>1, FS_CardinalityType

LEMMA WaitingBegins ==
    ASSUME AuthTypeOK, NEW r \in Requests, NEW e, e.at = "hitl", req[r].at # "hitl",
           req' = [req EXCEPT ![r] = e]
    PROVE  Cardinality(Waiting)' = Cardinality(Waiting) + 1
<1>1. r \notin Waiting /\ Waiting' = Waiting \cup {r}
    BY DEF AuthTypeOK, Waiting
<1> QED
    BY <1>1, WaitingFinite, FS_AddElement

LEMMA WaitingEnds ==
    ASSUME AuthTypeOK, NEW r \in Requests, req[r].at = "hitl", req'[r].at # "hitl",
           req' \in [Requests -> [at : {"new", "hitl", "authorized", "denied"}, tier : Tiers,
                                  said : {"nothing", "yes", "no"}]],
           \A t \in Requests \ {r} : req'[t] = req[t]
    PROVE  Cardinality(Waiting)' = Cardinality(Waiting) - 1
<1>1. r \in Waiting /\ Waiting' = Waiting \ {r}
    BY DEF AuthTypeOK, Waiting
<1> QED
    BY <1>1, WaitingFinite, FS_RemoveElement

LEMMA WaitingSame ==
    ASSUME AuthTypeOK, NEW r \in Requests, NEW e, e.at # "hitl", req[r].at # "hitl",
           req' = [req EXCEPT ![r] = e]
    PROVE  Cardinality(Waiting)' = Cardinality(Waiting)
<1>1. Waiting' = Waiting
    BY DEF AuthTypeOK, Waiting
<1> QED
    BY <1>1

(* The queue of reviews is finite.                                        *)
LEMMA QueueCounted == \A rv : Cardinality(InQueue(rv)) \in Nat
<1> TAKE rv
<1>1. IsFiniteSet(InQueue(rv))
    BY FS_Subset, AuthorizationAssumption DEF InQueue
<1> QED
    BY <1>1, FS_CardinalityType

StatsRecords == [total : Nat, byTier : [Tiers -> Nat], authorized : Nat, denied : Nat,
                  pending : Int, queueSize : Nat]
LEMMA TiersReplaced ==
    ASSUME NEW s \in StatsRecords, NEW b \in [Tiers -> Nat], NEW c, c = [s EXCEPT !.byTier = b]
    PROVE  /\ c \in StatsRecords /\ c.byTier = b
           /\ c.total = s.total /\ c.authorized = s.authorized /\ c.denied = s.denied
           /\ c.pending = s.pending /\ c.queueSize = s.queueSize
BY DEF StatsRecords

LEMMA CountedIs ==
    ASSUME AuthTypeOK, NEW t \in Tiers
    PROVE  /\ Counted(t) \in StatsRecords
           /\ Counted(t).total = stats.total + 1
           /\ Counted(t).byTier = [stats.byTier EXCEPT ![t] = stats.byTier[t] + 1]
           /\ Counted(t).authorized = stats.authorized /\ Counted(t).denied = stats.denied
           /\ Counted(t).pending = stats.pending /\ Counted(t).queueSize = stats.queueSize
<1> DEFINE first == [stats EXCEPT !.total = stats.total + 1]
           tiers == [stats.byTier EXCEPT ![t] = stats.byTier[t] + 1]
<1>1. stats \in StatsRecords
    BY DEF AuthTypeOK, StatsRecords
<1>2. /\ first \in StatsRecords /\ first.total = stats.total + 1 /\ first.byTier = stats.byTier
      /\ first.authorized = stats.authorized /\ first.denied = stats.denied
      /\ first.pending = stats.pending /\ first.queueSize = stats.queueSize
    BY <1>1 DEF StatsRecords
<1>3. tiers \in [Tiers -> Nat]
    BY <1>1 DEF StatsRecords
<1>4. Counted(t) = [first EXCEPT !.byTier = tiers]
    BY <1>2 DEF Counted
<1> HIDE DEF first, tiers
<1>5. /\ Counted(t) \in StatsRecords /\ Counted(t).byTier = tiers
      /\ Counted(t).total = first.total /\ Counted(t).authorized = first.authorized
      /\ Counted(t).denied = first.denied /\ Counted(t).pending = first.pending
      /\ Counted(t).queueSize = first.queueSize
    BY <1>2, <1>3, <1>4, TiersReplaced
<1> QED
    BY <1>2, <1>5 DEF tiers

(* How a verdict changes the statistics, field by field.                   *)
StatsOf(s, a, d, p, q) ==
    [total |-> s.total, byTier |-> s.byTier, authorized |-> a, denied |-> d, pending |-> p, queueSize |-> q]

LEMMA OneFieldChanges ==
    ASSUME NEW s \in StatsRecords, NEW n
    PROVE  /\ [s EXCEPT !.authorized = n] = StatsOf(s, n, s.denied, s.pending, s.queueSize)
           /\ [s EXCEPT !.denied = n] = StatsOf(s, s.authorized, n, s.pending, s.queueSize)
           /\ [s EXCEPT !.pending = n] = StatsOf(s, s.authorized, s.denied, n, s.queueSize)
           /\ [s EXCEPT !.queueSize = n] = StatsOf(s, s.authorized, s.denied, s.pending, n)
BY DEF StatsRecords, StatsOf

LEMMA PendingEnds ==
    ASSUME NEW s \in StatsRecords, NEW m \in Int, NEW n \in Nat
    PROVE  /\ [s EXCEPT !.pending = m, !.authorized = n] = StatsOf(s, n, s.denied, m, s.queueSize)
           /\ [s EXCEPT !.pending = m, !.denied = n] = StatsOf(s, s.authorized, n, m, s.queueSize)
<1> DEFINE p == [s EXCEPT !.pending = m]
<1>1. p = StatsOf(s, s.authorized, s.denied, m, s.queueSize) /\ p \in StatsRecords
    BY OneFieldChanges DEF StatsOf, StatsRecords
<1>2. /\ [s EXCEPT !.pending = m, !.authorized = n] = [p EXCEPT !.authorized = n]
      /\ [s EXCEPT !.pending = m, !.denied = n] = [p EXCEPT !.denied = n]
    OBVIOUS
<1> HIDE DEF p
<1>3. /\ [p EXCEPT !.authorized = n] = StatsOf(p, n, p.denied, p.pending, p.queueSize)
      /\ [p EXCEPT !.denied = n] = StatsOf(p, p.authorized, n, p.pending, p.queueSize)
    BY <1>1, OneFieldChanges
<1> QED
    BY <1>1, <1>2, <1>3 DEF StatsOf

(* The statistics after a request of tier t was counted.                   *)
Tallied(t, a, d, p, q) ==
    [total |-> stats.total + 1, byTier |-> [stats.byTier EXCEPT ![t] = stats.byTier[t] + 1],
     authorized |-> stats.authorized + a, denied |-> stats.denied + d,
     pending |-> stats.pending + p, queueSize |-> q]

LEMMA AutonomousTallied ==
    ASSUME AuthTypeOK, NEW r, Autonomous(r)
    PROVE  stats' = Tallied(1, 1, 0, 0, stats.queueSize)
<1>1. PICK c : c = Counted(1)
    OBVIOUS
<1>2. stats' = [c EXCEPT !.authorized = c.authorized + 1]
    BY <1>1 DEF Autonomous
<1>3. c \in StatsRecords
    BY <1>1, CountedIs DEF Tiers
<1>4. stats' = StatsOf(c, c.authorized + 1, c.denied, c.pending, c.queueSize)
    BY <1>2, <1>3, OneFieldChanges
<1> QED
    BY <1>1, <1>4, CountedIs DEF Tiers, Tallied, StatsOf, AuthTypeOK

LEMMA WithAsyncReviewTallied ==
    ASSUME AuthTypeOK, NEW r, WithAsyncReview(r)
    PROVE  stats' = Tallied(2, 1, 0, 0, Cardinality(InQueue(review')))
<1>1. PICK c : c = Counted(2)
    OBVIOUS
<1>2. PICK q : q = Cardinality(InQueue(review'))
    OBVIOUS
<1>3. stats' = [c EXCEPT !.authorized = c.authorized + 1, !.queueSize = q]
    BY <1>1, <1>2 DEF WithAsyncReview
<1>4. PICK e : e = [c EXCEPT !.authorized = c.authorized + 1]
    OBVIOUS
<1>5. c \in StatsRecords
    BY <1>1, CountedIs DEF Tiers
<1>6. e = StatsOf(c, c.authorized + 1, c.denied, c.pending, c.queueSize)
    BY <1>4, <1>5, OneFieldChanges
<1>7. e \in StatsRecords
    BY <1>5, <1>6 DEF StatsOf, StatsRecords
<1>8. stats' = [e EXCEPT !.queueSize = q]
    BY <1>3, <1>4
<1>9. stats' = StatsOf(e, e.authorized, e.denied, e.pending, q)
    BY <1>7, <1>8, OneFieldChanges
<1> QED
    BY <1>1, <1>2, <1>6, <1>9, CountedIs DEF Tiers, Tallied, StatsOf, AuthTypeOK

LEMMA WithHITLTallied ==
    ASSUME AuthTypeOK, NEW r, WithHITL(r)
    PROVE  stats' = IF config.hitl THEN Tallied(3, 0, 0, 1, stats.queueSize)
                                   ELSE Tallied(3, 0, 1, 0, stats.queueSize)
<1>1. PICK c : c = Counted(3)
    OBVIOUS
<1>2. stats' = IF config.hitl THEN [c EXCEPT !.pending = c.pending + 1]
                              ELSE [c EXCEPT !.denied = c.denied + 1]
    BY <1>1 DEF WithHITL
<1>3. c \in StatsRecords
    BY <1>1, CountedIs DEF Tiers
<1>4. stats' = IF config.hitl THEN StatsOf(c, c.authorized, c.denied, c.pending + 1, c.queueSize)
                              ELSE StatsOf(c, c.authorized, c.denied + 1, c.pending, c.queueSize)
    BY <1>2, <1>3, OneFieldChanges
<1> QED
    BY <1>1, <1>4, CountedIs DEF Tiers, Tallied, StatsOf, AuthTypeOK

LEMMA AuthInitial == AuthInit => AuthInd
<1> SUFFICES ASSUME AuthInit PROVE AuthInd
    OBVIOUS
<1>1. Waiting = {} /\ InQueue(review) = {}
    BY DEF AuthInit, Waiting, InQueue, Verdicts
<1>2. Cardinality(Waiting) = 0 /\ Cardinality(InQueue(review)) = 0
    BY <1>1, FS_EmptySet
<1>3. AuthTypeOK
    BY DEF AuthInit, AuthTypeOK, NoStats, Tiers
<1>4. StatsBalance
    BY <1>2 DEF AuthInit, StatsBalance, NoStats, Tiers
<1>5. ReviewsKept /\ HumansDecide /\ VerdictsByReviewers
    BY DEF AuthInit, ReviewsKept, HumansDecide, VerdictsByReviewers, Verdicts
<1> QED
    BY <1>3, <1>4, <1>5 DEF AuthInd, AuthorizationInv

(* A request is decided, or its human could not be asked: it leaves those  *)
(* that wait and enters one of the two counters.                           *)
LEMMA WaitEnds ==
    ASSUME AuthInd, NEW r \in Requests, Decided(r) \/ HITLFails(r)
    PROVE  AuthInd'
<1> USE DEF AuthInd, AuthorizationInv
<1>1. /\ req[r].at = "hitl" /\ req'[r].at \in {"authorized", "denied"} /\ req'[r].tier = req[r].tier
      /\ req'[r].at = "authorized" => req'[r].said = "yes"
      /\ \A t \in Requests \ {r} : req'[t] = req[t]
      /\ UNCHANGED <<config, review, reviewed, lost>>
    BY DEF AuthTypeOK, Decided, HITLFails
<1>2. req' \in [Requests -> [at : {"new", "hitl", "authorized", "denied"}, tier : Tiers,
                             said : {"nothing", "yes", "no"}]]
    BY DEF AuthTypeOK, Decided, HITLFails
<1>a. \/ stats' = [stats EXCEPT !.pending = stats.pending - 1, !.authorized = stats.authorized + 1]
      \/ stats' = [stats EXCEPT !.pending = stats.pending - 1, !.denied = stats.denied + 1]
    BY DEF Decided, HITLFails
<1>3. \/ stats' = StatsOf(stats, stats.authorized + 1, stats.denied, stats.pending - 1, stats.queueSize)
      \/ stats' = StatsOf(stats, stats.authorized, stats.denied + 1, stats.pending - 1, stats.queueSize)
    <2>1. /\ stats \in StatsRecords /\ stats.pending - 1 \in Int
          /\ stats.authorized + 1 \in Nat /\ stats.denied + 1 \in Nat
        BY DEF AuthTypeOK, StatsRecords
    <2> QED
        BY <1>a, <2>1, PendingEnds
<1>4. AuthTypeOK'
    BY <1>1, <1>2, <1>3 DEF AuthTypeOK, StatsOf
<1>5. Cardinality(Waiting)' = Cardinality(Waiting) - 1
    BY <1>1, <1>2, WaitingEnds
<1>6. StatsBalance'
    <2>1. InQueue(review)' = InQueue(review)
        BY <1>1 DEF InQueue
    <2> QED
        BY <1>1, <1>3, <1>5, <2>1, WaitingFinite DEF StatsBalance, AuthTypeOK, StatsOf
<1>7. ReviewsKept' /\ HumansDecide' /\ VerdictsByReviewers'
    BY <1>1 DEF ReviewsKept, HumansDecide, VerdictsByReviewers
<1> QED
    BY <1>4, <1>6, <1>7

LEMMA AuthStep ==
    ASSUME AuthInd, [AuthNext]_authVars
    PROVE  AuthInd'
<1> USE AuthorizationAssumption DEF AuthInd, AuthorizationInv
<1>1. ASSUME NEW r \in Requests, Authorize(r) PROVE AuthInd'
    <2> USE <1>1 DEF Authorize
    <2>0. /\ req[r].at = "new" /\ UNCHANGED <<config, reviewed, lost>>
          /\ Autonomous(r) \/ WithAsyncReview(r) \/ WithHITL(r)
        OBVIOUS
    <2>1. ASSUME Autonomous(r) PROVE AuthInd'
        <3>b. /\ req' = [req EXCEPT ![r] = [at |-> "authorized", tier |-> 1, said |-> "nothing"]]
              /\ review' = review
            BY <2>1 DEF Autonomous
        <3>a. stats' = Tallied(1, 1, 0, 0, stats.queueSize)
            BY <2>1, AutonomousTallied
        <3>1. AuthTypeOK'
            BY <2>0, <3>b, <3>a DEF AuthTypeOK, Tiers, Tallied
        <3>2. Cardinality(Waiting)' = Cardinality(Waiting)
            BY <2>0, <3>b, WaitingSame
        <3>3. StatsBalance'
            <4>1. InQueue(review)' = InQueue(review)
                BY <3>b DEF InQueue
            <4> QED
                BY <2>0, <3>b, <3>2, <4>1, <3>a, WaitingFinite DEF StatsBalance, AuthTypeOK, Tiers, Tallied
        <3>4. ReviewsKept' /\ HumansDecide' /\ VerdictsByReviewers'
            BY <2>0, <3>b DEF AuthTypeOK, ReviewsKept, HumansDecide, VerdictsByReviewers
        <3> QED
            BY <3>1, <3>3, <3>4
    <2>2. ASSUME WithAsyncReview(r) PROVE AuthInd'
        <3>b. /\ req' = [req EXCEPT ![r] = [at |-> "authorized", tier |-> 2, said |-> "nothing"]]
              /\ review' = [review EXCEPT ![r] = "pending"]
            BY <2>2 DEF WithAsyncReview
        <3>0. Cardinality(InQueue(review')) \in Nat
            BY QueueCounted
        <3>a. stats' = Tallied(2, 1, 0, 0, Cardinality(InQueue(review')))
            BY <2>2, WithAsyncReviewTallied
        <3>1. AuthTypeOK'
            BY <2>0, <3>b, <3>0, <3>a DEF AuthTypeOK, Tiers, Tallied
        <3>2. Cardinality(Waiting)' = Cardinality(Waiting)
            BY <2>0, <3>b, WaitingSame
        <3>3. StatsBalance'
            <4>1. InQueue(review)' = InQueue(review')
                BY <3>b DEF InQueue
            <4> QED
                BY <2>0, <3>b, <3>2, <4>1, <3>a, WaitingFinite DEF StatsBalance, AuthTypeOK, Tiers, Tallied
        <3>4. ReviewsKept' /\ HumansDecide' /\ VerdictsByReviewers'
            BY <2>0, <3>b DEF AuthTypeOK, ReviewsKept, HumansDecide, VerdictsByReviewers, Verdicts
        <3> QED
            BY <3>1, <3>3, <3>4
    <2>3. ASSUME WithHITL(r), ~config.hitl PROVE AuthInd'
        <3>b. /\ req' = [req EXCEPT ![r] = [at |-> "denied", tier |-> 3, said |-> "nothing"]]
              /\ review' = review
            BY <2>3 DEF WithHITL
        <3>a. stats' = Tallied(3, 0, 1, 0, stats.queueSize)
            BY <2>3, WithHITLTallied
        <3>1. AuthTypeOK'
            BY <2>0, <3>b, <3>a DEF AuthTypeOK, Tiers, Tallied
        <3>2. Cardinality(Waiting)' = Cardinality(Waiting)
            BY <2>0, <3>b, WaitingSame
        <3>3. StatsBalance'
            <4>1. InQueue(review)' = InQueue(review)
                BY <3>b DEF InQueue
            <4> QED
                BY <2>0, <3>b, <3>2, <4>1, <3>a, WaitingFinite DEF StatsBalance, AuthTypeOK, Tiers, Tallied
        <3>4. ReviewsKept' /\ HumansDecide' /\ VerdictsByReviewers'
            BY <2>0, <3>b DEF AuthTypeOK, ReviewsKept, HumansDecide, VerdictsByReviewers
        <3> QED
            BY <3>1, <3>3, <3>4
    <2>4. ASSUME WithHITL(r), config.hitl PROVE AuthInd'
        <3>b. /\ req' = [req EXCEPT ![r] = [at |-> "hitl", tier |-> 3, said |-> "nothing"]]
              /\ review' = review
            BY <2>4 DEF WithHITL
        <3>a. stats' = Tallied(3, 0, 0, 1, stats.queueSize)
            BY <2>4, WithHITLTallied
        <3>1. AuthTypeOK'
            BY <2>0, <2>4, <3>b, <3>a DEF AuthTypeOK, Tiers, Tallied
        <3>2. Cardinality(Waiting)' = Cardinality(Waiting) + 1
            BY <2>0, <2>4, <3>b, WaitingBegins
        <3>3. StatsBalance'
            <4>1. InQueue(review)' = InQueue(review)
                BY <3>b DEF InQueue
            <4>2. /\ stats'.pending = stats.pending + 1 /\ stats'.queueSize = stats.queueSize
                  /\ stats'.total = stats'.authorized + stats'.denied + stats'.pending
                  /\ stats'.total = stats'.byTier[1] + stats'.byTier[2] + stats'.byTier[3]
                <5>1. /\ stats.total = stats.authorized + stats.denied + stats.pending
                      /\ stats.total = stats.byTier[1] + stats.byTier[2] + stats.byTier[3]
                    BY DEF StatsBalance
                <5>2. /\ {stats.total, stats.authorized, stats.denied, stats.byTier[1], stats.byTier[2], stats.byTier[3]} \subseteq Nat
                      /\ stats.pending \in Int /\ stats.byTier \in [Tiers -> Nat]
                    BY DEF AuthTypeOK, Tiers
                <5> QED
                    BY <3>a, <5>1, <5>2 DEF Tiers, Tallied
            <4>3. stats'.pending = Cardinality(Waiting)' - lost'
                BY <2>0, <3>2, <4>2, WaitingFinite DEF StatsBalance, AuthTypeOK
            <4> QED
                BY <4>1, <4>2, <4>3 DEF StatsBalance
        <3>4. ReviewsKept' /\ HumansDecide' /\ VerdictsByReviewers'
            BY <2>0, <2>4, <3>b DEF AuthTypeOK, ReviewsKept, HumansDecide, VerdictsByReviewers
        <3> QED
            BY <3>1, <3>3, <3>4
    <2> QED
        BY <2>0, <2>1, <2>2, <2>3, <2>4
<1>2. ASSUME NEW r \in Requests, MarkReviewed(r) PROVE AuthInd'
    <2> USE <1>2 DEF MarkReviewed
    <2>1. AuthTypeOK'
        BY DEF AuthTypeOK
    <2>2. Waiting' = Waiting /\ InQueue(review)' = InQueue(review)
        BY DEF Waiting, InQueue, AuthTypeOK
    <2>3. StatsBalance'
        BY <2>2 DEF StatsBalance
    <2>4. ReviewsKept' /\ HumansDecide' /\ VerdictsByReviewers'
        BY DEF AuthTypeOK, ReviewsKept, HumansDecide, VerdictsByReviewers
    <2> QED
        BY <2>1, <2>3, <2>4
<1>3. ASSUME ClearReviewedItems PROVE AuthInd'
    <2> USE <1>3 DEF ClearReviewedItems
    <2>0. Cardinality(InQueue(review')) \in Nat /\ InQueue(review)' = InQueue(review')
        BY QueueCounted DEF InQueue
    <2>1. AuthTypeOK'
        BY <2>0 DEF AuthTypeOK
    <2>2. StatsBalance'
        <3>1. Waiting' = Waiting
            BY DEF Waiting
        <3> QED
            BY <2>0, <3>1 DEF StatsBalance, AuthTypeOK
    <2>3. ReviewsKept' /\ HumansDecide' /\ VerdictsByReviewers'
        BY DEF AuthTypeOK, ReviewsKept, HumansDecide, VerdictsByReviewers, Verdicts
    <2> QED
        BY <2>1, <2>2, <2>3
<1>4. ASSUME ResetStatistics PROVE AuthInd'
    <2> USE <1>4 DEF ResetStatistics, NoStats
    <2>0. /\ Cardinality(InQueue(review)) \in Nat /\ InQueue(review)' = InQueue(review)
          /\ Waiting' = Waiting /\ Cardinality(Waiting) \in Nat
        BY QueueCounted, WaitingFinite DEF InQueue, Waiting
    <2>1. AuthTypeOK'
        BY <2>0 DEF AuthTypeOK, Tiers
    <2>2. StatsBalance'
        BY <2>0 DEF StatsBalance, Tiers
    <2>3. ReviewsKept' /\ HumansDecide' /\ VerdictsByReviewers'
        BY DEF AuthTypeOK, ReviewsKept, HumansDecide, VerdictsByReviewers
    <2> QED
        BY <2>1, <2>2, <2>3
<1>5. ASSUME UNCHANGED authVars PROVE AuthInd'
    BY <1>5 DEF authVars, AuthTypeOK, StatsBalance, ReviewsKept, HumansDecide, VerdictsByReviewers,
                Waiting, InQueue
<1> QED
    BY <1>1, <1>2, <1>3, <1>4, <1>5, WaitEnds DEF AuthNext

(* However requests, human answers, reviews and resets of the statistics   *)
(* interleave (StepUpAuthorizationManager.ts): the statistics balance,     *)
(* nothing that was let through for a later review is lost, and a tier 3   *)
(* request is let through by a human's yes and nothing else.               *)
THEOREM AuthorizationKeepsItsPromises == AuthSpec => []AuthorizationInv
<1>1. AuthInd => AuthorizationInv
    BY DEF AuthInd
<1> QED
    BY <1>1, AuthInitial, AuthStep, PTL DEF AuthSpec

-----------------------------------------------------------------------------
(* Pairing.                                                                *)

(* What makes a version of the file of requests well formed, given the     *)
(* codes that were issued: pruning keeps it so, and so does issuing more.  *)
WellFormedFor(requests, given) ==
    /\ requests \subseteq PairingRequests
    /\ Cardinality(requests) <= maxPending
    /\ \A r, q \in requests : r.id = q.id \/ r.code = q.code => r = q
    /\ \A r \in requests : <<r.id, r.code>> \in given

LEMMA PairingRequestsFinite == IsFiniteSet(PairingRequests)
<1> DEFINE P == Senders \X Codes
           f == [p \in P |-> [id |-> p[1], code |-> p[2]]]
<1>1. IsFiniteSet(P)
    BY FS_Product, PairingAssumption
<1>2. f \in [P -> PairingRequests]
    BY DEF PairingRequests
<1>3. ASSUME NEW r \in PairingRequests PROVE \E p \in P : f[p] = r
    <2>1. <<r.id, r.code>> \in P /\ f[<<r.id, r.code>>] = r
        BY DEF PairingRequests
    <2> QED
        BY <2>1
<1>4. f \in Surjection(P, PairingRequests)
    BY <1>2, <1>3 DEF Surjection
<1> QED
    BY <1>1, <1>4, FS_Surjection

LEMMA RequestsFinite ==
    ASSUME NEW R, R \subseteq PairingRequests
    PROVE  IsFiniteSet(R) /\ Cardinality(R) \in Nat
BY PairingRequestsFinite, FS_Subset, FS_CardinalityType

LEMMA PrunedWellFormed ==
    ASSUME NEW R, NEW S, NEW given, NEW more,
           WellFormedFor(R, given), S \subseteq R, given \subseteq more
    PROVE  WellFormedFor(S, more)
<1>1. IsFiniteSet(R) /\ Cardinality(R) \in Nat
    BY RequestsFinite DEF WellFormedFor
<1>2. Cardinality(S) \in Nat /\ Cardinality(S) <= Cardinality(R)
    BY <1>1, FS_Subset, FS_CardinalityType
<1> QED
    BY <1>1, <1>2, PairingAssumption DEF WellFormedFor

LEMMA EmptyWellFormed == \A given : WellFormedFor({}, given)
BY FS_EmptySet, PairingAssumption DEF WellFormedFor

LEMMA AddedWellFormed ==
    ASSUME NEW R, NEW given, NEW s \in Senders, NEW c \in Codes,
           WellFormedFor(R, given), Cardinality(R) < maxPending,
           \A r \in R : r.id # s /\ r.code # c
    PROVE  WellFormedFor(R \cup {[id |-> s, code |-> c]}, given \cup {<<s, c>>})
<1> DEFINE new == [id |-> s, code |-> c]
<1>1. IsFiniteSet(R) /\ Cardinality(R) \in Nat
    BY RequestsFinite DEF WellFormedFor
<1>2. new \in PairingRequests /\ new.id = s /\ new.code = c
    BY DEF PairingRequests
<1> HIDE DEF new
<1>3. Cardinality(R \cup {new}) <= Cardinality(R) + 1
    <2>1. Cardinality(R \cup {new}) = IF new \in R THEN Cardinality(R) ELSE Cardinality(R) + 1
        BY <1>1, FS_AddElement
    <2> QED
        BY <1>1, <2>1
<1>4. IsFiniteSet(R \cup {new}) /\ Cardinality(R \cup {new}) \in Nat
    BY <1>1, FS_AddElement, FS_CardinalityType
<1>5. WellFormedFor(R \cup {new}, given \cup {<<s, c>>})
    BY <1>1, <1>2, <1>3, <1>4, PairingAssumption DEF WellFormedFor
<1> QED
    BY <1>5 DEF new

-----------------------------------------------------------------------------
(* The strengthening of PairingInv: a call that pairs has a sender.        *)
SenderKnown(rec) == rec.at \in {"checking", "pairing"} => rec.sender \in Senders

PairingInd ==
    /\ PairingTypeOK /\ OnlyApprovedAdmitted
    /\ \A o \in PairingCalls : SenderKnown(op[o])
    /\ WellFormedFor(pending, issued)
    /\ \A o \in PairingCalls : WellFormedFor(op[o].out, issued)

LEMMA PairingHolds == PairingInd => PairingInv
BY DEF PairingInd, PairingInv, RequestsWellFormed, WellFormed, WellFormedFor

LEMMA PairingInitial == PairingInit => PairingInd
<1> SUFFICES ASSUME PairingInit PROVE PairingInd
    OBVIOUS
<1>1. PairingTypeOK
    BY DEF PairingInit, PairingTypeOK, Idle, CallStages
<1>2. OnlyApprovedAdmitted
    BY DEF PairingInit, OnlyApprovedAdmitted, Idle
<1>3. /\ WellFormedFor(pending, issued)
      /\ \A o \in PairingCalls : SenderKnown(op[o]) /\ WellFormedFor(op[o].out, issued)
    BY EmptyWellFormed DEF PairingInit, Idle, SenderKnown
<1> QED
    BY <1>1, <1>2, <1>3 DEF PairingInd

(* A call goes on; what it holds of the file of requests stays well formed *)
(* if its new version is.                                                  *)
CallRecords ==
    [at : CallStages, sender : Senders \cup {NoSender}, code : Codes \cup {NoCode},
     out : SUBSET PairingRequests, list : SUBSET Senders]

LEMMA CallGoesOn ==
    ASSUME PairingInd, NEW o \in PairingCalls, NEW e \in CallRecords, CallGoes(o, e),
           issued \subseteq issued', issued' \subseteq Senders \X Codes,
           approved \subseteq approved', approved' \subseteq Senders,
           talked' \subseteq approved', allowFrom' \subseteq approved',
           pending' = pending \/ WellFormedFor(pending', issued'),
           WellFormedFor(e.out, issued'), e.list \subseteq approved',
           SenderKnown(e), e.at \in {"unlisting", "admitting"} => e.sender \in approved',
           \A s \in approved' : \E c \in Codes : <<s, c>> \in issued'
    PROVE  PairingInd'
<1> USE DEF PairingInd
<1>1. op' \in [PairingCalls -> CallRecords] /\ op'[o] = e /\ \A q \in PairingCalls \ {o} : op'[q] = op[q]
    BY DEF CallGoes, PairingTypeOK, CallRecords
<1>2. WellFormedFor(pending', issued')
    BY PrunedWellFormed
<1>3. \A q \in PairingCalls : SenderKnown(op'[q]) /\ WellFormedFor(op'[q].out, issued')
    BY <1>1, PrunedWellFormed
<1>4. PairingTypeOK'
    BY <1>1, <1>2 DEF PairingTypeOK, CallRecords, WellFormedFor
<1>5. OnlyApprovedAdmitted'
    <2>1. ASSUME NEW q \in PairingCalls
          PROVE  /\ op'[q].list \subseteq approved'
                 /\ op'[q].at \in {"unlisting", "admitting"} => op'[q].sender \in approved'
        BY <1>1 DEF OnlyApprovedAdmitted
    <2> QED
        BY <2>1 DEF OnlyApprovedAdmitted
<1> QED
    BY <1>2, <1>3, <1>4, <1>5

(* Steps that issue nothing and approve nobody.                            *)
LEMMA CallReads ==
    ASSUME PairingInd, NEW o \in PairingCalls, NEW e \in CallRecords, CallGoes(o, e),
           UNCHANGED <<issued, approved>>,
           pending' = pending \/ WellFormedFor(pending', issued),
           talked' \subseteq approved, allowFrom' \subseteq approved,
           WellFormedFor(e.out, issued), e.list \subseteq approved,
           SenderKnown(e), e.at \in {"unlisting", "admitting"} => e.sender \in approved
    PROVE  PairingInd'
BY CallGoesOn DEF PairingInd, PairingTypeOK, OnlyApprovedAdmitted

LEMMA CallReturns ==
    ASSUME PairingInd, NEW o \in PairingCalls, Returns(o), UNCHANGED <<issued, approved>>,
           pending' = pending \/ WellFormedFor(pending', issued),
           talked' \subseteq approved, allowFrom' \subseteq approved
    PROVE  PairingInd'
<1>1. Idle \in CallRecords /\ WellFormedFor(Idle.out, issued) /\ SenderKnown(Idle)
    BY EmptyWellFormed DEF CallRecords, Idle, CallStages, SenderKnown
<1> QED
    BY <1>1, CallReads DEF Returns, Idle

(* What becomes of the fields of a call.                                   *)
Changed(d, a, s, R, L) == [at |-> a, sender |-> s, code |-> d.code, out |-> R, list |-> L]

LEMMA PlaceChanges ==
    ASSUME NEW d \in CallRecords, NEW a
    PROVE  [d EXCEPT !.at = a] = Changed(d, a, d.sender, d.out, d.list)
<1>1. d = Changed(d, d.at, d.sender, d.out, d.list)
    BY DEF CallRecords, Changed
<1> QED
    BY <1>1 DEF Changed

LEMMA OutChanges ==
    ASSUME NEW d \in CallRecords, NEW a, NEW R
    PROVE  [d EXCEPT !.at = a, !.out = R] = Changed(d, a, d.sender, R, d.list)
<1>1. PICK x : x = [d EXCEPT !.at = a]
    OBVIOUS
<1>2. x = Changed(d, a, d.sender, d.out, d.list)
    BY <1>1, PlaceChanges
<1>3. [x EXCEPT !.out = R] = Changed(d, a, d.sender, R, d.list)
    BY <1>2 DEF Changed
<1> QED
    BY <1>1, <1>3

LEMMA ListChanges ==
    ASSUME NEW d \in CallRecords, NEW a, NEW L
    PROVE  [d EXCEPT !.at = a, !.list = L] = Changed(d, a, d.sender, d.out, L)
<1>1. PICK x : x = [d EXCEPT !.at = a]
    OBVIOUS
<1>2. x = Changed(d, a, d.sender, d.out, d.list)
    BY <1>1, PlaceChanges
<1>3. [x EXCEPT !.list = L] = Changed(d, a, d.sender, d.out, L)
    BY <1>2 DEF Changed
<1> QED
    BY <1>1, <1>3

LEMMA OutAndSenderChange ==
    ASSUME NEW d \in CallRecords, NEW a, NEW R, NEW s
    PROVE  [d EXCEPT !.at = a, !.out = R, !.sender = s] = Changed(d, a, s, R, d.list)
<1>1. PICK x : x = [d EXCEPT !.at = a, !.out = R]
    OBVIOUS
<1>2. x = Changed(d, a, d.sender, R, d.list)
    BY <1>1, OutChanges
<1>3. [x EXCEPT !.sender = s] = Changed(d, a, s, R, d.list)
    BY <1>2 DEF Changed
<1> QED
    BY <1>1, <1>3

LEMMA ChangedTyped ==
    ASSUME NEW d \in CallRecords, NEW a \in CallStages, NEW s \in Senders \cup {NoSender},
           NEW R \in SUBSET PairingRequests, NEW L \in SUBSET Senders
    PROVE  Changed(d, a, s, R, L) \in CallRecords
BY DEF CallRecords, Changed

(* A call that is about to write: its version is well formed.              *)
LEMMA CallWrites ==
    ASSUME PairingInd, NEW o \in PairingCalls, NEW R, Writes(o, R), WellFormedFor(R, issued'),
           issued \subseteq issued', issued' \subseteq Senders \X Codes,
           UNCHANGED <<pending, allowFrom, approved, talked>>
    PROVE  PairingInd'
<1>1. PICK e : e = [op[o] EXCEPT !.at = "writing", !.out = R]
    OBVIOUS
<1>2. op[o] \in CallRecords /\ op[o].list \subseteq approved
    BY DEF PairingInd, PairingTypeOK, OnlyApprovedAdmitted, CallRecords
<1>3. e = Changed(op[o], "writing", op[o].sender, R, op[o].list)
    BY <1>1, <1>2, OutChanges
<1>4. e.at = "writing" /\ e.out = R /\ e.list = op[o].list
    BY <1>3 DEF Changed
<1>5. e \in CallRecords
    BY <1>2, <1>3, ChangedTyped DEF WellFormedFor, CallRecords, CallStages
<1>6. CallGoes(o, e) /\ SenderKnown(e)
    BY <1>1, <1>4 DEF Writes, SenderKnown
<1>7. /\ approved \subseteq Senders /\ talked \subseteq approved /\ allowFrom \subseteq approved
      /\ \A s \in approved : \E c \in Codes : <<s, c>> \in issued'
    BY DEF PairingInd, PairingTypeOK, OnlyApprovedAdmitted
<1> QED
    BY <1>2, <1>4, <1>5, <1>6, <1>7, CallGoesOn

(* What a call reads of the file of requests, and keeps of it, is as well  *)
(* formed as the file.                                                     *)
LEMMA ReadsWellFormed ==
    ASSUME PairingInd, NEW file \in Read(pending), NEW R, R \subseteq file
    PROVE  WellFormedFor(R, issued)
<1>1. R \subseteq pending
    BY DEF Read
<1> QED
    BY <1>1, PrunedWellFormed DEF PairingInd

LEMMA CappedSubset == \A requests : \A kept \in Capped(requests) : kept \subseteq requests
BY DEF Capped

-----------------------------------------------------------------------------
(* One lemma per group of steps.                                           *)
LEMMA CallBegins ==
    ASSUME PairingInd, NEW o \in PairingCalls,
           \/ \E s \in Senders : MessageArrives(o, s) \/ RemoveBegins(o, s)
           \/ \E c \in Codes : ApproveBegins(o, c) \/ RejectBegins(o, c)
           \/ ListBegins(o)
    PROVE  PairingInd'
<1> DEFINE Fields == {x \in CallRecords : /\ x.out = {} /\ x.list = {} /\ SenderKnown(x)
                                          /\ x.at \notin {"unlisting", "admitting"}}
<1>1. /\ \A s \in Senders : /\ [Idle EXCEPT !.at = "checking", !.sender = s] \in Fields
                            /\ [Idle EXCEPT !.at = "removing", !.sender = s] \in Fields
      /\ \A c \in Codes : /\ [Idle EXCEPT !.at = "approving", !.code = c] \in Fields
                          /\ [Idle EXCEPT !.at = "rejecting", !.code = c] \in Fields
      /\ [Idle EXCEPT !.at = "listing"] \in Fields
    BY DEF CallRecords, Idle, CallStages, SenderKnown
<1>2. \E x \in Fields : Begins(o, x)
    BY <1>1 DEF MessageArrives, RemoveBegins, ApproveBegins, RejectBegins, ListBegins
<1>3. PICK x \in Fields : Begins(o, x)
    BY <1>2
<1>4. talked \subseteq approved /\ allowFrom \subseteq approved
    BY DEF PairingInd, OnlyApprovedAdmitted
<1> QED
    BY <1>3, <1>4, CallReads, EmptyWellFormed DEF Begins

LEMMA SenderCheckedStep ==
    ASSUME PairingInd, NEW o \in PairingCalls, SenderChecked(o)
    PROVE  PairingInd'
<1>0. /\ op[o] \in CallRecords /\ op[o].list \subseteq approved /\ op[o].at = "checking"
      /\ op[o].sender \in Senders /\ WellFormedFor(op[o].out, issued)
      /\ talked \subseteq approved /\ allowFrom \subseteq approved
    BY DEF PairingInd, PairingTypeOK, OnlyApprovedAdmitted, CallRecords, SenderKnown, SenderChecked
<1>1. PICK list \in Read(allowFrom) :
         IF op[o].sender \in list
         THEN Returns(o) /\ talked' = talked \cup {op[o].sender}
         ELSE CallGoes(o, [op[o] EXCEPT !.at = "pairing"]) /\ UNCHANGED talked
    BY DEF SenderChecked
<1>2. UNCHANGED <<pending, allowFrom, issued, approved>>
    BY DEF SenderChecked
<1>3. CASE op[o].sender \in list
    <2>1. talked' \subseteq approved
        BY <1>0, <1>1, <1>3 DEF Read
    <2> QED
        BY <1>0, <1>1, <1>2, <1>3, <2>1, CallReturns
<1>4. CASE op[o].sender \notin list
    <2>1. PICK e : e = [op[o] EXCEPT !.at = "pairing"]
        OBVIOUS
    <2>2. e = Changed(op[o], "pairing", op[o].sender, op[o].out, op[o].list)
        BY <1>0, <2>1, PlaceChanges
    <2>3. e \in CallRecords
        BY <1>0, <2>2, ChangedTyped DEF CallRecords, CallStages
    <2>4. e.at = "pairing" /\ e.out = op[o].out /\ e.list = op[o].list /\ SenderKnown(e)
        BY <1>0, <2>2 DEF Changed, SenderKnown
    <2>5. CallGoes(o, e) /\ UNCHANGED talked
        BY <1>1, <1>4, <2>1
    <2> QED
        BY <1>0, <1>2, <2>3, <2>4, <2>5, CallReads
<1> QED
    BY <1>3, <1>4

LEMMA UpsertRequestStep ==
    ASSUME PairingInd, NEW o \in PairingCalls, UpsertRequest(o)
    PROVE  PairingInd'
<1>0. /\ op[o].sender \in Senders /\ issued \subseteq Senders \X Codes
      /\ UNCHANGED <<pending, allowFrom, approved, talked>>
    BY DEF PairingInd, PairingTypeOK, SenderKnown, UpsertRequest
<1>1. PICK file \in Read(pending) : \E requests \in Fresh(file) : \E kept \in Capped(requests) :
         \/ Writes(o, kept) /\ UNCHANGED issued
         \/ /\ (\A r \in requests : r.id # op[o].sender) /\ Cardinality(kept) < maxPending
            /\ \E c \in Codes \ CodesOf(requests) :
                 /\ Writes(o, kept \cup {[id |-> op[o].sender, code |-> c]})
                 /\ issued' = issued \cup {<<op[o].sender, c>>}
    BY DEF UpsertRequest
<1>2. PICK requests \in Fresh(file) : \E kept \in Capped(requests) :
         \/ Writes(o, kept) /\ UNCHANGED issued
         \/ /\ (\A r \in requests : r.id # op[o].sender) /\ Cardinality(kept) < maxPending
            /\ \E c \in Codes \ CodesOf(requests) :
                 /\ Writes(o, kept \cup {[id |-> op[o].sender, code |-> c]})
                 /\ issued' = issued \cup {<<op[o].sender, c>>}
    BY <1>1
<1>3. PICK kept \in Capped(requests) :
         \/ Writes(o, kept) /\ UNCHANGED issued
         \/ /\ (\A r \in requests : r.id # op[o].sender) /\ Cardinality(kept) < maxPending
            /\ \E c \in Codes \ CodesOf(requests) :
                 /\ Writes(o, kept \cup {[id |-> op[o].sender, code |-> c]})
                 /\ issued' = issued \cup {<<op[o].sender, c>>}
    BY <1>2
<1>4. kept \subseteq requests /\ requests \subseteq file
    BY CappedSubset DEF Fresh
<1>5. WellFormedFor(kept, issued)
    BY <1>4, ReadsWellFormed
<1>6. CASE Writes(o, kept) /\ UNCHANGED issued
    BY <1>0, <1>5, <1>6, CallWrites
<1>7. ASSUME \A r \in requests : r.id # op[o].sender, Cardinality(kept) < maxPending,
             NEW c \in Codes \ CodesOf(requests),
             Writes(o, kept \cup {[id |-> op[o].sender, code |-> c]}),
             issued' = issued \cup {<<op[o].sender, c>>}
      PROVE  PairingInd'
    <2>1. \A r \in kept : r.id # op[o].sender /\ r.code # c
        BY <1>4, <1>7 DEF CodesOf
    <2>2. WellFormedFor(kept \cup {[id |-> op[o].sender, code |-> c]}, issued')
        BY <1>0, <1>5, <1>7, <2>1, AddedWellFormed
    <2>3. issued \subseteq issued' /\ issued' \subseteq Senders \X Codes
        BY <1>0, <1>7
    <2> QED
        BY <1>0, <1>7, <2>2, <2>3, CallWrites
<1> QED
    BY <1>3, <1>6, <1>7

LEMMA RequestsReadStep ==
    ASSUME PairingInd, NEW o \in PairingCalls, RequestsListed(o) \/ RejectCode(o)
    PROVE  PairingInd'
<1>1. /\ UNCHANGED <<pending, allowFrom, issued, approved, talked>>
      /\ \E file \in Read(pending) : \E kept : kept \subseteq file /\ (Returns(o) \/ Writes(o, kept))
    BY CappedSubset DEF RequestsListed, RejectCode, Fresh
<1>2. PICK file \in Read(pending) : \E kept : kept \subseteq file /\ (Returns(o) \/ Writes(o, kept))
    BY <1>1
<1>3. PICK kept : kept \subseteq file /\ (Returns(o) \/ Writes(o, kept))
    BY <1>2
<1>4. WellFormedFor(kept, issued)
    BY <1>2, <1>3, ReadsWellFormed
<1>5. talked \subseteq approved /\ allowFrom \subseteq approved /\ issued \subseteq Senders \X Codes
    BY DEF PairingInd, PairingTypeOK, OnlyApprovedAdmitted
<1> QED
    BY <1>1, <1>3, <1>4, <1>5, CallReturns, CallWrites

LEMMA ApproveCodeStep ==
    ASSUME PairingInd, NEW o \in PairingCalls, ApproveCode(o)
    PROVE  PairingInd'
<1>0. /\ op[o] \in CallRecords /\ op[o].list \subseteq approved
      /\ approved \subseteq Senders /\ talked \subseteq approved /\ allowFrom \subseteq approved
      /\ issued \subseteq Senders \X Codes
      /\ \A s \in approved : \E c \in Codes : <<s, c>> \in issued
      /\ UNCHANGED <<pending, allowFrom, issued, talked>>
    BY DEF PairingInd, PairingTypeOK, OnlyApprovedAdmitted, CallRecords, ApproveCode
<1>1. PICK file \in Read(pending) : \E requests \in Fresh(file) :
         \/ Writes(o, requests) /\ UNCHANGED approved
         \/ \E r \in requests :
              /\ CallGoes(o, [op[o] EXCEPT !.at = "unlisting", !.out = requests \ {r}, !.sender = r.id])
              /\ approved' = approved \cup {r.id}
    BY DEF ApproveCode
<1>2. PICK requests \in Fresh(file) :
         \/ Writes(o, requests) /\ UNCHANGED approved
         \/ \E r \in requests :
              /\ CallGoes(o, [op[o] EXCEPT !.at = "unlisting", !.out = requests \ {r}, !.sender = r.id])
              /\ approved' = approved \cup {r.id}
    BY <1>1
<1>3. requests \subseteq file /\ WellFormedFor(requests, issued)
    BY ReadsWellFormed DEF Fresh
<1>4. CASE Writes(o, requests) /\ UNCHANGED approved
    BY <1>0, <1>3, <1>4, CallWrites
<1>5. ASSUME NEW r \in requests,
             CallGoes(o, [op[o] EXCEPT !.at = "unlisting", !.out = requests \ {r}, !.sender = r.id]),
             approved' = approved \cup {r.id}
      PROVE  PairingInd'
    <2>1. PICK e : e = [op[o] EXCEPT !.at = "unlisting", !.out = requests \ {r}, !.sender = r.id]
        OBVIOUS
    <2>2. e = Changed(op[o], "unlisting", r.id, requests \ {r}, op[o].list)
        BY <1>0, <2>1, OutAndSenderChange
    <2>3. r.id \in Senders /\ r.code \in Codes /\ <<r.id, r.code>> \in issued
        BY <1>3, <1>5 DEF WellFormedFor, PairingRequests
    <2>4. /\ e.at = "unlisting" /\ e.sender = r.id /\ e.out = requests \ {r} /\ e.list = op[o].list
          /\ SenderKnown(e)
        BY <2>2, <2>3 DEF Changed, SenderKnown
    <2>5. e \in CallRecords
        BY <1>0, <1>3, <2>2, <2>3, ChangedTyped DEF WellFormedFor, CallRecords, CallStages
    <2>6. WellFormedFor(e.out, issued')
        BY <1>0, <1>3, <2>4, PrunedWellFormed
    <2>7. CallGoes(o, e)
        BY <1>5, <2>1
    <2>8. /\ approved \subseteq approved' /\ approved' \subseteq Senders
          /\ talked' \subseteq approved' /\ allowFrom' \subseteq approved' /\ e.list \subseteq approved'
          /\ e.sender \in approved'
          /\ \A s \in approved' : \E c \in Codes : <<s, c>> \in issued'
        BY <1>0, <1>5, <2>3, <2>4
    <2> QED
        BY <1>0, <2>4, <2>5, <2>6, <2>7, <2>8, CallGoesOn
<1> QED
    BY <1>2, <1>4, <1>5

LEMMA RequestsWrittenStep ==
    ASSUME PairingInd, NEW o \in PairingCalls, RequestsWritten(o)
    PROVE  PairingInd'
<1>0. /\ op[o] \in CallRecords /\ op[o].list \subseteq approved /\ WellFormedFor(pending', issued)
      /\ talked \subseteq approved /\ allowFrom \subseteq approved
      /\ op[o].at = "unlisting" => op[o].sender \in approved
      /\ UNCHANGED <<allowFrom, issued, approved, talked>>
    BY DEF PairingInd, PairingTypeOK, OnlyApprovedAdmitted, CallRecords, RequestsWritten
<1>1. CASE Returns(o)
    BY <1>0, <1>1, CallReturns
<1>2. CASE op[o].at = "unlisting" /\ CallGoes(o, [op[o] EXCEPT !.at = "admitting", !.out = {}])
    <2>1. PICK e : e = [op[o] EXCEPT !.at = "admitting", !.out = {}]
        OBVIOUS
    <2>2. e = Changed(op[o], "admitting", op[o].sender, {}, op[o].list)
        BY <1>0, <2>1, OutChanges
    <2>3. e.at = "admitting" /\ e.sender = op[o].sender /\ e.out = {} /\ e.list = op[o].list /\ SenderKnown(e)
        BY <2>2 DEF Changed, SenderKnown
    <2>4. e \in CallRecords
        BY <1>0, <2>2, ChangedTyped DEF CallRecords, CallStages
    <2>5. CallGoes(o, e) /\ WellFormedFor(e.out, issued)
        BY <1>2, <2>1, <2>3, EmptyWellFormed
    <2> QED
        BY <1>0, <1>2, <2>3, <2>4, <2>5, CallReads
<1> QED
    BY <1>1, <1>2 DEF RequestsWritten

LEMMA AllowlistReadStep ==
    ASSUME PairingInd, NEW o \in PairingCalls, AddToAllowlist(o) \/ RemoveFromAllowlist(o)
    PROVE  PairingInd'
<1>0. /\ op[o] \in CallRecords /\ WellFormedFor(op[o].out, issued)
      /\ talked \subseteq approved /\ allowFrom \subseteq approved /\ approved \subseteq Senders
      /\ op[o].at = "admitting" => op[o].sender \in approved
      /\ UNCHANGED <<pending, allowFrom, issued, approved, talked>>
    BY DEF PairingInd, PairingTypeOK, OnlyApprovedAdmitted, CallRecords, AddToAllowlist, RemoveFromAllowlist
<1>1. \E L : /\ L \subseteq approved
             /\ Returns(o) \/ CallGoes(o, [op[o] EXCEPT !.at = "replacing", !.list = L])
    BY <1>0 DEF AddToAllowlist, RemoveFromAllowlist, Read
<1>2. PICK L : /\ L \subseteq approved
               /\ Returns(o) \/ CallGoes(o, [op[o] EXCEPT !.at = "replacing", !.list = L])
    BY <1>1
<1>3. CASE Returns(o)
    BY <1>0, <1>3, CallReturns
<1>4. CASE CallGoes(o, [op[o] EXCEPT !.at = "replacing", !.list = L])
    <2>1. PICK e : e = [op[o] EXCEPT !.at = "replacing", !.list = L]
        OBVIOUS
    <2>2. e = Changed(op[o], "replacing", op[o].sender, op[o].out, L)
        BY <1>0, <2>1, ListChanges
    <2>3. e.at = "replacing" /\ e.out = op[o].out /\ e.list = L /\ SenderKnown(e)
        BY <2>2 DEF Changed, SenderKnown
    <2>4. e \in CallRecords
        BY <1>0, <1>2, <2>2, ChangedTyped DEF CallRecords, CallStages
    <2>5. CallGoes(o, e)
        BY <1>4, <2>1
    <2> QED
        BY <1>0, <1>2, <2>3, <2>4, <2>5, CallReads
<1> QED
    BY <1>2, <1>3, <1>4

LEMMA CallEnds ==
    ASSUME PairingInd, NEW o \in PairingCalls, AllowlistWritten(o) \/ CallFails(o)
    PROVE  PairingInd'
<1>1. /\ Returns(o) /\ UNCHANGED <<pending, issued, approved, talked>>
      /\ talked \subseteq approved /\ allowFrom' \subseteq approved
    BY DEF PairingInd, OnlyApprovedAdmitted, AllowlistWritten, CallFails
<1> QED
    BY <1>1, CallReturns

LEMMA CrashStep ==
    ASSUME PairingInd, Crash
    PROVE  PairingInd'
<1>1. /\ \A o \in PairingCalls : op'[o] = Idle
      /\ UNCHANGED <<pending, allowFrom, issued, approved, talked>>
    BY DEF Crash
<1>2. Idle \in CallRecords /\ Idle.out = {} /\ Idle.list = {} /\ Idle.at = "idle" /\ SenderKnown(Idle)
    BY DEF CallRecords, Idle, CallStages, SenderKnown
<1>3. PairingTypeOK'
    BY <1>1, <1>2 DEF PairingInd, PairingTypeOK, CallRecords, Crash
<1>4. OnlyApprovedAdmitted'
    BY <1>1, <1>2 DEF PairingInd, OnlyApprovedAdmitted
<1>5. /\ WellFormedFor(pending, issued)'
      /\ \A o \in PairingCalls : SenderKnown(op'[o]) /\ WellFormedFor(op'[o].out, issued')
    BY <1>1, <1>2, EmptyWellFormed DEF PairingInd
<1> QED
    BY <1>3, <1>4, <1>5 DEF PairingInd

LEMMA PairingStep ==
    ASSUME PairingInd, [PairingNext]_pairingVars
    PROVE  PairingInd'
<1>1. CASE UNCHANGED pairingVars
    BY <1>1 DEF PairingInd, pairingVars, PairingTypeOK, OnlyApprovedAdmitted
<1> QED
    BY <1>1, CallBegins, SenderCheckedStep, UpsertRequestStep, RequestsReadStep, ApproveCodeStep,
       RequestsWrittenStep, AllowlistReadStep, CallEnds, CrashStep DEF PairingNext

(* However the calls' reads and writes of the two files interleave, and    *)
(* wherever a write fails or the process ends: every version of the file   *)
(* of requests is within its limit, has one request per sender and code    *)
(* and only codes that were issued, and nobody is admitted or answered     *)
(* whom the owner did not approve (PairingManager.ts).                     *)
THEOREM OnlyThePairedAreAdmitted == PairingSpec => []PairingInv
<1> QED
    BY PairingHolds, PairingInitial, PairingStep, PTL DEF PairingSpec

-----------------------------------------------------------------------------
(* Browsing sessions and engagement.                                       *)

SessionRecords ==
    [at : Places, who : Members \cup {NoMember}, left : Nat, post : Feed \cup {NoPost},
     emojis : SUBSET Emojis, chain : BOOLEAN, comments : Nat, thoughts : Nat,
     signal : [Authors -> Nat]]

(* The strengthening of BrowsingInv.  A session under way has its agent,   *)
(* and a post while it works on one; what it is about to count as a signal *)
(* still fits the author's budget.                                         *)
SessionOK(rec) ==
    /\ rec \in SessionRecords
    /\ rec.at # "idle" => rec.who \in Members
    /\ rec.at \in {"upvoted", "voted", "boosted", "emojis", "reacting"} => rec.post \in Feed
    /\ rec.at \in {"boosted", "reacting"} => rec.signal[Author[rec.post]] < maxHighSignalPerAuthor
    /\ \A a \in Authors : rec.signal[a] <= maxHighSignalPerAuthor
    /\ rec.comments <= maxCommentStimuli /\ rec.thoughts <= maxCreatePostStimuli

SessionsOK ==
    /\ session \in [Sessions -> SessionRecords]
    /\ \A s \in Sessions : SessionOK(session[s])

KeyHolders(ks, k, p) == {m \in Members : <<k, m, p>> \in ks}
Reactors(rs, p, e) == {m \in Members : <<p, m, e>> \in rs}

EngagementOK ==
    /\ recent \in [Members -> [Limited -> Nat]]
    /\ keys \subseteq Kinds \X Members \X Feed
    /\ tally \in [Feed -> [Kinds -> Nat]] /\ expired \in [Feed -> [Kinds -> Nat]]
    /\ \A m \in Members, x \in {"vote", "boost", "comment"} : recent[m][x] <= maxActions[x]
    /\ \A p \in Feed, k \in Kinds : tally[p][k] = Cardinality(KeyHolders(keys, k, p)) + expired[p][k]

EmojisOK ==
    /\ reactors \subseteq Feed \X Members \X Emojis
    /\ reactions \in [Feed -> [Emojis -> Nat]]
    /\ \A p \in Feed, e \in Emojis : reactions[p][e] = Cardinality(Reactors(reactors, p, e))

(* An agent's counted sessions and those under way exceed the limit by no  *)
(* more than ever overlapped.                                              *)
BrowsingBounded ==
    /\ together \in [Members -> Nat]
    /\ \A m \in Members :
        /\ Cardinality(Under(m)) <= together[m]
        /\ recent[m]["browse"] + Cardinality(Under(m)) + 1
               <= maxActions["browse"] + (IF together[m] = 0 THEN 1 ELSE together[m])

BrowsingInd == SessionsOK /\ EngagementOK /\ EmojisOK /\ BrowsingBounded

LEMMA UnderFinite == \A m \in Members : IsFiniteSet(Under(m)) /\ Cardinality(Under(m)) \in Nat
<1> TAKE m \in Members
<1>1. IsFiniteSet(Under(m))
    BY FS_Subset, BrowsingAssumption DEF Under
<1> QED
    BY <1>1, FS_CardinalityType

LEMMA HoldersFinite ==
    /\ \A ks, k, p : IsFiniteSet(KeyHolders(ks, k, p)) /\ Cardinality(KeyHolders(ks, k, p)) \in Nat
    /\ \A rs, p, e : IsFiniteSet(Reactors(rs, p, e)) /\ Cardinality(Reactors(rs, p, e)) \in Nat
<1>1. ASSUME NEW ks, NEW k, NEW p
      PROVE  IsFiniteSet(KeyHolders(ks, k, p)) /\ Cardinality(KeyHolders(ks, k, p)) \in Nat
    <2>1. IsFiniteSet(KeyHolders(ks, k, p))
        BY FS_Subset, BrowsingAssumption DEF KeyHolders
    <2> QED
        BY <2>1, FS_CardinalityType
<1>2. ASSUME NEW rs, NEW p, NEW e
      PROVE  IsFiniteSet(Reactors(rs, p, e)) /\ Cardinality(Reactors(rs, p, e)) \in Nat
    <2>1. IsFiniteSet(Reactors(rs, p, e))
        BY FS_Subset, BrowsingAssumption DEF Reactors
    <2> QED
        BY <2>1, FS_CardinalityType
<1> QED
    BY <1>1, <1>2

LEMMA BrowsingHolds == BrowsingInd => BrowsingInv
<1> SUFFICES ASSUME BrowsingInd PROVE BrowsingInv
    OBVIOUS
<1>1. BrowsingTypeOK
    BY DEF BrowsingInd, SessionsOK, EngagementOK, EmojisOK, BrowsingBounded, BrowsingTypeOK, SessionRecords
<1>2. LimitsHold
    <2> SUFFICES ASSUME NEW m \in Members
        PROVE  /\ \A x \in {"vote", "boost", "comment"} : recent[m][x] <= maxActions[x]
               /\ recent[m]["browse"] + 1 <= maxActions["browse"] + (IF together[m] = 0 THEN 1 ELSE together[m])
        BY DEF LimitsHold
    <2>1. /\ recent[m]["browse"] \in Nat /\ Cardinality(Under(m)) \in Nat
          /\ together[m] \in Nat /\ maxActions["browse"] \in Nat
        BY UnderFinite, BrowsingAssumption DEF BrowsingInd, EngagementOK, BrowsingBounded, Limited
    <2> QED
        BY <2>1 DEF BrowsingInd, EngagementOK, BrowsingBounded
<1>3. CountedOnce
    BY DEF BrowsingInd, EngagementOK, EmojisOK, CountedOnce, KeyHolders, Reactors
<1>4. SessionBudgets
    BY DEF BrowsingInd, SessionsOK, SessionOK, SessionBudgets
<1> QED
    BY <1>1, <1>2, <1>3, <1>4 DEF BrowsingInv

LEMMA BrowsingInitial == BrowsingInit => BrowsingInd
<1> SUFFICES ASSUME BrowsingInit PROVE BrowsingInd
    OBVIOUS
<1>1. SessionOK(NoSession)
    BY BrowsingAssumption DEF SessionOK, SessionRecords, NoSession, Places
<1>2. SessionsOK
    BY <1>1 DEF BrowsingInit, SessionsOK, SessionOK
<1>3. /\ \A p \in Feed, k \in Kinds : KeyHolders(keys, k, p) = {}
      /\ \A p \in Feed, e \in Emojis : Reactors(reactors, p, e) = {}
      /\ \A m \in Members : Under(m) = {}
    BY DEF BrowsingInit, KeyHolders, Reactors, Under, NoSession
<1>4. Cardinality({}) = 0
    BY FS_EmptySet
<1>5. EngagementOK
    <2>1. /\ recent \in [Members -> [Limited -> Nat]]
          /\ tally \in [Feed -> [Kinds -> Nat]] /\ expired \in [Feed -> [Kinds -> Nat]]
          /\ keys \subseteq Kinds \X Members \X Feed
        BY DEF BrowsingInit
    <2>2. \A m \in Members, x \in {"vote", "boost", "comment"} : recent[m][x] <= maxActions[x]
        <3> TAKE m \in Members, x \in {"vote", "boost", "comment"}
        <3>1. recent[m][x] = 0 /\ maxActions[x] \in Nat
            BY BrowsingAssumption DEF BrowsingInit, Limited
        <3> QED
            BY <3>1
    <2>3. \A p \in Feed, k \in Kinds : tally[p][k] = Cardinality(KeyHolders(keys, k, p)) + expired[p][k]
        <3> TAKE p \in Feed, k \in Kinds
        <3>1. tally[p][k] = 0 /\ expired[p][k] = 0 /\ KeyHolders(keys, k, p) = {}
            BY <1>3 DEF BrowsingInit
        <3> QED
            BY <3>1, <1>4
    <2> QED
        BY <2>1, <2>2, <2>3 DEF EngagementOK
<1>6. EmojisOK
    <2>1. reactors \subseteq Feed \X Members \X Emojis /\ reactions \in [Feed -> [Emojis -> Nat]]
        BY DEF BrowsingInit
    <2>2. \A p \in Feed, e \in Emojis : reactions[p][e] = Cardinality(Reactors(reactors, p, e))
        <3> TAKE p \in Feed, e \in Emojis
        <3>1. reactions[p][e] = 0 /\ Reactors(reactors, p, e) = {}
            BY <1>3 DEF BrowsingInit
        <3> QED
            BY <3>1, <1>4
    <2> QED
        BY <2>1, <2>2 DEF EmojisOK
<1>7. BrowsingBounded
    <2>1. together \in [Members -> Nat]
        BY DEF BrowsingInit
    <2> SUFFICES ASSUME NEW m \in Members
        PROVE  /\ Cardinality(Under(m)) <= together[m]
               /\ recent[m]["browse"] + Cardinality(Under(m)) + 1
                     <= maxActions["browse"] + (IF together[m] = 0 THEN 1 ELSE together[m])
        BY <2>1 DEF BrowsingBounded
    <2>2. /\ together[m] = 0 /\ recent[m]["browse"] = 0 /\ Under(m) = {}
          /\ maxActions["browse"] \in Nat \ {0}
        BY <1>3, BrowsingAssumption DEF BrowsingInit, Limited
    <2> QED
        BY <2>2, <1>4
<1> QED
    BY <1>2, <1>5, <1>6, <1>7 DEF BrowsingInd

-----------------------------------------------------------------------------
(* Counting.                                                               *)
LEMMA CountsIs ==
    ASSUME recent \in [Members -> [Limited -> Nat]], NEW m \in Members, NEW x \in Limited, Counts(m, x)
    PROVE  /\ recent' \in [Members -> [Limited -> Nat]]
           /\ recent'[m][x] = recent[m][x] + 1
           /\ \A n \in Members, y \in Limited : <<n, y>> # <<m, x>> => recent'[n][y] = recent[n][y]
BY DEF Counts

LEMMA TallyIs ==
    ASSUME tally \in [Feed -> [Kinds -> Nat]], NEW p \in Feed, NEW k \in Kinds,
           tally' = [tally EXCEPT ![p][k] = @ + 1]
    PROVE  /\ tally' \in [Feed -> [Kinds -> Nat]]
           /\ tally'[p][k] = tally[p][k] + 1
           /\ \A q \in Feed, j \in Kinds : <<q, j>> # <<p, k>> => tally'[q][j] = tally[q][j]
OBVIOUS

LEMMA ReactionsIs ==
    ASSUME reactions \in [Feed -> [Emojis -> Nat]], NEW p \in Feed, NEW e \in Emojis,
           reactions' = [reactions EXCEPT ![p][e] = @ + 1]
    PROVE  /\ reactions' \in [Feed -> [Emojis -> Nat]]
           /\ reactions'[p][e] = reactions[p][e] + 1
           /\ \A q \in Feed, f \in Emojis : <<q, f>> # <<p, e>> => reactions'[q][f] = reactions[q][f]
OBVIOUS

LEMMA KeyAdded ==
    ASSUME NEW ks, NEW k \in Kinds, NEW m \in Members, NEW p \in Feed, <<k, m, p>> \notin ks
    PROVE  /\ Cardinality(KeyHolders(ks \cup {<<k, m, p>>}, k, p)) = Cardinality(KeyHolders(ks, k, p)) + 1
           /\ \A q \in Feed, j \in Kinds :
                 <<q, j>> # <<p, k>> => KeyHolders(ks \cup {<<k, m, p>>}, j, q) = KeyHolders(ks, j, q)
<1>1. /\ m \notin KeyHolders(ks, k, p)
      /\ KeyHolders(ks \cup {<<k, m, p>>}, k, p) = KeyHolders(ks, k, p) \cup {m}
    BY DEF KeyHolders
<1>2. Cardinality(KeyHolders(ks, k, p) \cup {m}) = Cardinality(KeyHolders(ks, k, p)) + 1
    BY <1>1, HoldersFinite, FS_AddElement
<1>3. \A q \in Feed, j \in Kinds :
         <<q, j>> # <<p, k>> => KeyHolders(ks \cup {<<k, m, p>>}, j, q) = KeyHolders(ks, j, q)
    BY DEF KeyHolders
<1> QED
    BY <1>1, <1>2, <1>3

LEMMA KeyRemoved ==
    ASSUME NEW ks, NEW k \in Kinds, NEW m \in Members, NEW p \in Feed, <<k, m, p>> \in ks
    PROVE  /\ Cardinality(KeyHolders(ks \ {<<k, m, p>>}, k, p)) = Cardinality(KeyHolders(ks, k, p)) - 1
           /\ \A q \in Feed, j \in Kinds :
                 <<q, j>> # <<p, k>> => KeyHolders(ks \ {<<k, m, p>>}, j, q) = KeyHolders(ks, j, q)
<1>1. /\ m \in KeyHolders(ks, k, p)
      /\ KeyHolders(ks \ {<<k, m, p>>}, k, p) = KeyHolders(ks, k, p) \ {m}
    BY DEF KeyHolders
<1>2. Cardinality(KeyHolders(ks, k, p) \ {m}) = Cardinality(KeyHolders(ks, k, p)) - 1
    BY <1>1, HoldersFinite, FS_RemoveElement
<1>3. \A q \in Feed, j \in Kinds :
         <<q, j>> # <<p, k>> => KeyHolders(ks \ {<<k, m, p>>}, j, q) = KeyHolders(ks, j, q)
    BY DEF KeyHolders
<1> QED
    BY <1>1, <1>2, <1>3

LEMMA ReactorAdded ==
    ASSUME NEW rs, NEW e \in Emojis, NEW m \in Members, NEW p \in Feed, <<p, m, e>> \notin rs
    PROVE  /\ Cardinality(Reactors(rs \cup {<<p, m, e>>}, p, e)) = Cardinality(Reactors(rs, p, e)) + 1
           /\ \A q \in Feed, f \in Emojis :
                 <<q, f>> # <<p, e>> => Reactors(rs \cup {<<p, m, e>>}, q, f) = Reactors(rs, q, f)
<1>1. /\ m \notin Reactors(rs, p, e)
      /\ Reactors(rs \cup {<<p, m, e>>}, p, e) = Reactors(rs, p, e) \cup {m}
    BY DEF Reactors
<1>2. Cardinality(Reactors(rs, p, e) \cup {m}) = Cardinality(Reactors(rs, p, e)) + 1
    BY <1>1, HoldersFinite, FS_AddElement
<1>3. \A q \in Feed, f \in Emojis :
         <<q, f>> # <<p, e>> => Reactors(rs \cup {<<p, m, e>>}, q, f) = Reactors(rs, q, f)
    BY DEF Reactors
<1> QED
    BY <1>1, <1>2, <1>3

(* An engagement keeps the counts of the posts and the limits.             *)
LEMMA RecordEngagementKeeps ==
    ASSUME EngagementOK, NEW m \in Members, NEW p \in Feed, NEW type,
           RecordEngagement(m, p, type), UNCHANGED expired
    PROVE  EngagementOK' /\ \A n \in Members : recent'[n]["browse"] = recent[n]["browse"]
<1> DEFINE kind == Kind(type)
<1>0. \/ UNCHANGED engageVars
      \/ /\ kind \in Kinds /\ WithinLimit(m, kind) /\ <<kind, m, p>> \notin keys
         /\ Counts(m, kind)
         /\ keys' = keys \cup {<<kind, m, p>>}
         /\ tally' = [tally EXCEPT ![p][kind] = @ + 1]
      \/ kind = "comment" /\ WithinLimit(m, kind) /\ Counts(m, kind) /\ UNCHANGED <<keys, tally>>
    BY DEF RecordEngagement
<1> HIDE DEF kind
<1>1. CASE UNCHANGED engageVars
    BY <1>1 DEF EngagementOK, engageVars
<1>2. ASSUME kind \in {"vote", "boost", "comment"}, WithinLimit(m, kind), Counts(m, kind)
      PROVE  /\ recent' \in [Members -> [Limited -> Nat]]
             /\ \A n \in Members, x \in {"vote", "boost", "comment"} : recent'[n][x] <= maxActions[x]
             /\ \A n \in Members : recent'[n]["browse"] = recent[n]["browse"]
    <2>1. kind \in Limited /\ kind # "browse"
        BY <1>2 DEF Limited
    <2>2. /\ recent' \in [Members -> [Limited -> Nat]]
          /\ recent'[m][kind] = recent[m][kind] + 1
          /\ \A n \in Members, y \in Limited : <<n, y>> # <<m, kind>> => recent'[n][y] = recent[n][y]
        BY <1>2, <2>1, CountsIs DEF EngagementOK
    <2>3. \A n \in Members : recent'[n]["browse"] = recent[n]["browse"]
        BY <2>1, <2>2 DEF Limited
    <2>4. ASSUME NEW n \in Members, NEW x \in {"vote", "boost", "comment"}
          PROVE  recent'[n][x] <= maxActions[x]
        <3>1. x \in Limited /\ recent[n][x] \in Nat /\ maxActions[x] \in Nat /\ recent[n][x] <= maxActions[x]
            BY BrowsingAssumption DEF EngagementOK, Limited
        <3>2. CASE n = m /\ x = kind
            BY <3>1, <3>2, <2>2, <1>2 DEF WithinLimit
        <3>3. CASE ~ (n = m /\ x = kind)
            BY <3>1, <3>3, <2>2
        <3> QED
            BY <3>2, <3>3
    <2> QED
        BY <2>2, <2>3, <2>4
<1>3. CASE /\ kind \in Kinds /\ WithinLimit(m, kind) /\ <<kind, m, p>> \notin keys
           /\ Counts(m, kind)
           /\ keys' = keys \cup {<<kind, m, p>>}
           /\ tally' = [tally EXCEPT ![p][kind] = @ + 1]
    <2>1. kind \in {"vote", "boost", "comment"}
        BY <1>3 DEF Kinds
    <2>2. keys' \subseteq Kinds \X Members \X Feed
        BY <1>3 DEF EngagementOK
    <2>3. /\ tally' \in [Feed -> [Kinds -> Nat]]
          /\ tally'[p][kind] = tally[p][kind] + 1
          /\ \A q \in Feed, j \in Kinds : <<q, j>> # <<p, kind>> => tally'[q][j] = tally[q][j]
        BY <1>3, TallyIs DEF EngagementOK
    <2>4. /\ Cardinality(KeyHolders(keys', kind, p)) = Cardinality(KeyHolders(keys, kind, p)) + 1
          /\ \A q \in Feed, j \in Kinds :
                <<q, j>> # <<p, kind>> => KeyHolders(keys', j, q) = KeyHolders(keys, j, q)
        BY <1>3, KeyAdded
    <2>5. expired' = expired /\ expired \in [Feed -> [Kinds -> Nat]]
        BY DEF EngagementOK
    <2>6. ASSUME NEW q \in Feed, NEW j \in Kinds
          PROVE  tally'[q][j] = Cardinality(KeyHolders(keys', j, q)) + expired'[q][j]
        <3>1. /\ tally[q][j] = Cardinality(KeyHolders(keys, j, q)) + expired[q][j]
              /\ Cardinality(KeyHolders(keys, j, q)) \in Nat /\ expired[q][j] \in Nat
            BY HoldersFinite DEF EngagementOK
        <3>2. CASE q = p /\ j = kind
            BY <3>1, <3>2, <2>3, <2>4, <2>5
        <3>3. CASE ~ (q = p /\ j = kind)
            BY <3>1, <3>3, <2>3, <2>4, <2>5
        <3> QED
            BY <3>2, <3>3
    <2> QED
        BY <1>2, <1>3, <2>1, <2>2, <2>3, <2>5, <2>6 DEF EngagementOK
<1>4. CASE kind = "comment" /\ WithinLimit(m, kind) /\ Counts(m, kind) /\ UNCHANGED <<keys, tally>>
    BY <1>2, <1>4 DEF EngagementOK
<1> QED
    BY <1>0, <1>1, <1>3, <1>4

LEMMA RecordEmojiKeeps ==
    ASSUME EmojisOK, NEW m \in Members, NEW p \in Feed, NEW e \in Emojis, RecordEmojiReaction(m, p, e)
    PROVE  EmojisOK'
<1>1. CASE UNCHANGED emojiVars
    BY <1>1 DEF EmojisOK, emojiVars
<1>2. CASE /\ <<p, m, e>> \notin reactors
           /\ reactors' = reactors \cup {<<p, m, e>>}
           /\ reactions' = [reactions EXCEPT ![p][e] = @ + 1]
    <2>1. reactors' \subseteq Feed \X Members \X Emojis
        BY <1>2 DEF EmojisOK
    <2>2. /\ reactions' \in [Feed -> [Emojis -> Nat]]
          /\ reactions'[p][e] = reactions[p][e] + 1
          /\ \A q \in Feed, f \in Emojis : <<q, f>> # <<p, e>> => reactions'[q][f] = reactions[q][f]
        BY <1>2, ReactionsIs DEF EmojisOK
    <2>3. /\ Cardinality(Reactors(reactors', p, e)) = Cardinality(Reactors(reactors, p, e)) + 1
          /\ \A q \in Feed, f \in Emojis :
                <<q, f>> # <<p, e>> => Reactors(reactors', q, f) = Reactors(reactors, q, f)
        BY <1>2, ReactorAdded
    <2>4. ASSUME NEW q \in Feed, NEW f \in Emojis
          PROVE  reactions'[q][f] = Cardinality(Reactors(reactors', q, f))
        <3>1. reactions[q][f] = Cardinality(Reactors(reactors, q, f))
            BY DEF EmojisOK
        <3>2. CASE q = p /\ f = e
            BY <3>1, <3>2, <2>2, <2>3
        <3>3. CASE ~ (q = p /\ f = e)
            BY <3>1, <3>3, <2>2, <2>3
        <3> QED
            BY <3>2, <3>3
    <2> QED
        BY <2>1, <2>2, <2>4 DEF EmojisOK
<1> QED
    BY <1>1, <1>2 DEF RecordEmojiReaction
LEMMA WindowSlidesKeeps ==
    ASSUME BrowsingInd, NEW m \in Members, NEW x \in Limited, WindowSlides(m, x)
    PROVE  BrowsingInd'
<1>1. /\ recent' \in [Members -> [Limited -> Nat]]
      /\ \A n \in Members, y \in Limited : recent'[n][y] <= recent[n][y]
    BY DEF WindowSlides, BrowsingInd, EngagementOK
<1>2. UNCHANGED <<keys, tally, emojiVars, session, pastVars>>
    BY DEF WindowSlides
<1>3. \A n \in Members : Under(n)' = Under(n)
    BY <1>2 DEF Under
<1>4. SessionsOK' /\ EmojisOK'
    BY <1>2 DEF BrowsingInd, SessionsOK, SessionOK, EmojisOK, emojiVars
<1>5. EngagementOK'
    <2>1. ASSUME NEW n \in Members, NEW y \in {"vote", "boost", "comment"} PROVE recent'[n][y] <= maxActions[y]
        <3>1. /\ recent[n][y] <= maxActions[y] /\ recent'[n][y] <= recent[n][y]
              /\ recent[n][y] \in Nat /\ recent'[n][y] \in Nat /\ maxActions[y] \in Nat
            BY <1>1, BrowsingAssumption DEF BrowsingInd, EngagementOK, Limited
        <3> QED
            BY <3>1
    <2> QED
        BY <1>1, <1>2, <2>1 DEF BrowsingInd, EngagementOK, pastVars
<1>6. BrowsingBounded'
    <2> SUFFICES ASSUME NEW n \in Members
        PROVE  recent'[n]["browse"] + Cardinality(Under(n)) + 1
                   <= maxActions["browse"] + (IF together[n] = 0 THEN 1 ELSE together[n])
        BY <1>2, <1>3 DEF BrowsingInd, BrowsingBounded, pastVars
    <2>1. /\ recent'[n]["browse"] <= recent[n]["browse"]
          /\ recent[n]["browse"] \in Nat /\ recent'[n]["browse"] \in Nat
          /\ maxActions["browse"] \in Nat /\ Cardinality(Under(n)) \in Nat /\ together[n] \in Nat
        BY <1>1, BrowsingAssumption, UnderFinite DEF BrowsingInd, EngagementOK, BrowsingBounded, Limited
    <2>2. recent[n]["browse"] + Cardinality(Under(n)) + 1
              <= maxActions["browse"] + (IF together[n] = 0 THEN 1 ELSE together[n])
        BY DEF BrowsingInd, BrowsingBounded
    <2> QED
        BY <2>1, <2>2
<1> QED
    BY <1>4, <1>5, <1>6 DEF BrowsingInd

LEMMA KeyExpiresKeeps ==
    ASSUME BrowsingInd, NEW key \in keys, KeyExpires(key)
    PROVE  BrowsingInd'
<1>1. PICK k \in Kinds, m \in Members, p \in Feed : key = <<k, m, p>>
    BY DEF BrowsingInd, EngagementOK
<1>2. /\ keys' = keys \ {<<k, m, p>>}
      /\ expired' = [expired EXCEPT ![p][k] = @ + 1]
      /\ UNCHANGED <<recent, tally, emojiVars, session, together>>
    BY <1>1 DEF KeyExpires
<1>3. \A n \in Members : Under(n)' = Under(n)
    BY <1>2 DEF Under
<1>4. SessionsOK' /\ EmojisOK' /\ BrowsingBounded'
    BY <1>2, <1>3 DEF BrowsingInd, SessionsOK, SessionOK, EmojisOK, emojiVars, BrowsingBounded
<1>5. EngagementOK'
    <2>1. /\ expired' \in [Feed -> [Kinds -> Nat]]
          /\ expired'[p][k] = expired[p][k] + 1
          /\ \A q \in Feed, j \in Kinds : <<q, j>> # <<p, k>> => expired'[q][j] = expired[q][j]
        BY <1>2 DEF BrowsingInd, EngagementOK
    <2>2. /\ Cardinality(KeyHolders(keys', k, p)) = Cardinality(KeyHolders(keys, k, p)) - 1
          /\ \A q \in Feed, j \in Kinds :
                <<q, j>> # <<p, k>> => KeyHolders(keys', j, q) = KeyHolders(keys, j, q)
        BY <1>1, <1>2, KeyRemoved
    <2>3. ASSUME NEW q \in Feed, NEW j \in Kinds
          PROVE  tally'[q][j] = Cardinality(KeyHolders(keys', j, q)) + expired'[q][j]
        <3>1. /\ tally[q][j] = Cardinality(KeyHolders(keys, j, q)) + expired[q][j] /\ tally' = tally
              /\ Cardinality(KeyHolders(keys, j, q)) \in Nat /\ expired[q][j] \in Nat
            BY <1>2, HoldersFinite DEF BrowsingInd, EngagementOK
        <3>2. CASE q = p /\ j = k
            <4>1. Cardinality(KeyHolders(keys', j, q)) = Cardinality(KeyHolders(keys, j, q)) - 1
                BY <3>2, <2>2
            <4>2. expired'[q][j] = expired[q][j] + 1
                BY <3>2, <2>1
            <4> QED
                BY <3>1, <4>1, <4>2
        <3>3. CASE ~ (q = p /\ j = k)
            BY <3>1, <3>3, <2>1, <2>2
        <3> QED
            BY <3>2, <3>3
    <2> QED
        BY <1>2, <2>1, <2>3 DEF BrowsingInd, EngagementOK
<1> QED
    BY <1>4, <1>5 DEF BrowsingInd

-----------------------------------------------------------------------------
(* A session's record, field by field, and what the updates make of it.    *)
Rec(a, w, l, p, es, ch, c, t, sg) ==
    [at |-> a, who |-> w, left |-> l, post |-> p, emojis |-> es, chain |-> ch,
     comments |-> c, thoughts |-> t, signal |-> sg]

LEMMA RecFields ==
    ASSUME NEW d \in SessionRecords
    PROVE  d = Rec(d.at, d.who, d.left, d.post, d.emojis, d.chain, d.comments, d.thoughts, d.signal)
BY DEF SessionRecords, Rec

NowAt(d, x) == [d EXCEPT !.at = x]

LEMMA RecAt ==
    ASSUME NEW a, NEW w, NEW l, NEW p, NEW es, NEW ch, NEW c, NEW t, NEW sg,
           NEW x
    PROVE  NowAt(Rec(a, w, l, p, es, ch, c, t, sg), x) = Rec(x, w, l, p, es, ch, c, t, sg)
BY DEF Rec, NowAt

Commented(d, x) == [d EXCEPT !.comments = x]

LEMMA RecComments ==
    ASSUME NEW a, NEW w, NEW l, NEW p, NEW es, NEW ch, NEW c, NEW t, NEW sg,
           NEW x
    PROVE  Commented(Rec(a, w, l, p, es, ch, c, t, sg), x) = Rec(a, w, l, p, es, ch, x, t, sg)
BY DEF Rec, Commented

Begun(d, x, y, z) == [d EXCEPT !.at = x, !.who = y, !.left = z]

LEMMA RecBegins ==
    ASSUME NEW a, NEW w, NEW l, NEW p, NEW es, NEW ch, NEW c, NEW t, NEW sg,
           NEW x, NEW y, NEW z
    PROVE  Begun(Rec(a, w, l, p, es, ch, c, t, sg), x, y, z) = Rec(x, y, z, p, es, ch, c, t, sg)
<1>1. PICK r1 : r1 = [Rec(a, w, l, p, es, ch, c, t, sg) EXCEPT !.at = x]
    OBVIOUS
<1>2. r1 = Rec(x, w, l, p, es, ch, c, t, sg)
    BY <1>1 DEF Rec
<1>3. PICK r2 : r2 = [r1 EXCEPT !.who = y]
    OBVIOUS
<1>4. r2 = Rec(x, y, l, p, es, ch, c, t, sg)
    BY <1>2, <1>3 DEF Rec
<1>5. PICK r3 : r3 = [r2 EXCEPT !.left = z]
    OBVIOUS
<1>6. r3 = Rec(x, y, z, p, es, ch, c, t, sg)
    BY <1>4, <1>5 DEF Rec
<1>7. Begun(Rec(a, w, l, p, es, ch, c, t, sg), x, y, z) = r3
    BY <1>1, <1>3, <1>5 DEF Begun
<1> QED
    BY <1>6, <1>7

Deciding(d, x, y, z, u) == [d EXCEPT !.left = x, !.post = y, !.emojis = z, !.chain = u]

LEMMA RecDecides ==
    ASSUME NEW a, NEW w, NEW l, NEW p, NEW es, NEW ch, NEW c, NEW t, NEW sg,
           NEW x, NEW y, NEW z, NEW u
    PROVE  Deciding(Rec(a, w, l, p, es, ch, c, t, sg), x, y, z, u) = Rec(a, w, x, y, z, u, c, t, sg)
<1>1. PICK r1 : r1 = [Rec(a, w, l, p, es, ch, c, t, sg) EXCEPT !.left = x]
    OBVIOUS
<1>2. r1 = Rec(a, w, x, p, es, ch, c, t, sg)
    BY <1>1 DEF Rec
<1>3. PICK r2 : r2 = [r1 EXCEPT !.post = y]
    OBVIOUS
<1>4. r2 = Rec(a, w, x, y, es, ch, c, t, sg)
    BY <1>2, <1>3 DEF Rec
<1>5. PICK r3 : r3 = [r2 EXCEPT !.emojis = z]
    OBVIOUS
<1>6. r3 = Rec(a, w, x, y, z, ch, c, t, sg)
    BY <1>4, <1>5 DEF Rec
<1>7. PICK r4 : r4 = [r3 EXCEPT !.chain = u]
    OBVIOUS
<1>8. r4 = Rec(a, w, x, y, z, u, c, t, sg)
    BY <1>6, <1>7 DEF Rec
<1>9. Deciding(Rec(a, w, l, p, es, ch, c, t, sg), x, y, z, u) = r4
    BY <1>1, <1>3, <1>5, <1>7 DEF Deciding
<1> QED
    BY <1>8, <1>9

Thinking(d, x, y) == [d EXCEPT !.at = x, !.thoughts = y]

LEMMA RecThinks ==
    ASSUME NEW a, NEW w, NEW l, NEW p, NEW es, NEW ch, NEW c, NEW t, NEW sg,
           NEW x, NEW y
    PROVE  Thinking(Rec(a, w, l, p, es, ch, c, t, sg), x, y) = Rec(x, w, l, p, es, ch, c, y, sg)
<1>1. PICK r1 : r1 = [Rec(a, w, l, p, es, ch, c, t, sg) EXCEPT !.at = x]
    OBVIOUS
<1>2. r1 = Rec(x, w, l, p, es, ch, c, t, sg)
    BY <1>1 DEF Rec
<1>3. PICK r2 : r2 = [r1 EXCEPT !.thoughts = y]
    OBVIOUS
<1>4. r2 = Rec(x, w, l, p, es, ch, c, y, sg)
    BY <1>2, <1>3 DEF Rec
<1>5. Thinking(Rec(a, w, l, p, es, ch, c, t, sg), x, y) = r2
    BY <1>1, <1>3 DEF Thinking
<1> QED
    BY <1>4, <1>5

Reacting(d, x, y) == [d EXCEPT !.at = x, !.emojis = y]

LEMMA RecReacts ==
    ASSUME NEW a, NEW w, NEW l, NEW p, NEW es, NEW ch, NEW c, NEW t, NEW sg,
           NEW x, NEW y
    PROVE  Reacting(Rec(a, w, l, p, es, ch, c, t, sg), x, y) = Rec(x, w, l, p, y, ch, c, t, sg)
<1>1. PICK r1 : r1 = [Rec(a, w, l, p, es, ch, c, t, sg) EXCEPT !.at = x]
    OBVIOUS
<1>2. r1 = Rec(x, w, l, p, es, ch, c, t, sg)
    BY <1>1 DEF Rec
<1>3. PICK r2 : r2 = [r1 EXCEPT !.emojis = y]
    OBVIOUS
<1>4. r2 = Rec(x, w, l, p, y, ch, c, t, sg)
    BY <1>2, <1>3 DEF Rec
<1>5. Reacting(Rec(a, w, l, p, es, ch, c, t, sg), x, y) = r2
    BY <1>1, <1>3 DEF Reacting
<1> QED
    BY <1>4, <1>5

LEMMA RecNext ==
    ASSUME NEW a, NEW w, NEW l, NEW p, NEW es, NEW ch, NEW c, NEW t, NEW sg
    PROVE  \E no \in BOOLEAN : ToNextDecision(Rec(a, w, l, p, es, ch, c, t, sg))
                                = Rec("acting", w, l, NoPost, {}, no, c, t, sg)
<1> PICK no \in BOOLEAN : no = FALSE
    OBVIOUS
<1>1. PICK r1 : r1 = [Rec(a, w, l, p, es, ch, c, t, sg) EXCEPT !.at = "acting"]
    OBVIOUS
<1>2. r1 = Rec("acting", w, l, p, es, ch, c, t, sg)
    BY <1>1 DEF Rec
<1>3. PICK r2 : r2 = [r1 EXCEPT !.post = NoPost]
    OBVIOUS
<1>4. r2 = Rec("acting", w, l, NoPost, es, ch, c, t, sg)
    BY <1>2, <1>3 DEF Rec
<1>5. PICK r3 : r3 = [r2 EXCEPT !.chain = no]
    OBVIOUS
<1>6. r3 = Rec("acting", w, l, NoPost, es, no, c, t, sg)
    BY <1>4, <1>5 DEF Rec
<1>7. PICK r4 : r4 = [r3 EXCEPT !.emojis = {}]
    OBVIOUS
<1>8. r4 = Rec("acting", w, l, NoPost, {}, no, c, t, sg)
    BY <1>6, <1>7 DEF Rec
<1>9. ToNextDecision(Rec(a, w, l, p, es, ch, c, t, sg)) = r4
    BY <1>1, <1>3, <1>5, <1>7 DEF ToNextDecision
<1> QED
    BY <1>8, <1>9

Raised(sg, q) == [sg EXCEPT ![Author[q]] = @ + 1]

LEMMA RecEmits ==
    ASSUME NEW a, NEW w, NEW l, NEW p, NEW es, NEW ch, NEW c, NEW t, NEW sg, NEW q
    PROVE  Emitted(Rec(a, w, l, p, es, ch, c, t, sg), q) = Rec(a, w, l, p, es, ch, c, t, Raised(sg, q))
BY DEF Rec, Emitted, Raised

-----------------------------------------------------------------------------
(* A session that goes on as the same agent's keeps the bound on sessions. *)
LEMMA SessionGoesOn ==
    ASSUME SessionsOK, BrowsingBounded, NEW s \in Sessions, NEW rec, Becomes(s, rec), SessionOK(rec),
           session[s].at # "idle", rec.at # "idle", rec.who = session[s].who,
           \A m \in Members : recent'[m]["browse"] = recent[m]["browse"], together' = together
    PROVE  SessionsOK' /\ BrowsingBounded'
<1>1. /\ session' \in [Sessions -> SessionRecords]
      /\ session'[s] = rec /\ \A t \in Sessions : t # s => session'[t] = session[t]
    BY DEF Becomes, SessionsOK, SessionOK
<1>2. SessionsOK'
    BY <1>1 DEF SessionsOK, SessionOK
<1>3. ASSUME NEW m \in Members PROVE Under(m)' = Under(m)
    <2>1. \A t \in Sessions : /\ session'[t].at # "idle" <=> session[t].at # "idle"
                              /\ session'[t].who = session[t].who
        BY <1>1
    <2> QED
        BY <2>1 DEF Under
<1>4. BrowsingBounded'
    BY <1>3 DEF BrowsingBounded
<1> QED
    BY <1>2, <1>4

LEMMA BrowseBeginsKeeps ==
    ASSUME BrowsingInd, NEW s \in Sessions, NEW m \in Members, BrowseBegins(s, m)
    PROVE  BrowsingInd'
<1>1. /\ session[s].at = "idle" /\ recent[m]["browse"] < maxActions["browse"]
      /\ together' = [together EXCEPT ![m] = IF @ > Cardinality(Under(m)) THEN @ ELSE Cardinality(Under(m)) + 1]
      /\ UNCHANGED <<engageVars, emojiVars, expired>>
    BY DEF BrowseBegins, WithinLimit
<1>2. PICK n \in 0..MaxActions : Becomes(s, [NoSession EXCEPT !.at = "acting", !.who = m, !.left = n])
    BY DEF BrowseBegins
<1>3. NoSession = Rec("idle", NoMember, 0, NoPost, {}, FALSE, 0, 0, [a \in Authors |-> 0])
    BY DEF NoSession, Rec
<1>4. PICK none : none = [a \in Authors |-> 0]
    OBVIOUS
<1>5. PICK rec : rec = Begun(NoSession, "acting", m, n)
    OBVIOUS
<1>6. rec = Rec("acting", m, n, NoPost, {}, FALSE, 0, 0, none)
    <2>1. PICK no : no = FALSE
        OBVIOUS
    <2>2. Begun(Rec("idle", NoMember, 0, NoPost, {}, no, 0, 0, none), "acting", m, n)
          = Rec("acting", m, n, NoPost, {}, no, 0, 0, none)
        BY RecBegins
    <2> QED
        BY <1>3, <1>4, <1>5, <2>1, <2>2
<1>7. SessionOK(rec) /\ rec.at = "acting" /\ rec.who = m
    <2>1. rec \in SessionRecords
        BY <1>4, <1>6, BrowsingAssumption DEF SessionRecords, Places, Rec
    <2>2. /\ rec.at = "acting" /\ rec.who = m /\ rec.comments = 0 /\ rec.thoughts = 0
          /\ \A a \in Authors : rec.signal[a] = 0
        BY <1>4, <1>6 DEF Rec
    <2> QED
        BY <2>1, <2>2, BrowsingAssumption DEF SessionOK
<1>8. /\ session' \in [Sessions -> SessionRecords]
      /\ session'[s] = rec /\ \A t \in Sessions : t # s => session'[t] = session[t]
    BY <1>2, <1>5, <1>7 DEF Becomes, BrowsingInd, SessionsOK, SessionOK, Begun
<1>9. SessionsOK'
    BY <1>7, <1>8 DEF BrowsingInd, SessionsOK, SessionOK
<1>10. EngagementOK' /\ EmojisOK'
    BY <1>1 DEF BrowsingInd, EngagementOK, EmojisOK, engageVars, emojiVars
<1>11. BrowsingBounded'
    <2>1. /\ together' \in [Members -> Nat] /\ together \in [Members -> Nat]
          /\ together'[m] = (IF together[m] > Cardinality(Under(m)) THEN together[m] ELSE Cardinality(Under(m)) + 1)
          /\ \A o \in Members : o # m => together'[o] = together[o]
        BY <1>1, UnderFinite DEF BrowsingInd, BrowsingBounded
    <2>2. s \notin Under(m) /\ Under(m)' = Under(m) \cup {s}
        BY <1>1, <1>7, <1>8 DEF Under
    <2>3. Cardinality(Under(m) \cup {s}) = Cardinality(Under(m)) + 1
        BY <2>2, UnderFinite, FS_AddElement
    <2>4. \A o \in Members : o # m => Under(o)' = Under(o)
        BY <1>1, <1>7, <1>8 DEF Under
    <2>5. recent' = recent
        BY <1>1 DEF engageVars
    <2> SUFFICES ASSUME NEW o \in Members
        PROVE  /\ Cardinality(Under(o)') <= together'[o]
               /\ recent[o]["browse"] + Cardinality(Under(o)') + 1
                     <= maxActions["browse"] + (IF together'[o] = 0 THEN 1 ELSE together'[o])
        BY <2>1, <2>5 DEF BrowsingBounded
    <2>6. /\ Cardinality(Under(o)) <= together[o]
          /\ recent[o]["browse"] + Cardinality(Under(o)) + 1
                <= maxActions["browse"] + (IF together[o] = 0 THEN 1 ELSE together[o])
          /\ recent[o]["browse"] \in Nat /\ together[o] \in Nat /\ together'[o] \in Nat
          /\ Cardinality(Under(o)) \in Nat /\ maxActions["browse"] \in Nat
        BY <2>1, UnderFinite, BrowsingAssumption DEF BrowsingInd, EngagementOK, BrowsingBounded, Limited
    <2>7. CASE o # m
        BY <2>6, <2>7, <2>1, <2>4
    <2>8. CASE o = m
        BY <2>6, <2>8, <2>1, <2>2, <2>3, <1>1
    <2> QED
        BY <2>7, <2>8
<1> QED
    BY <1>9, <1>10, <1>11 DEF BrowsingInd

LEMMA BrowseEndsKeeps ==
    ASSUME BrowsingInd, NEW s \in Sessions, BrowseEnds(s)
    PROVE  BrowsingInd'
<1>1. PICK m : m = session[s].who
    OBVIOUS
<1>2. /\ session[s].at \in {"acting", "reflecting"}
      /\ Becomes(s, NoSession) /\ Counts(m, "browse")
      /\ UNCHANGED <<keys, tally, emojiVars, pastVars>>
    BY <1>1 DEF BrowseEnds
<1>3. m \in Members
    BY <1>1, <1>2 DEF BrowsingInd, SessionsOK, SessionOK
<1>4. SessionOK(NoSession)
    BY BrowsingAssumption DEF SessionOK, SessionRecords, NoSession, Places
<1>5. /\ session' \in [Sessions -> SessionRecords]
      /\ session'[s] = NoSession /\ \A t \in Sessions : t # s => session'[t] = session[t]
    BY <1>2, <1>4 DEF Becomes, BrowsingInd, SessionsOK, SessionOK
<1>6. SessionsOK'
    BY <1>4, <1>5 DEF BrowsingInd, SessionsOK, SessionOK
<1>7. /\ recent' \in [Members -> [Limited -> Nat]]
      /\ recent'[m]["browse"] = recent[m]["browse"] + 1
      /\ \A n \in Members, y \in Limited : <<n, y>> # <<m, "browse">> => recent'[n][y] = recent[n][y]
    BY <1>2, <1>3, CountsIs DEF BrowsingInd, EngagementOK, Limited
<1>8. EngagementOK'
    BY <1>2, <1>7 DEF BrowsingInd, EngagementOK, Limited, pastVars
<1>9. EmojisOK'
    BY <1>2 DEF BrowsingInd, EmojisOK, emojiVars
<1>10. BrowsingBounded'
    <2>1. s \in Under(m) /\ Under(m)' = Under(m) \ {s}
        BY <1>1, <1>2, <1>5 DEF Under, NoSession
    <2>2. Cardinality(Under(m) \ {s}) = Cardinality(Under(m)) - 1
        BY <1>3, <2>1, UnderFinite, FS_RemoveElement
    <2>3. \A o \in Members : o # m => Under(o)' = Under(o)
        BY <1>1, <1>2, <1>5 DEF Under, NoSession
    <2>4. together' = together
        BY <1>2 DEF pastVars
    <2> SUFFICES ASSUME NEW o \in Members
        PROVE  /\ Cardinality(Under(o)') <= together[o]
               /\ recent'[o]["browse"] + Cardinality(Under(o)') + 1
                     <= maxActions["browse"] + (IF together[o] = 0 THEN 1 ELSE together[o])
        BY <2>4 DEF BrowsingInd, BrowsingBounded
    <2>5. /\ Cardinality(Under(o)) <= together[o]
          /\ recent[o]["browse"] + Cardinality(Under(o)) + 1
                <= maxActions["browse"] + (IF together[o] = 0 THEN 1 ELSE together[o])
          /\ recent[o]["browse"] \in Nat /\ together[o] \in Nat
          /\ Cardinality(Under(o)) \in Nat /\ maxActions["browse"] \in Nat
        BY UnderFinite, BrowsingAssumption DEF BrowsingInd, EngagementOK, BrowsingBounded, Limited
    <2>6. CASE o # m
        <3>1. recent'[o]["browse"] = recent[o]["browse"]
            BY <2>6, <1>7 DEF Limited
        <3> QED
            BY <2>5, <2>6, <2>3, <3>1
    <2>7. CASE o = m
        BY <2>5, <2>7, <2>1, <2>2, <1>7
    <2> QED
        BY <2>6, <2>7
<1> QED
    BY <1>6, <1>8, <1>9, <1>10 DEF BrowsingInd
-----------------------------------------------------------------------------
(* The steps of a session under way.                                       *)
(* What a session under way satisfies, said of the fields one by one.      *)
Fields(a, w, l, p, es, ch, c, t, sg) ==
    /\ a \in Places \ {"idle"} /\ w \in Members /\ l \in Nat /\ p \in Feed \cup {NoPost}
    /\ es \in SUBSET Emojis /\ ch \in BOOLEAN /\ c \in Nat /\ t \in Nat
    /\ sg \in [Authors -> Nat]
    /\ a \in {"upvoted", "voted", "boosted", "emojis", "reacting"} => p \in Feed
    /\ a \in {"boosted", "reacting"} => sg[Author[p]] < maxHighSignalPerAuthor
    /\ \A x \in Authors : sg[x] <= maxHighSignalPerAuthor
    /\ c <= maxCommentStimuli /\ t <= maxCreatePostStimuli

LEMMA RecOK ==
    ASSUME NEW a, NEW w, NEW l, NEW p, NEW es, NEW ch, NEW c, NEW t, NEW sg, NEW rec,
           Fields(a, w, l, p, es, ch, c, t, sg), rec = Rec(a, w, l, p, es, ch, c, t, sg)
    PROVE  SessionOK(rec) /\ rec.at # "idle" /\ rec.who = w
<1>1. rec \in SessionRecords
    BY DEF Rec, SessionRecords, Fields
<1>2. /\ rec.at = a /\ rec.who = w /\ rec.post = p /\ rec.signal = sg
      /\ rec.comments = c /\ rec.thoughts = t
    BY DEF Rec
<1> QED
    BY <1>1, <1>2 DEF SessionOK, Fields

LEMMA SessionHas ==
    ASSUME SessionsOK, NEW s \in Sessions, session[s].at # "idle"
    PROVE  \E a, w, l, p, es, ch, c, t, sg :
               /\ session[s] = Rec(a, w, l, p, es, ch, c, t, sg)
               /\ Fields(a, w, l, p, es, ch, c, t, sg)
               /\ a = session[s].at /\ w = session[s].who /\ l = session[s].left /\ p = session[s].post
               /\ es = session[s].emojis /\ ch = session[s].chain /\ c = session[s].comments
               /\ t = session[s].thoughts /\ sg = session[s].signal
<1>1. PICK d : d = session[s]
    OBVIOUS
<1>2. d \in SessionRecords /\ d.at # "idle" /\ SessionOK(d)
    BY <1>1 DEF SessionsOK
<1>3. d = Rec(d.at, d.who, d.left, d.post, d.emojis, d.chain, d.comments, d.thoughts, d.signal)
    BY <1>2, RecFields
<1>4. Fields(d.at, d.who, d.left, d.post, d.emojis, d.chain, d.comments, d.thoughts, d.signal)
    <2>1. /\ d.at \in Places \ {"idle"} /\ d.left \in Nat /\ d.post \in Feed \cup {NoPost}
          /\ d.emojis \in SUBSET Emojis /\ d.chain \in BOOLEAN /\ d.comments \in Nat /\ d.thoughts \in Nat
          /\ d.signal \in [Authors -> Nat]
        BY <1>2 DEF SessionRecords
    <2> QED
        BY <1>2, <2>1 DEF SessionOK, Fields
<1> QED
    BY <1>1, <1>3, <1>4

LEMMA SignalRises ==
    ASSUME NEW sg \in [Authors -> Nat], NEW p \in Feed, sg[Author[p]] < maxHighSignalPerAuthor,
           \A a \in Authors : sg[a] <= maxHighSignalPerAuthor
    PROVE  /\ Raised(sg, p) \in [Authors -> Nat]
           /\ \A a \in Authors : Raised(sg, p)[a] <= maxHighSignalPerAuthor
BY BrowsingAssumption DEF Raised

LEMMA SessionStepKeeps ==
    ASSUME BrowsingInd, NEW s \in Sessions, NEW rec, Becomes(s, rec), SessionOK(rec),
           session[s].at # "idle", rec.at # "idle", rec.who = session[s].who,
           EngagementOK', EmojisOK',
           \A m \in Members : recent'[m]["browse"] = recent[m]["browse"], together' = together
    PROVE  BrowsingInd'
BY SessionGoesOn DEF BrowsingInd

LEMMA ReflectsKeeps ==
    ASSUME BrowsingInd, NEW s \in Sessions, Reflects(s)
    PROVE  BrowsingInd'
<1>1. /\ session[s].at = "acting" /\ Becomes(s, NowAt(session[s], "reflecting"))
      /\ UNCHANGED <<engageVars, emojiVars, pastVars>>
    BY DEF Reflects, NowAt
<1>2. PICK a, w, l, p, es, ch, c, t, sg :
          /\ session[s] = Rec(a, w, l, p, es, ch, c, t, sg)
          /\ Fields(a, w, l, p, es, ch, c, t, sg) /\ w = session[s].who
    BY <1>1, SessionHas DEF BrowsingInd
<1>3. PICK rec : rec = NowAt(session[s], "reflecting")
    OBVIOUS
<1>4. rec = Rec("reflecting", w, l, p, es, ch, c, t, sg)
    <2>1. NowAt(Rec(a, w, l, p, es, ch, c, t, sg), "reflecting") = Rec("reflecting", w, l, p, es, ch, c, t, sg)
        BY RecAt
    <2> QED
        BY <1>2, <1>3, <2>1
<1>5. Fields("reflecting", w, l, p, es, ch, c, t, sg)
    BY <1>2 DEF Fields, Places
<1>6. EngagementOK' /\ EmojisOK' /\ recent' = recent /\ together' = together
    BY <1>1 DEF BrowsingInd, EngagementOK, EmojisOK, engageVars, emojiVars, pastVars
<1>7. SessionOK(rec) /\ rec.at # "idle" /\ rec.who = w
    BY <1>4, <1>5, RecOK
<1> QED
    BY <1>1, <1>2, <1>3, <1>6, <1>7, SessionStepKeeps

LEMMA EmojisSkippedKeeps ==
    ASSUME BrowsingInd, NEW s \in Sessions, EmojisSkipped(s)
    PROVE  BrowsingInd'
<1>1. /\ session[s].at = "emojis" /\ Becomes(s, ToNextDecision(session[s]))
      /\ UNCHANGED <<engageVars, emojiVars, pastVars>>
    BY DEF EmojisSkipped
<1>2. PICK a, w, l, p, es, ch, c, t, sg :
          /\ session[s] = Rec(a, w, l, p, es, ch, c, t, sg)
          /\ Fields(a, w, l, p, es, ch, c, t, sg)
          /\ a = session[s].at /\ w = session[s].who /\ p = session[s].post
          /\ es = session[s].emojis /\ sg = session[s].signal /\ t = session[s].thoughts
    BY <1>1, SessionHas DEF BrowsingInd
<1>3. PICK rec : rec = ToNextDecision(session[s])
    OBVIOUS
<1>4. PICK no \in BOOLEAN :
          ToNextDecision(Rec(a, w, l, p, es, ch, c, t, sg)) = Rec("acting", w, l, NoPost, {}, no, c, t, sg)
    BY RecNext
<1>5. rec = Rec("acting", w, l, NoPost, {}, no, c, t, sg)
    BY <1>2, <1>3, <1>4
<1>6. Fields("acting", w, l, NoPost, {}, no, c, t, sg)
    BY <1>2, <1>4 DEF Fields, Places
<1>7. EngagementOK' /\ EmojisOK' /\ recent' = recent /\ together' = together
    BY <1>1 DEF BrowsingInd, EngagementOK, EmojisOK, engageVars, emojiVars, pastVars
<1>8. SessionOK(rec) /\ rec.at # "idle" /\ rec.who = w
    BY <1>5, <1>6, RecOK
<1> QED
    BY <1>1, <1>2, <1>3, <1>7, <1>8, SessionStepKeeps

LEMMA EmojisGivenKeeps ==
    ASSUME BrowsingInd, NEW s \in Sessions, EmojisGiven(s)
    PROVE  BrowsingInd'
<1>1. /\ session[s].at = "reacting" /\ Becomes(s, ToNextDecision(Emitted(session[s], session[s].post)))
      /\ UNCHANGED <<engageVars, emojiVars, pastVars>>
    BY DEF EmojisGiven
<1>2. PICK a, w, l, p, es, ch, c, t, sg :
          /\ session[s] = Rec(a, w, l, p, es, ch, c, t, sg)
          /\ Fields(a, w, l, p, es, ch, c, t, sg)
          /\ a = session[s].at /\ w = session[s].who /\ p = session[s].post
          /\ es = session[s].emojis /\ sg = session[s].signal /\ t = session[s].thoughts
    BY <1>1, SessionHas DEF BrowsingInd
<1>3. PICK rec : rec = ToNextDecision(Emitted(session[s], session[s].post))
    OBVIOUS
<1>4. PICK more : more = Raised(sg, p)
    OBVIOUS
<1>5. PICK no \in BOOLEAN :
          ToNextDecision(Rec(a, w, l, p, es, ch, c, t, more)) = Rec("acting", w, l, NoPost, {}, no, c, t, more)
    BY RecNext
<1>6. /\ p \in Feed /\ sg \in [Authors -> Nat] /\ sg[Author[p]] < maxHighSignalPerAuthor
      /\ \A x \in Authors : sg[x] <= maxHighSignalPerAuthor
    BY <1>1, <1>2 DEF Fields
<1>7. more \in [Authors -> Nat] /\ \A x \in Authors : more[x] <= maxHighSignalPerAuthor
    BY <1>4, <1>6, SignalRises
<1>8. rec = Rec("acting", w, l, NoPost, {}, no, c, t, more)
    <2>1. Emitted(Rec(a, w, l, p, es, ch, c, t, sg), p) = Rec(a, w, l, p, es, ch, c, t, more)
        BY <1>4, RecEmits
    <2>2. rec = ToNextDecision(Emitted(Rec(a, w, l, p, es, ch, c, t, sg), p))
        BY <1>2, <1>3
    <2> QED
        BY <1>5, <2>1, <2>2
<1>9. Fields("acting", w, l, NoPost, {}, no, c, t, more)
    BY <1>2, <1>5, <1>7 DEF Fields, Places
<1>10. EngagementOK' /\ EmojisOK' /\ recent' = recent /\ together' = together
    BY <1>1 DEF BrowsingInd, EngagementOK, EmojisOK, engageVars, emojiVars, pastVars
<1>11. SessionOK(rec) /\ rec.at # "idle" /\ rec.who = w
    BY <1>8, <1>9, RecOK
<1> QED
    BY <1>1, <1>2, <1>3, <1>10, <1>11, SessionStepKeeps

LEMMA GivesEmojiKeeps ==
    ASSUME BrowsingInd, NEW s \in Sessions, GivesEmoji(s)
    PROVE  BrowsingInd'
<1>1. /\ session[s].at \in {"emojis", "reacting"}
      /\ session[s].at = "emojis" => CanEmit(s, session[s].post)
      /\ UNCHANGED <<recent, keys, tally, pastVars>>
    BY DEF GivesEmoji
<1>2. PICK e \in session[s].emojis :
          /\ RecordEmojiReaction(session[s].who, session[s].post, e)
          /\ Becomes(s, [session[s] EXCEPT !.at = "reacting", !.emojis = @ \ {e}])
    BY DEF GivesEmoji
<1>3. PICK a, w, l, p, es, ch, c, t, sg :
          /\ session[s] = Rec(a, w, l, p, es, ch, c, t, sg)
          /\ Fields(a, w, l, p, es, ch, c, t, sg)
          /\ a = session[s].at /\ w = session[s].who /\ p = session[s].post
          /\ es = session[s].emojis /\ sg = session[s].signal /\ t = session[s].thoughts
    BY <1>1, SessionHas DEF BrowsingInd
<1>4. PICK left : left = es \ {e}
    OBVIOUS
<1>5. PICK rec : rec = Reacting(session[s], "reacting", left)
    OBVIOUS
<1>6. Becomes(s, rec)
    BY <1>2, <1>3, <1>4, <1>5 DEF Reacting
<1>7. rec = Rec("reacting", w, l, p, left, ch, c, t, sg)
    <2>1. Reacting(Rec(a, w, l, p, es, ch, c, t, sg), "reacting", left) = Rec("reacting", w, l, p, left, ch, c, t, sg)
        BY RecReacts
    <2> QED
        BY <1>3, <1>5, <2>1
<1>8. p \in Feed /\ w \in Members /\ e \in Emojis /\ left \in SUBSET Emojis
    BY <1>1, <1>2, <1>3, <1>4 DEF Fields
<1>9. sg[Author[p]] < maxHighSignalPerAuthor
    BY <1>1, <1>3 DEF Fields, CanEmit
<1>10. Fields("reacting", w, l, p, left, ch, c, t, sg)
    BY <1>3, <1>8, <1>9 DEF Fields, Places
<1>11. SessionOK(rec) /\ rec.at # "idle" /\ rec.who = w
    BY <1>7, <1>10, RecOK
<1>12. EngagementOK' /\ recent' = recent /\ together' = together
    BY <1>1 DEF BrowsingInd, EngagementOK, pastVars
<1>13. EmojisOK'
    BY <1>2, <1>3, <1>8, RecordEmojiKeeps DEF BrowsingInd
<1> QED
    BY <1>1, <1>3, <1>6, <1>11, <1>12, <1>13, SessionStepKeeps

LEMMA BoostsKeeps ==
    ASSUME BrowsingInd, NEW s \in Sessions, Boosts(s)
    PROVE  BrowsingInd'
<1>1. session[s].at = "upvoted" /\ UNCHANGED <<emojiVars, pastVars>>
    BY DEF Boosts
<1>2. PICK a, w, l, p, es, ch, c, t, sg :
          /\ session[s] = Rec(a, w, l, p, es, ch, c, t, sg)
          /\ Fields(a, w, l, p, es, ch, c, t, sg)
          /\ a = session[s].at /\ w = session[s].who /\ p = session[s].post
          /\ es = session[s].emojis /\ sg = session[s].signal /\ t = session[s].thoughts
    BY <1>1, SessionHas DEF BrowsingInd
<1>3. PICK to \in {"voted", "boosted"} :
          /\ Becomes(s, NowAt(session[s], to))
          /\ to = "boosted" => CanEmit(s, p)
          /\ RecordEngagement(w, p, "boost")
    BY <1>2 DEF Boosts, RecordEngagement, NowAt
<1>4. p \in Feed /\ w \in Members
    BY <1>1, <1>2 DEF Fields
<1>5. EngagementOK' /\ \A n \in Members : recent'[n]["browse"] = recent[n]["browse"]
    BY <1>1, <1>3, <1>4, RecordEngagementKeeps DEF BrowsingInd, pastVars
<1>6. EmojisOK' /\ together' = together
    BY <1>1 DEF BrowsingInd, EmojisOK, emojiVars, pastVars
<1>7. PICK rec : rec = NowAt(session[s], to)
    OBVIOUS
<1>8. rec = Rec(to, w, l, p, es, ch, c, t, sg)
    <2>1. NowAt(Rec(a, w, l, p, es, ch, c, t, sg), to) = Rec(to, w, l, p, es, ch, c, t, sg)
        BY RecAt
    <2> QED
        BY <1>2, <1>7, <2>1
<1>9. to = "boosted" => sg[Author[p]] < maxHighSignalPerAuthor
    BY <1>2, <1>3 DEF CanEmit
<1>10. Fields(to, w, l, p, es, ch, c, t, sg)
    BY <1>2, <1>4, <1>9 DEF Fields, Places
<1>11. SessionOK(rec) /\ rec.at # "idle" /\ rec.who = w
    BY <1>8, <1>10, RecOK
<1> QED
    BY <1>1, <1>2, <1>3, <1>5, <1>6, <1>7, <1>11, SessionStepKeeps

LEMMA CommentsKeeps ==
    ASSUME BrowsingInd, NEW s \in Sessions, Comments(s)
    PROVE  BrowsingInd'
<1>1. session[s].at \in {"voted", "boosted"} /\ UNCHANGED <<engageVars, emojiVars, pastVars>>
    BY DEF Comments
<1>2. PICK a, w, l, p, es, ch, c, t, sg :
          /\ session[s] = Rec(a, w, l, p, es, ch, c, t, sg)
          /\ Fields(a, w, l, p, es, ch, c, t, sg)
          /\ a = session[s].at /\ w = session[s].who /\ p = session[s].post
          /\ es = session[s].emojis /\ sg = session[s].signal /\ t = session[s].thoughts
    BY <1>1, SessionHas DEF BrowsingInd
<1>3. p \in Feed /\ w \in Members /\ sg \in [Authors -> Nat] /\ c \in Nat
    BY <1>1, <1>2 DEF Fields
<1>4. PICK marked :
          marked = IF session[s].at = "boosted" THEN Emitted(session[s], p) ELSE session[s]
    OBVIOUS
<1>5. PICK sg1 : /\ marked = Rec(a, w, l, p, es, ch, c, t, sg1)
                 /\ sg1 \in [Authors -> Nat] /\ \A x \in Authors : sg1[x] <= maxHighSignalPerAuthor
    <2>1. CASE session[s].at = "boosted"
        <3>1. PICK more : more = Raised(sg, p)
            OBVIOUS
        <3>2. Emitted(Rec(a, w, l, p, es, ch, c, t, sg), p) = Rec(a, w, l, p, es, ch, c, t, more)
            BY <3>1, RecEmits
        <3>3. more \in [Authors -> Nat] /\ \A x \in Authors : more[x] <= maxHighSignalPerAuthor
            BY <1>2, <1>3, <2>1, <3>1, SignalRises DEF Fields
        <3> QED
            BY <1>2, <1>4, <2>1, <3>2, <3>3
    <2>2. CASE session[s].at # "boosted"
        BY <1>2, <1>4, <2>2 DEF Fields
    <2> QED
        BY <2>1, <2>2
<1>6. PICK may \in BOOLEAN :
          /\ may => marked.comments < maxCommentStimuli /\ marked.signal[Author[p]] < maxHighSignalPerAuthor
          /\ Becomes(s, NowAt(IF may THEN [Emitted(marked, p) EXCEPT !.comments = @ + 1] ELSE marked, "emojis"))
    <2>1. PICK yes \in BOOLEAN : yes = (/\ marked.chain /\ marked.comments < maxCommentStimuli
                                        /\ marked.signal[Author[p]] < maxHighSignalPerAuthor)
        OBVIOUS
    <2>2. Becomes(s, NowAt(IF yes THEN [Emitted(marked, p) EXCEPT !.comments = @ + 1] ELSE marked, "emojis"))
        BY <1>2, <1>4, <2>1 DEF Comments, NowAt
    <2> QED
        BY <2>1, <2>2
<1>7. marked.comments = c /\ marked.signal = sg1
    BY <1>5 DEF Rec
<1>8. PICK said : said = IF may THEN [Emitted(marked, p) EXCEPT !.comments = @ + 1] ELSE marked
    OBVIOUS
<1>9. PICK c2, sg2 : /\ said = Rec(a, w, l, p, es, ch, c2, t, sg2)
                     /\ c2 \in Nat /\ c2 <= maxCommentStimuli
                     /\ sg2 \in [Authors -> Nat] /\ \A x \in Authors : sg2[x] <= maxHighSignalPerAuthor
    <2>1. CASE may
        <3>1. PICK more, d2 : more = Raised(sg1, p) /\ d2 = Rec(a, w, l, p, es, ch, c, t, more)
            OBVIOUS
        <3>2. Emitted(Rec(a, w, l, p, es, ch, c, t, sg1), p) = d2
            BY <3>1, RecEmits
        <3>3. d2.comments = c
            BY <3>1 DEF Rec
        <3>4. PICK c1 : c1 = c + 1
            OBVIOUS
        <3>5. Commented(Rec(a, w, l, p, es, ch, c, t, more), c1) = Rec(a, w, l, p, es, ch, c1, t, more)
            BY RecComments
        <3>6. [d2 EXCEPT !.comments = @ + 1] = Commented(d2, c1)
            BY <3>3, <3>4 DEF Commented
        <3>7. more \in [Authors -> Nat] /\ \A x \in Authors : more[x] <= maxHighSignalPerAuthor
            BY <1>3, <1>5, <1>6, <1>7, <2>1, <3>1, SignalRises
        <3>8. said = Rec(a, w, l, p, es, ch, c1, t, more)
            BY <1>5, <1>8, <2>1, <3>1, <3>2, <3>5, <3>6
        <3>9. c1 \in Nat /\ c1 <= maxCommentStimuli
            BY <1>3, <1>6, <1>7, <2>1, <3>4, BrowsingAssumption
        <3> QED
            BY <3>7, <3>8, <3>9
    <2>2. CASE ~ may
        <3>1. said = Rec(a, w, l, p, es, ch, c, t, sg1)
            BY <1>5, <1>8, <2>2
        <3>2. c <= maxCommentStimuli
            BY <1>2 DEF Fields
        <3> QED
            BY <1>3, <1>5, <3>1, <3>2
    <2> QED
        BY <2>1, <2>2
<1>10. PICK rec : rec = NowAt(said, "emojis")
    OBVIOUS
<1>11. rec = Rec("emojis", w, l, p, es, ch, c2, t, sg2)
    <2>1. NowAt(Rec(a, w, l, p, es, ch, c2, t, sg2), "emojis") = Rec("emojis", w, l, p, es, ch, c2, t, sg2)
        BY RecAt
    <2> QED
        BY <1>9, <1>10, <2>1
<1>12. Fields("emojis", w, l, p, es, ch, c2, t, sg2)
    BY <1>2, <1>3, <1>9 DEF Fields, Places
<1>13. SessionOK(rec) /\ rec.at # "idle" /\ rec.who = w
    BY <1>11, <1>12, RecOK
<1>14. Becomes(s, rec)
    BY <1>6, <1>8, <1>10
<1>15. EngagementOK' /\ EmojisOK' /\ recent' = recent /\ together' = together
    BY <1>1 DEF BrowsingInd, EngagementOK, EmojisOK, engageVars, emojiVars, pastVars
<1> QED
    BY <1>1, <1>2, <1>13, <1>14, <1>15, SessionStepKeeps

LEMMA DecidesKeeps ==
    ASSUME BrowsingInd, NEW s \in Sessions, Decides(s)
    PROVE  BrowsingInd'
<1>1. session[s].at = "acting" /\ session[s].left > 0 /\ UNCHANGED <<emojiVars, pastVars>>
    BY DEF Decides
<1>2. PICK a, w, l, p, es, ch, c, t, sg :
          /\ session[s] = Rec(a, w, l, p, es, ch, c, t, sg)
          /\ Fields(a, w, l, p, es, ch, c, t, sg)
          /\ w = session[s].who /\ l = session[s].left /\ t = session[s].thoughts
    BY <1>1, SessionHas DEF BrowsingInd
<1>3. PICK less : less = l - 1
    OBVIOUS
<1>4. PICK q \in Feed, fs \in SUBSET Emojis, chained \in BOOLEAN :
          LET d == Deciding(session[s], less, q, fs, chained) IN
          /\ \E type : RecordEngagement(w, q, type)
          /\ \/ \E to \in {"upvoted", "voted", "emojis"} : Becomes(s, NowAt(d, to))
             \/ t < maxCreatePostStimuli /\ Becomes(s, [d EXCEPT !.at = "emojis", !.thoughts = @ + 1])
    <2>1. PICK q \in {x \in Feed : Author[x] # session[s].who}, fs \in SUBSET Emojis, chained \in BOOLEAN :
        LET d == [session[s] EXCEPT !.left = @ - 1, !.post = q, !.emojis = fs, !.chain = chained] IN
        \/ /\ RecordEngagement(session[s].who, q, "like")
           /\ Becomes(s, [d EXCEPT !.at = "upvoted"])
        \/ /\ \E type \in {"downvote", "view"} : RecordEngagement(session[s].who, q, type)
           /\ Becomes(s, [d EXCEPT !.at = "voted"])
        \/ /\ ~chained /\ Becomes(s, [d EXCEPT !.at = "emojis"])
           /\ UNCHANGED engageVars
        \/ /\ chained /\ Becomes(s, [d EXCEPT !.at = "voted"])
           /\ UNCHANGED engageVars
        \/ /\ ~chained /\ session[s].thoughts < maxCreatePostStimuli
           /\ Becomes(s, [d EXCEPT !.at = "emojis", !.thoughts = @ + 1])
           /\ UNCHANGED engageVars
        BY DEF Decides
    <2>2. PICK d : d = Deciding(session[s], less, q, fs, chained)
        OBVIOUS
    <2>3. d = [session[s] EXCEPT !.left = @ - 1, !.post = q, !.emojis = fs, !.chain = chained]
        BY <1>2, <1>3, <2>2 DEF Deciding
    <2>4. UNCHANGED engageVars => RecordEngagement(w, q, "like")
        BY DEF RecordEngagement
    <2>5. \/ /\ RecordEngagement(w, q, "like")
             /\ Becomes(s, NowAt(d, "upvoted"))
          \/ /\ \E type \in {"downvote", "view"} : RecordEngagement(w, q, type)
             /\ Becomes(s, NowAt(d, "voted"))
          \/ Becomes(s, NowAt(d, "emojis")) /\ UNCHANGED engageVars
          \/ Becomes(s, NowAt(d, "voted")) /\ UNCHANGED engageVars
          \/ /\ t < maxCreatePostStimuli
             /\ Becomes(s, [d EXCEPT !.at = "emojis", !.thoughts = @ + 1])
             /\ UNCHANGED engageVars
        BY <1>2, <2>1, <2>3 DEF NowAt
    <2>6. /\ \E type : RecordEngagement(w, q, type)
          /\ \/ \E to \in {"upvoted", "voted", "emojis"} : Becomes(s, NowAt(d, to))
             \/ t < maxCreatePostStimuli /\ Becomes(s, [d EXCEPT !.at = "emojis", !.thoughts = @ + 1])
        BY <2>4, <2>5
    <2> QED
        BY <2>1, <2>2, <2>6
<1>5. PICK type : RecordEngagement(w, q, type)
    BY <1>4
<1>6. PICK d : d = Deciding(session[s], less, q, fs, chained)
    OBVIOUS
<1>7. d = Rec(a, w, less, q, fs, chained, c, t, sg)
    <2>1. Deciding(Rec(a, w, l, p, es, ch, c, t, sg), less, q, fs, chained)
          = Rec(a, w, less, q, fs, chained, c, t, sg)
        BY RecDecides
    <2> QED
        BY <1>2, <1>6, <2>1
<1>8. less \in Nat /\ w \in Members /\ t \in Nat
    <2>1. l \in Nat /\ l > 0
        BY <1>1, <1>2 DEF Fields
    <2>2. less \in Nat
        BY <1>3, <2>1
    <2> QED
        BY <1>2, <2>2 DEF Fields
<1>9. PICK rec, to, th :
          /\ Becomes(s, rec) /\ rec = Rec(to, w, less, q, fs, chained, c, th, sg)
          /\ to \in {"upvoted", "voted", "emojis"} /\ th \in Nat /\ th <= maxCreatePostStimuli
    <2>1. ASSUME NEW to \in {"upvoted", "voted", "emojis"}, Becomes(s, NowAt(d, to))
          PROVE  Becomes(s, Rec(to, w, less, q, fs, chained, c, t, sg)) /\ t <= maxCreatePostStimuli
        <3>1. NowAt(Rec(a, w, less, q, fs, chained, c, t, sg), to) = Rec(to, w, less, q, fs, chained, c, t, sg)
            BY RecAt
        <3> QED
            BY <1>2, <1>7, <2>1, <3>1 DEF Fields
    <2>2. ASSUME t < maxCreatePostStimuli, Becomes(s, [d EXCEPT !.at = "emojis", !.thoughts = @ + 1])
          PROVE  /\ Becomes(s, Rec("emojis", w, less, q, fs, chained, c, t + 1, sg))
                 /\ t + 1 \in Nat /\ t + 1 <= maxCreatePostStimuli
        <3>1. PICK th : th = t + 1
            OBVIOUS
        <3>2. d.thoughts = t
            BY <1>7 DEF Rec
        <3>3. Becomes(s, Thinking(d, "emojis", th))
            BY <2>2, <3>1, <3>2 DEF Thinking
        <3>4. Thinking(Rec(a, w, less, q, fs, chained, c, t, sg), "emojis", th)
              = Rec("emojis", w, less, q, fs, chained, c, th, sg)
            BY RecThinks
        <3>5. Becomes(s, Rec("emojis", w, less, q, fs, chained, c, th, sg))
            BY <1>7, <3>3, <3>4
        <3> QED
            BY <1>8, <2>2, <3>1, <3>5, BrowsingAssumption
    <2>3. \/ \E to \in {"upvoted", "voted", "emojis"} : Becomes(s, NowAt(d, to))
          \/ t < maxCreatePostStimuli /\ Becomes(s, [d EXCEPT !.at = "emojis", !.thoughts = @ + 1])
        BY <1>4, <1>6
    <2> QED
        BY <1>8, <2>1, <2>2, <2>3
<1>10. Fields(to, w, less, q, fs, chained, c, th, sg)
    BY <1>2, <1>8, <1>9 DEF Fields, Places
<1>11. SessionOK(rec) /\ rec.at # "idle" /\ rec.who = w
    BY <1>9, <1>10, RecOK
<1>12. EngagementOK' /\ \A n \in Members : recent'[n]["browse"] = recent[n]["browse"]
    BY <1>1, <1>5, <1>8, RecordEngagementKeeps DEF BrowsingInd, pastVars
<1>13. EmojisOK' /\ together' = together
    BY <1>1 DEF BrowsingInd, EmojisOK, emojiVars, pastVars
<1> QED
    BY <1>1, <1>2, <1>9, <1>11, <1>12, <1>13, SessionStepKeeps

(* From outside a session.                                                 *)
LEMMA EngagesKeeps ==
    ASSUME BrowsingInd, NEW m \in Members, NEW p \in Feed, Engages(m, p)
    PROVE  BrowsingInd'
<1>1. PICK type : RecordEngagement(m, p, type)
    BY DEF Engages
<1>2. UNCHANGED <<emojiVars, session, pastVars>>
    BY DEF Engages
<1>3. EngagementOK' /\ \A n \in Members : recent'[n]["browse"] = recent[n]["browse"]
    BY <1>1, <1>2, RecordEngagementKeeps DEF BrowsingInd, pastVars
<1>4. \A n \in Members : Under(n)' = Under(n)
    BY <1>2 DEF Under
<1>5. SessionsOK' /\ EmojisOK'
    BY <1>2 DEF BrowsingInd, SessionsOK, SessionOK, EmojisOK, emojiVars
<1>6. BrowsingBounded'
    BY <1>2, <1>3, <1>4 DEF BrowsingInd, BrowsingBounded, pastVars
<1> QED
    BY <1>3, <1>5, <1>6 DEF BrowsingInd

LEMMA ReactsToPostKeeps ==
    ASSUME BrowsingInd, NEW m \in Members, NEW p \in Feed, NEW e \in Emojis, ReactsToPost(m, p, e)
    PROVE  BrowsingInd'
<1>1. UNCHANGED <<recent, keys, tally, session, pastVars>>
    BY DEF ReactsToPost
<1>2. EmojisOK'
    BY RecordEmojiKeeps DEF ReactsToPost, BrowsingInd
<1>3. \A n \in Members : Under(n)' = Under(n)
    BY <1>1 DEF Under
<1>4. SessionsOK' /\ EngagementOK'
    BY <1>1 DEF BrowsingInd, SessionsOK, SessionOK, EngagementOK, pastVars
<1>5. BrowsingBounded'
    BY <1>1, <1>3 DEF BrowsingInd, BrowsingBounded, pastVars
<1> QED
    BY <1>2, <1>4, <1>5 DEF BrowsingInd

LEMMA BrowsingStep == BrowsingInd /\ [BrowsingNext]_browsingVars => BrowsingInd'
<1> SUFFICES ASSUME BrowsingInd, [BrowsingNext]_browsingVars PROVE BrowsingInd'
    OBVIOUS
<1>1. CASE UNCHANGED browsingVars
    <2>1. UNCHANGED <<recent, keys, tally, reactors, reactions, session, expired, together>>
        BY <1>1 DEF browsingVars, engageVars, emojiVars, pastVars
    <2>2. \A n \in Members : Under(n)' = Under(n)
        BY <2>1 DEF Under
    <2>3. SessionsOK' /\ EngagementOK' /\ EmojisOK'
        BY <2>1 DEF BrowsingInd, SessionsOK, SessionOK, EngagementOK, EmojisOK
    <2>4. BrowsingBounded'
        BY <2>1, <2>2 DEF BrowsingInd, BrowsingBounded
    <2> QED
        BY <2>3, <2>4 DEF BrowsingInd
<1>2. ASSUME NEW m \in Members, NEW p \in Feed,
             Engages(m, p) \/ \E e \in Emojis : ReactsToPost(m, p, e)
      PROVE  BrowsingInd'
    BY <1>2, EngagesKeeps, ReactsToPostKeeps
<1>3. ASSUME NEW m \in Members, NEW x \in Limited, WindowSlides(m, x) PROVE BrowsingInd'
    BY <1>3, WindowSlidesKeeps
<1>4. ASSUME NEW m \in Members, NEW s \in Sessions, BrowseBegins(s, m) PROVE BrowsingInd'
    BY <1>4, BrowseBeginsKeeps
<1>5. ASSUME NEW k \in keys, KeyExpires(k) PROVE BrowsingInd'
    BY <1>5, KeyExpiresKeeps
<1>6. ASSUME NEW s \in Sessions,
             \/ Decides(s) \/ Boosts(s) \/ Comments(s) \/ EmojisSkipped(s) \/ GivesEmoji(s)
             \/ EmojisGiven(s) \/ Reflects(s) \/ BrowseEnds(s)
      PROVE  BrowsingInd'
    BY <1>6, DecidesKeeps, BoostsKeeps, CommentsKeeps, EmojisSkippedKeeps, GivesEmojiKeeps,
       EmojisGivenKeeps, ReflectsKeeps, BrowseEndsKeeps
<1> QED
    BY <1>1, <1>2, <1>3, <1>4, <1>5, <1>6 DEF BrowsingNext

(* What the network promises about engagement, for any number of agents,   *)
(* posts and overlapping browsing sessions: RecordEngagement and           *)
(* RecordEmojiReaction keep an agent within its rate limits and count it   *)
(* once per post, a session keeps its budgets, and the counted sessions    *)
(* exceed their limit by no more than those that overlapped.               *)
THEOREM BrowsingWithinLimits == BrowsingSpec => []BrowsingInv
<1>1. BrowsingInit => BrowsingInd
    BY BrowsingInitial
<1>2. BrowsingInd /\ [BrowsingNext]_browsingVars => BrowsingInd'
    BY BrowsingStep
<1>3. BrowsingInd => BrowsingInv
    BY BrowsingHolds
<1> QED
    BY <1>1, <1>2, <1>3, PTL DEF BrowsingSpec

-----------------------------------------------------------------------------
(* Conversations, permission prompts and folder grants.                    *)

(* The strengthening of the invariants of ToolTurn.  The turn itself: a    *)
(* checkpoint is put only where another round is left.                     *)
TurnOK ==
    /\ mode \in [streaming : BOOLEAN, skip : BOOLEAN, failClosed : BOOLEAN,
                 checkpoint : BOOLEAN, config : Configs]
    /\ at \in Stages /\ turns \in 0..MaxTurns /\ round \in 0..MaxRounds
    /\ aborted \in BOOLEAN /\ garbled \in BOOLEAN
    /\ asked \in 0..MaxCalls /\ taken \in Nat /\ answered \in Nat
    /\ orphans \in Nat /\ replies \in Nat
    /\ CountsOK /\ CallsAnswered
    /\ at = "checkpoint" => round < MaxRounds

(* The call being worked on: what an agreement covers, and what the stages *)
(* past the permission prompt and past the guardrails may take as given.   *)
CallOK ==
    /\ agreed \in BOOLEAN
    /\ IF AtCall THEN call \in Calls ELSE call = NoCall /\ ~ agreed
    /\ agreed => (call.paths \X Wanted(call)) \subseteq consents
    /\ at \in {"guardrails", "folders", "executing"} /\ call.tier = 3 /\ ~ mode.skip => agreed
    /\ at = "folders" => Denied(call) \cap Protected = {}
    /\ at = "request" => call.paths \cap Protected = {}

FoldersOK ==
    /\ rules \in Seq(Rules)
    /\ grants \subseteq Paths \X Ops /\ consents \subseteq Paths \X Ops
    /\ GrantsMatchConsent

ToolInd == TurnOK /\ CallOK /\ FoldersOK /\ OnlyConsentedCallsRun

LEMMA ToolHolds == ToolInd => ToolTurnInv /\ OnlyConsentedCallsRun /\ GrantsMatchConsent
BY DEF ToolInd, TurnOK, CallOK, FoldersOK, ToolTurnInv, TurnTypeOK

LEMMA ToolInitial == ToolInit => ToolInd
<1> SUFFICES ASSUME ToolInit PROVE ToolInd
    OBVIOUS
<1>1. /\ mode \in [streaming : BOOLEAN, skip : BOOLEAN, failClosed : BOOLEAN,
                   checkpoint : BOOLEAN, config : Configs]
      /\ turns = 0 /\ at = "idle" /\ round = 0 /\ aborted = FALSE
      /\ asked = 0 /\ taken = 0 /\ answered = 0 /\ orphans = 0 /\ replies = 0 /\ garbled = FALSE
      /\ call = NoCall /\ agreed = FALSE
      /\ rules = mode.config.rules /\ grants = {} /\ consents = {}
    BY DEF ToolInit
<1>2. TurnOK
    <2>1. aborted \in BOOLEAN /\ garbled \in BOOLEAN
        BY <1>1
    <2>2. /\ at \in Stages /\ turns \in 0..MaxTurns /\ round \in 0..MaxRounds
          /\ asked \in 0..MaxCalls /\ taken \in Nat /\ answered \in Nat
          /\ orphans \in Nat /\ replies \in Nat
        BY <1>1, ToolTurnAssumption DEF Stages
    <2>3. CountsOK /\ CallsAnswered
        BY <1>1 DEF CountsOK, CallsAnswered, AtCall
    <2> QED
        BY <1>1, <2>1, <2>2, <2>3 DEF TurnOK
<1>3. CallOK
    BY <1>1 DEF CallOK, AtCall
<1>4. FoldersOK
    <2>1. mode.config \in [rules : Seq(Rules), open : SUBSET (Paths \X Ops)]
        BY <1>1, ToolTurnAssumption
    <2> QED
        BY <1>1, <2>1 DEF FoldersOK, GrantsMatchConsent
<1>5. OnlyConsentedCallsRun
    BY <1>1 DEF OnlyConsentedCallsRun
<1> QED
    BY <1>2, <1>3, <1>4, <1>5 DEF ToolInd

-----------------------------------------------------------------------------
(* Ways a stage is left.                                                   *)
LEMMA EndsKeeps ==
    ASSUME TurnOK, NEW pushed, NEW said, pushed \in {0, 1}, said \in Nat, Ends(pushed, said),
           mode' = mode, garbled' \in BOOLEAN, answered + pushed <= asked,
           answered + pushed < asked => mode.failClosed \/ mode.streaming
    PROVE  TurnOK'
<1>1. /\ at' = "idle" /\ round' = 0 /\ aborted' = FALSE /\ turns' = turns
      /\ orphans' = orphans + (asked - answered - pushed)
      /\ replies' = replies + said
      /\ asked' = 0 /\ taken' = 0 /\ answered' = 0
    BY DEF Ends
<1>2. orphans' \in Nat /\ (orphans' > 0 => mode.failClosed \/ mode.streaming)
    BY <1>1 DEF TurnOK, CallsAnswered
<1>3. aborted' \in BOOLEAN
    BY <1>1
<1>4. /\ at' \in Stages /\ turns' \in 0..MaxTurns /\ round' \in 0..MaxRounds
      /\ asked' \in 0..MaxCalls /\ taken' \in Nat /\ answered' \in Nat /\ replies' \in Nat
    BY <1>1, ToolTurnAssumption DEF TurnOK, Stages
<1>5. CountsOK'
    BY <1>1 DEF CountsOK, AtCall
<1>6. CallsAnswered'
    BY <1>1, <1>2 DEF CallsAnswered
<1> QED
    BY <1>1, <1>2, <1>3, <1>4, <1>5, <1>6 DEF TurnOK

LEMMA AnsweredKeeps ==
    ASSUME TurnOK, Answered, AtCall \/ at = "next", taken < asked, mode' = mode, garbled' \in BOOLEAN
    PROVE  TurnOK'
BY DEF TurnOK, Answered, Goes, Stages, CountsOK, CallsAnswered, AtCall

LEMMA FailedKeeps ==
    ASSUME TurnOK, NEW said, said \in Nat, Failed(said), AtCall \/ at = "next", taken < asked,
           mode' = mode, garbled' \in BOOLEAN
    PROVE  TurnOK'
<1>1. CASE mode.failClosed
    <2>1. answered + 1 <= asked
        BY DEF TurnOK, CountsOK
    <2> QED
        BY <1>1, <2>1, EndsKeeps DEF Failed
<1>2. CASE ~ mode.failClosed
    BY <1>2, AnsweredKeeps DEF Failed
<1> QED
    BY <1>1, <1>2

(* A turn that ends and a call that is done leave no call behind.          *)
LEMMA CallDone ==
    ASSUME ToolInd, at' \in {"idle", "next"}, call' = NoCall, agreed' = FALSE,
           mode' = mode, UNCHANGED folderVars
    PROVE  CallOK' /\ FoldersOK' /\ OnlyConsentedCallsRun'
<1>1. CallOK' /\ OnlyConsentedCallsRun'
    BY DEF CallOK, AtCall, OnlyConsentedCallsRun
<1>2. FoldersOK'
    BY DEF ToolInd, FoldersOK, folderVars, GrantsMatchConsent, Allowed, Opened
<1> QED
    BY <1>1, <1>2

LEMMA EndsDone ==
    ASSUME NEW pushed, NEW said, Ends(pushed, said)
    PROVE  at' = "idle" /\ call' = NoCall /\ agreed' = FALSE
BY DEF Ends

LEMMA FailedDone ==
    ASSUME NEW said, Failed(said)
    PROVE  at' \in {"idle", "next"} /\ call' = NoCall /\ agreed' = FALSE
BY DEF Failed, Ends, Answered, Goes

(* Where no call is worked on, the turn moves and nothing else.            *)
LEMMA TurnMoves ==
    ASSUME ToolInd, ~ AtCall, UNCHANGED <<callVars, folderVars, mode>>, ~ AtCall'
    PROVE  CallOK' /\ FoldersOK' /\ OnlyConsentedCallsRun'
<1>1. CallOK' /\ OnlyConsentedCallsRun'
    BY DEF ToolInd, CallOK, AtCall, OnlyConsentedCallsRun, callVars
<1>2. FoldersOK'
    BY DEF ToolInd, FoldersOK, folderVars, GrantsMatchConsent, Allowed, Opened
<1> QED
    BY <1>1, <1>2

-----------------------------------------------------------------------------
(* The turn between two calls.                                             *)
LEMMA UserSpeaksKeeps == ASSUME ToolInd, UserSpeaks PROVE ToolInd'
<1>1. /\ at = "idle" /\ turns < MaxTurns /\ turns' = turns + 1
      /\ at' \in {"asking", "idle"} /\ round' \in {0, 1} /\ replies' \in {0, 1}
      /\ UNCHANGED <<mode, aborted, asked, taken, answered, orphans, garbled, callVars, folderVars>>
    BY DEF UserSpeaks
<1>2. CallOK' /\ FoldersOK' /\ OnlyConsentedCallsRun'
    BY <1>1, TurnMoves DEF AtCall
<1>3. asked = 0 /\ answered = 0 /\ taken = 0
    BY <1>1 DEF ToolInd, TurnOK, CountsOK
<1>4. /\ turns' \in 0..MaxTurns /\ round' \in 0..MaxRounds /\ replies' \in Nat /\ at' \in Stages
    BY <1>1, ToolTurnAssumption DEF ToolInd, TurnOK, Stages
<1>5. CountsOK' /\ CallsAnswered'
    BY <1>1, <1>3 DEF ToolInd, TurnOK, CountsOK, CallsAnswered, AtCall
<1>6. TurnOK'
    BY <1>1, <1>4, <1>5 DEF ToolInd, TurnOK
<1> QED
    BY <1>2, <1>6 DEF ToolInd

LEMMA AbortKeeps == ASSUME ToolInd, Abort PROVE ToolInd'
<1>1. /\ mode.streaming /\ aborted' = TRUE
      /\ UNCHANGED <<mode, turns, at, round, talkVars, callVars, folderVars>>
    BY DEF Abort
<1>2. TurnOK'
    BY <1>1 DEF ToolInd, TurnOK, CountsOK, CallsAnswered, AtCall, talkVars
<1>3. CallOK'
    BY <1>1 DEF ToolInd, CallOK, AtCall, callVars, folderVars, Denied, Allowed
<1>4. FoldersOK'
    BY <1>1 DEF ToolInd, FoldersOK, folderVars, GrantsMatchConsent, Allowed, Opened
<1>5. OnlyConsentedCallsRun'
    BY <1>1 DEF ToolInd, OnlyConsentedCallsRun, callVars, folderVars, Allowed
<1> QED
    BY <1>2, <1>3, <1>4, <1>5 DEF ToolInd

(* A turn that ends with every call answered, or cut short by a barge-in.  *)
LEMMA TurnEndsKeeps ==
    ASSUME ToolInd, NEW said, said \in Nat, Ends(0, said), UNCHANGED <<mode, garbled, folderVars>>,
           answered = asked \/ aborted
    PROVE  ToolInd'
<1>1. /\ answered + 0 <= asked /\ garbled' \in BOOLEAN
      /\ answered + 0 < asked => mode.failClosed \/ mode.streaming
    BY DEF ToolInd, TurnOK, CountsOK
<1>2. TurnOK'
    BY <1>1, EndsKeeps DEF ToolInd
<1>3. CallOK' /\ FoldersOK' /\ OnlyConsentedCallsRun'
    BY EndsDone, CallDone
<1> QED
    BY <1>2, <1>3 DEF ToolInd

LEMMA AskingKeeps ==
    ASSUME ToolInd, ModelReplies \/ ModelFails \/ StreamAborted \/ AbortedBetweenCalls
    PROVE  ToolInd'
<1>1. /\ at = "asking" \/ aborted
      /\ UNCHANGED <<mode, garbled, folderVars>>
      /\ \E said \in {0, 1} : Ends(0, said)
    BY DEF ModelReplies, ModelFails, StreamAborted, AbortedBetweenCalls, Partial
<1>2. answered = asked \/ aborted
    BY <1>1 DEF ToolInd, TurnOK, CallsAnswered
<1> QED
    BY <1>1, <1>2, TurnEndsKeeps

LEMMA ModelCallsKeeps == ASSUME ToolInd, ModelCalls PROVE ToolInd'
<1>1. /\ at = "asking" /\ at' = "next" /\ UNCHANGED <<turns, round, aborted>>
      /\ asked' \in 1..MaxCalls /\ taken' = 0 /\ answered' = 0
      /\ UNCHANGED <<mode, orphans, replies, garbled, callVars, folderVars>>
    BY DEF ModelCalls, Goes
<1>2. CallOK' /\ FoldersOK' /\ OnlyConsentedCallsRun'
    BY <1>1, TurnMoves DEF AtCall
<1>3. CountsOK' /\ CallsAnswered' /\ asked' \in 0..MaxCalls /\ at' \in Stages
    BY <1>1, ToolTurnAssumption DEF ToolInd, TurnOK, CountsOK, CallsAnswered, AtCall, Stages
<1>4. TurnOK'
    BY <1>1, <1>3 DEF ToolInd, TurnOK
<1> QED
    BY <1>2, <1>4 DEF ToolInd

(* The model is asked again, or the operator first.                        *)
LEMMA GoesOnKeeps ==
    ASSUME ToolInd, at \in {"next", "checkpoint"}, taken = asked, round < MaxRounds,
           AskModel \/ Goes("checkpoint"),
           UNCHANGED <<asked, taken, answered, orphans, replies, callVars, mode, garbled, folderVars>>
    PROVE  ToolInd'
<1>1. CallOK' /\ FoldersOK' /\ OnlyConsentedCallsRun'
    BY TurnMoves DEF AtCall, AskModel, Goes
<1>2. /\ at' \in {"asking", "checkpoint"} /\ UNCHANGED <<turns, aborted>>
      /\ round' \in 0..MaxRounds
      /\ at' = "checkpoint" => round' < MaxRounds
    BY ToolTurnAssumption DEF AskModel, Goes, ToolInd, TurnOK
<1>3. CountsOK' /\ CallsAnswered' /\ at' \in Stages
    BY <1>2 DEF ToolInd, TurnOK, CountsOK, CallsAnswered, AtCall, Stages
<1>4. TurnOK'
    BY <1>2, <1>3 DEF ToolInd, TurnOK
<1> QED
    BY <1>1, <1>4 DEF ToolInd

LEMMA RoundOverKeeps == ASSUME ToolInd, RoundOver PROVE ToolInd'
<1>1. /\ at = "next" /\ taken = asked /\ UNCHANGED <<mode, garbled, folderVars>>
      /\ \/ \E said \in {0, 1} : Ends(0, said)
         \/ /\ round < MaxRounds
            /\ AskModel \/ Goes("checkpoint")
            /\ UNCHANGED <<asked, taken, answered, orphans, replies, callVars>>
    BY DEF RoundOver, Partial
<1>2. answered = asked
    BY <1>1 DEF ToolInd, TurnOK, CountsOK
<1> QED
    BY <1>1, <1>2, TurnEndsKeeps, GoesOnKeeps

LEMMA CheckpointAnsweredKeeps == ASSUME ToolInd, CheckpointAnswered PROVE ToolInd'
<1>1. /\ at = "checkpoint" /\ UNCHANGED <<mode, garbled, folderVars>>
      /\ \/ AskModel /\ UNCHANGED <<asked, taken, answered, orphans, replies, callVars>>
         \/ Ends(0, 0)
    BY DEF CheckpointAnswered
<1>2. answered = asked /\ taken = asked /\ round < MaxRounds
    BY <1>1 DEF ToolInd, TurnOK, CountsOK, CallsAnswered
<1> QED
    BY <1>1, <1>2, TurnEndsKeeps, GoesOnKeeps

-----------------------------------------------------------------------------
(* A call that is done, with its tool message or not.                      *)
LEMMA CallFailsKeeps ==
    ASSUME ToolInd, NEW said, said \in Nat, Failed(said) \/ Answered, AtCall \/ at = "next", taken < asked,
           mode' = mode, garbled' \in BOOLEAN, UNCHANGED folderVars
    PROVE  ToolInd'
<1>1. TurnOK'
    BY FailedKeeps, AnsweredKeeps DEF ToolInd
<1>2. at' \in {"idle", "next"} /\ call' = NoCall /\ agreed' = FALSE
    BY FailedDone DEF Answered, Goes
<1>3. CallOK' /\ FoldersOK' /\ OnlyConsentedCallsRun'
    BY <1>2, CallDone
<1> QED
    BY <1>1, <1>3 DEF ToolInd

LEMMA PayloadIs == ASSUME TurnOK, Payload PROVE garbled' \in BOOLEAN
BY DEF TurnOK, Payload

(* The turn stays with a call and goes on to another stage of it.          *)
LEMMA StageKeeps ==
    ASSUME TurnOK, NEW stage, stage \in {"permission", "guardrails", "folders", "executing", "request"},
           Goes(stage), taken < asked, UNCHANGED <<mode, talkVars>>
    PROVE  TurnOK'
BY DEF TurnOK, Goes, Stages, CountsOK, CallsAnswered, AtCall, talkVars

LEMMA NextCallKeeps == ASSUME ToolInd, NextCall PROVE ToolInd'
<1>1. /\ at = "next" /\ taken < asked /\ UNCHANGED <<mode, garbled, folderVars>>
    BY DEF NextCall
<1>2. PICK c \in Calls :
         IF c.tool = "unknown" THEN Failed(1)
         ELSE /\ Goes(IF c.tier = 3 /\ ~mode.skip THEN "permission" ELSE "guardrails")
              /\ call' = c
              /\ UNCHANGED <<asked, taken, answered, orphans, replies, agreed>>
    BY DEF NextCall
<1>3. garbled' \in BOOLEAN
    BY <1>1 DEF ToolInd, TurnOK
<1>4. CASE Failed(1)
    BY <1>1, <1>3, <1>4, CallFailsKeeps
<1>5. CASE /\ Goes(IF c.tier = 3 /\ ~mode.skip THEN "permission" ELSE "guardrails")
           /\ call' = c
           /\ UNCHANGED <<asked, taken, answered, orphans, replies, agreed>>
    <2>1. PICK stage \in {"permission", "guardrails"} :
             Goes(stage) /\ (stage = "guardrails" => ~ (c.tier = 3 /\ ~mode.skip))
        BY <1>5
    <2>2. TurnOK'
        BY <1>1, <1>5, <2>1, StageKeeps DEF ToolInd, talkVars
    <2>3. CallOK' /\ OnlyConsentedCallsRun'
        BY <1>1, <1>5, <2>1 DEF ToolInd, CallOK, AtCall, OnlyConsentedCallsRun, Goes
    <2>4. FoldersOK'
        BY <1>1 DEF ToolInd, FoldersOK, folderVars, GrantsMatchConsent, Allowed, Opened
    <2> QED
        BY <2>2, <2>3, <2>4 DEF ToolInd
<1> QED
    BY <1>2, <1>4, <1>5

-----------------------------------------------------------------------------
(* Folder rules: a rule that is pushed is tried last.                      *)
LEMMA RulesAppended ==
    ASSUME NEW rs \in Seq(Rules), NEW r, NEW f, NEW how
    PROVE  /\ RuleAllows(Append(rs, r), f, how) => RuleAllows(rs, f, how) \/ (f \in r.covers /\ how \in r.ops)
           /\ Matched(rs, f) => Matched(Append(rs, r), f)
<1> DEFINE more == Append(rs, r)
<1>1. /\ DOMAIN rs = 1..Len(rs) /\ DOMAIN more = 1..(Len(rs) + 1) /\ Len(rs) \in Nat
      /\ more[Len(rs) + 1] = r
      /\ \A i \in 1..Len(rs) : more[i] = rs[i]
    OBVIOUS
<1> HIDE DEF more
<1>2. ASSUME RuleAllows(more, f, how)
      PROVE  RuleAllows(rs, f, how) \/ (f \in r.covers /\ how \in r.ops)
    <2>1. PICK i \in 1..(Len(rs) + 1) :
              /\ f \in more[i].covers /\ how \in more[i].ops
              /\ \A j \in 1..(i - 1) : f \notin more[j].covers
        BY <1>1, <1>2 DEF RuleAllows
    <2>2. CASE i = Len(rs) + 1
        BY <1>1, <2>1, <2>2
    <2>3. CASE i \in 1..Len(rs)
        <3>1. \A j \in 1..(i - 1) : j \in 1..Len(rs)
            BY <1>1, <2>3
        <3> QED
            BY <1>1, <2>1, <2>3, <3>1 DEF RuleAllows
    <2> QED
        BY <1>1, <2>2, <2>3
<1>3. Matched(rs, f) => Matched(more, f)
    BY <1>1 DEF Matched
<1> QED
    BY <1>2, <1>3 DEF more

(* A grant for unprotected paths the user agreed to keeps the folders as   *)
(* they should be, and opens those paths to the call.                      *)
LEMMA GrantKeeps ==
    ASSUME FoldersOK, NEW c \in Calls, NEW ps \in SUBSET Paths, NEW Where \in [Paths -> SUBSET Paths],
           \A p \in Paths : Where[p] \subseteq Scope(p),
           Grant(c, ps, Where), ps \cap Protected = {}, mode' = mode,
           consents' \subseteq Paths \X Ops, consents \subseteq consents',
           ~ mode.skip => (ps \X Wanted(c)) \subseteq consents'
    PROVE  FoldersOK'
<1>1. PICK new : new = [covers |-> UNION {Where[p] : p \in ps}, ops |-> Wanted(c)]
    OBVIOUS
<1>2. rules' = Append(rules, new) /\ grants' = grants \cup (ps \X Wanted(c))
    BY <1>1 DEF Grant
<1>3. Wanted(c) \subseteq Ops
    BY DEF Wanted, Calls, Ops
<1>4. new.covers = UNION {Where[p] : p \in ps} /\ new.ops = Wanted(c)
    BY <1>1
<1>5. new \in Rules
    <2>1. UNION {Where[p] : p \in ps} \in SUBSET Paths
        OBVIOUS
    <2> QED
        BY <1>1, <1>3, <2>1 DEF Rules
<1>6. rules' \in Seq(Rules) /\ grants' \subseteq Paths \X Ops
    BY <1>2, <1>3, <1>5 DEF FoldersOK
<1>7. ASSUME NEW g \in grants' PROVE g[1] \notin Protected /\ (mode.skip \/ g \in consents')
    <2>1. CASE g \in grants
        BY <2>1 DEF FoldersOK, GrantsMatchConsent
    <2>2. CASE g \in ps \X Wanted(c)
        BY <2>2
    <2> QED
        BY <1>2, <2>1, <2>2
<1>8. ASSUME NEW p \in Paths \ Protected, NEW how \in Ops, Allowed(rules', p, how)
      PROVE  Allowed(mode.config.rules, p, how) \/ \E g \in grants' : p \in Scope(g[1]) /\ how = g[2]
    <2>1. CASE Allowed(rules, p, how)
        BY <1>2, <2>1 DEF FoldersOK, GrantsMatchConsent, Opened
    <2>2. CASE p \in new.covers /\ how \in new.ops
        <3>1. PICK q \in ps : p \in Where[q]
            BY <1>4, <2>2
        <3>2. <<q, how>> \in grants' /\ p \in Scope(q)
            BY <1>2, <1>4, <2>2, <3>1
        <3> QED
            BY <3>2
    <2>3. RuleAllows(rules', p, how) => RuleAllows(rules, p, how) \/ (p \in new.covers /\ how \in new.ops)
        BY <1>2, RulesAppended DEF FoldersOK
    <2>4. Matched(rules, p) => Matched(rules', p)
        BY <1>2, RulesAppended DEF FoldersOK
    <2> QED
        BY <1>8, <2>1, <2>2, <2>3, <2>4 DEF Allowed
<1>9. GrantsMatchConsent'
    <2>1. \A p \in Paths, how \in Ops : Allowed(rules, p, how)' <=> Allowed(rules', p, how)
        BY DEF Allowed
    <2>2. \A p \in Paths, how \in Ops : Allowed(mode.config.rules, p, how)' <=> Allowed(mode.config.rules, p, how)
        BY DEF Allowed
    <2> QED
        BY <1>7, <1>8, <2>1, <2>2 DEF GrantsMatchConsent, Opened
<1> QED
    BY <1>6, <1>9 DEF FoldersOK

(* What the guardrails let through was open before, or is granted now.     *)
LEMMA ExecutingKeeps ==
    ASSUME ToolInd, FoldersOK', at' = "executing", UNCHANGED <<callVars, mode>>, call \in Calls,
           call.tier = 3 /\ ~ mode.skip => agreed, grants \subseteq grants',
           \A p \in Denied(call) : <<p, "read">> \in grants'
    PROVE  OnlyConsentedCallsRun'
<1>1. call' = call /\ agreed' = agreed /\ call'.tier = call.tier /\ mode' = mode
    BY DEF callVars
<1>2. ASSUME call.tool = "plain", NEW p \in call.paths \ Protected
      PROVE  \/ Allowed(mode.config.rules, p, call.op)
             \/ \E g \in grants' :
                   /\ p \in Scope(g[1]) /\ g[1] \notin Protected
                   /\ mode.skip \/ g \in consents'
    <2>1. p \in Paths \ Protected /\ call.op \in Ops
        BY DEF Calls
    <2>2. \A g \in grants' : g[1] \notin Protected /\ (mode.skip \/ g \in consents')
        BY <1>1 DEF FoldersOK, GrantsMatchConsent
    <2>3. CASE Allowed(rules, p, call.op)
        <3>1. Allowed(mode.config.rules, p, call.op) \/ \E g \in grants : p \in Scope(g[1])
            BY <2>1, <2>3 DEF ToolInd, FoldersOK, GrantsMatchConsent, Opened
        <3> QED
            BY <2>2, <3>1
    <2>4. CASE p \in Denied(call)
        <3>1. <<p, "read">> \in grants' /\ <<p, "read">>[1] = p
            BY <2>4
        <3>2. p \in Scope(p)
            BY <2>1, ToolTurnAssumption DEF Scope
        <3> QED
            BY <2>2, <3>1, <3>2
    <2> QED
        BY <1>2, <2>3, <2>4 DEF Denied
<1>3. (call.tier = 3 /\ ~ mode.skip => agreed)'
    BY <1>1
<1>4. (call.tool = "plain" =>
           \A p \in call.paths \ Protected :
               \/ Allowed(mode.config.rules, p, call.op)
               \/ \E g \in grants :
                     /\ p \in Scope(g[1]) /\ g[1] \notin Protected
                     /\ mode.skip \/ g \in consents)'
    <2>1. \A p : Allowed(mode.config.rules, p, call.op)' <=> Allowed(mode.config.rules, p, call.op)
        BY <1>1 DEF Allowed
    <2> QED
        BY <1>1, <1>2, <2>1
<1> QED
    BY <1>3, <1>4 DEF OnlyConsentedCallsRun

LEMMA DeniedIs == \A c \in Calls : Denied(c) \subseteq c.paths /\ c.paths \in SUBSET Paths
BY DEF Denied, Calls

LEMMA PermissionGivenKeeps == ASSUME ToolInd, PermissionGiven PROVE ToolInd'
<1>1. /\ at = "permission" /\ agreed' = TRUE /\ Goes("guardrails")
      /\ consents' = consents \cup (call.paths \X Wanted(call))
      /\ UNCHANGED <<mode, talkVars, call, rules, grants>>
    BY DEF PermissionGiven, Agree
<1>2. call \in Calls /\ taken < asked
    BY <1>1 DEF ToolInd, CallOK, AtCall, TurnOK, CountsOK
<1>3. TurnOK'
    BY <1>1, <1>2, StageKeeps DEF ToolInd
<1>4. Wanted(call)' = Wanted(call) /\ call' = call /\ at' = "guardrails"
    BY <1>1 DEF Wanted, Goes
<1>5. CallOK' /\ OnlyConsentedCallsRun'
    BY <1>1, <1>2, <1>4 DEF CallOK, AtCall, OnlyConsentedCallsRun
<1>6. Wanted(call) \subseteq Ops /\ call.paths \subseteq Paths
    BY <1>2 DEF Wanted, Calls, Ops
<1>7. FoldersOK'
    <2>1. consents' \subseteq Paths \X Ops /\ consents \subseteq consents'
        BY <1>1, <1>6 DEF ToolInd, FoldersOK
    <2> QED
        BY <1>1, <2>1 DEF ToolInd, FoldersOK, GrantsMatchConsent, Allowed, Opened
<1> QED
    BY <1>3, <1>5, <1>7 DEF ToolInd

(* The steps that end the call with a tool message of failure or success.  *)
LEMMA CallDoneKeeps ==
    ASSUME ToolInd, PermissionRefused \/ ReadsDirectory \/ FoldersRefused \/ ToolRuns \/ RequestRefused
    PROVE  ToolInd'
<1>1. AtCall /\ UNCHANGED <<mode, folderVars>> /\ (\E said \in {1, 2} : Failed(said) \/ Answered)
    BY DEF PermissionRefused, ReadsDirectory, FoldersRefused, ToolRuns, RequestRefused, AtCall
<1>2. garbled' \in BOOLEAN
    BY PayloadIs DEF PermissionRefused, ReadsDirectory, FoldersRefused, ToolRuns, RequestRefused, ToolInd, TurnOK
<1>3. taken < asked
    BY <1>1 DEF ToolInd, TurnOK, CountsOK
<1> QED
    BY <1>1, <1>2, <1>3, CallFailsKeeps

LEMMA GuardrailsKeeps == ASSUME ToolInd, Guardrails PROVE ToolInd'
<1> DEFINE D == Denied(call)
<1>1. at = "guardrails" /\ mode' = mode /\ call \in Calls /\ taken < asked
    BY DEF Guardrails, ToolInd, CallOK, AtCall, TurnOK, CountsOK
<1>2. call.tier = 3 /\ ~ mode.skip => agreed
    BY <1>1 DEF ToolInd, CallOK
<1>3. \/ D = {} /\ Goes("executing") /\ UNCHANGED <<talkVars, callVars, folderVars>>
      \/ Failed(1) /\ Payload /\ UNCHANGED folderVars
      \/ /\ D \cap Protected = {} /\ (agreed \/ mode.skip)
         /\ Goes("executing") /\ Grant(call, D, Around) /\ UNCHANGED <<talkVars, callVars, consents>>
      \/ /\ D \cap Protected = {} /\ ~ mode.skip
         /\ Goes("folders") /\ UNCHANGED <<rules, grants, talkVars, callVars, consents>>
    BY DEF Guardrails
<1> HIDE DEF D
<1>4. D \subseteq call.paths /\ D \in SUBSET Paths
    BY <1>1, DeniedIs DEF D
<1>5. CASE D = {} /\ Goes("executing") /\ UNCHANGED <<talkVars, callVars, folderVars>>
    <2>1. TurnOK'
        BY <1>1, <1>5, StageKeeps DEF ToolInd
    <2>2. FoldersOK'
        BY <1>1, <1>5 DEF ToolInd, FoldersOK, folderVars, GrantsMatchConsent, Allowed, Opened
    <2>3. CallOK'
        BY <1>1, <1>2, <1>5 DEF ToolInd, CallOK, AtCall, Goes, callVars, folderVars, Wanted
    <2>4. OnlyConsentedCallsRun'
        BY <1>1, <1>2, <1>5, <2>2, ExecutingKeeps DEF Goes, folderVars, D
    <2> QED
        BY <2>1, <2>2, <2>3, <2>4 DEF ToolInd
<1>6. CASE Failed(1) /\ Payload /\ UNCHANGED folderVars
    <2>1. garbled' \in BOOLEAN
        BY <1>6, PayloadIs DEF ToolInd
    <2> QED
        BY <1>1, <1>6, <2>1, CallFailsKeeps DEF AtCall
<1>7. CASE /\ D \cap Protected = {} /\ (agreed \/ mode.skip)
           /\ Goes("executing") /\ Grant(call, D, Around) /\ UNCHANGED <<talkVars, callVars, consents>>
    <2>1. TurnOK'
        BY <1>1, <1>7, StageKeeps DEF ToolInd
    <2>2. Around \in [Paths -> SUBSET Paths] /\ \A p \in Paths : Around[p] \subseteq Scope(p)
        BY ToolTurnAssumption DEF Scope
    <2>3. ~ mode.skip => (D \X Wanted(call)) \subseteq consents
        BY <1>4, <1>7 DEF ToolInd, CallOK
    <2>4. FoldersOK'
        <3>1. consents' \subseteq Paths \X Ops /\ consents' = consents /\ FoldersOK
            BY <1>7 DEF ToolInd, FoldersOK
        <3> QED
            BY <1>1, <1>4, <1>7, <2>2, <2>3, <3>1, GrantKeeps
    <2>5. CallOK'
        BY <1>1, <1>2, <1>7 DEF ToolInd, CallOK, AtCall, Goes, callVars, Wanted
    <2>6. grants \subseteq grants' /\ \A p \in D : <<p, "read">> \in grants'
        BY <1>7 DEF Grant, Wanted
    <2>7. OnlyConsentedCallsRun'
        BY <1>1, <1>2, <1>7, <2>4, <2>6, ExecutingKeeps DEF Goes, D
    <2> QED
        BY <2>1, <2>4, <2>5, <2>7 DEF ToolInd
<1>8. CASE /\ D \cap Protected = {} /\ ~ mode.skip
           /\ Goes("folders") /\ UNCHANGED <<rules, grants, talkVars, callVars, consents>>
    <2>1. TurnOK'
        BY <1>1, <1>8, StageKeeps DEF ToolInd
    <2>2. FoldersOK'
        BY <1>1, <1>8 DEF ToolInd, FoldersOK, GrantsMatchConsent, Allowed, Opened
    <2>3. Denied(call)' = D
        BY <1>1, <1>8 DEF callVars, Denied, Allowed, D
    <2>4. CallOK'
        BY <1>1, <1>2, <1>8, <2>3 DEF ToolInd, CallOK, AtCall, Goes, callVars, Wanted
    <2>5. OnlyConsentedCallsRun'
        BY <1>8 DEF Goes, OnlyConsentedCallsRun
    <2> QED
        BY <2>1, <2>2, <2>4, <2>5 DEF ToolInd
<1> QED
    BY <1>3, <1>5, <1>6, <1>7, <1>8

LEMMA FoldersGivenKeeps == ASSUME ToolInd, FoldersGiven PROVE ToolInd'
<1>1. /\ at = "folders" /\ Goes("executing")
      /\ Grant(call, Denied(call), Around)
      /\ consents' = consents \cup (Denied(call) \X Wanted(call))
      /\ UNCHANGED <<mode, talkVars, callVars>>
    BY DEF FoldersGiven, Agree
<1>2. /\ call \in Calls /\ taken < asked /\ Denied(call) \cap Protected = {}
      /\ call.tier = 3 /\ ~ mode.skip => agreed
    BY <1>1 DEF ToolInd, CallOK, AtCall, TurnOK, CountsOK
<1>3. Denied(call) \in SUBSET Paths /\ Wanted(call) \subseteq Ops
    BY <1>2, DeniedIs DEF Wanted, Calls, Ops
<1>4. TurnOK'
    BY <1>1, <1>2, StageKeeps DEF ToolInd
<1>5. Around \in [Paths -> SUBSET Paths] /\ \A p \in Paths : Around[p] \subseteq Scope(p)
    BY ToolTurnAssumption DEF Scope
<1>6. /\ consents' \subseteq Paths \X Ops /\ consents \subseteq consents'
      /\ (Denied(call) \X Wanted(call)) \subseteq consents'
    BY <1>1, <1>3 DEF ToolInd, FoldersOK
<1>7. FoldersOK'
    BY <1>1, <1>2, <1>3, <1>5, <1>6, GrantKeeps DEF ToolInd
<1>8. CallOK'
    BY <1>1, <1>2, <1>6 DEF ToolInd, CallOK, AtCall, Goes, callVars, Wanted
<1>9. grants \subseteq grants' /\ \A p \in Denied(call) : <<p, "read">> \in grants'
    BY <1>1 DEF Grant, Wanted
<1>10. OnlyConsentedCallsRun'
    BY <1>1, <1>2, <1>7, <1>9, ExecutingKeeps DEF Goes
<1> QED
    BY <1>4, <1>7, <1>8, <1>10 DEF ToolInd

LEMMA FolderRequestedKeeps == ASSUME ToolInd, FolderRequested PROVE ToolInd'
<1>1. at = "executing" /\ call.tool = "request" /\ UNCHANGED <<mode, folderVars>>
    BY DEF FolderRequested
<1>2. call \in Calls /\ taken < asked
    BY <1>1 DEF ToolInd, CallOK, AtCall, TurnOK, CountsOK
<1>3. PICK f \in call.paths :
          \/ (Failed(1) \/ Answered) /\ Payload
          \/ f \notin Protected /\ Goes("request") /\ UNCHANGED <<talkVars, callVars>>
    BY DEF FolderRequested
<1>4. CASE (Failed(1) \/ Answered) /\ Payload
    <2>1. garbled' \in BOOLEAN
        BY <1>4, PayloadIs DEF ToolInd
    <2> QED
        BY <1>1, <1>2, <1>4, <2>1, CallFailsKeeps DEF AtCall
<1>5. CASE f \notin Protected /\ Goes("request") /\ UNCHANGED <<talkVars, callVars>>
    <2>1. TurnOK'
        BY <1>1, <1>2, <1>5, StageKeeps DEF ToolInd
    <2>2. call.paths \cap Protected = {}
        BY <1>1, <1>2, <1>3, <1>5 DEF Calls
    <2>3. CallOK'
        BY <1>1, <1>2, <1>5, <2>2 DEF ToolInd, CallOK, AtCall, Goes, callVars, folderVars, Wanted
    <2>4. FoldersOK'
        BY <1>1 DEF ToolInd, FoldersOK, folderVars, GrantsMatchConsent, Allowed, Opened
    <2>5. OnlyConsentedCallsRun'
        BY <1>5 DEF Goes, OnlyConsentedCallsRun
    <2> QED
        BY <2>1, <2>3, <2>4, <2>5 DEF ToolInd
<1> QED
    BY <1>3, <1>4, <1>5

LEMMA RequestGivenKeeps == ASSUME ToolInd, RequestGiven PROVE ToolInd'
<1>1. /\ at = "request" /\ Grant(call, call.paths, Below)
      /\ consents' = consents \cup (call.paths \X Wanted(call))
      /\ Answered /\ Payload /\ mode' = mode
    BY DEF RequestGiven, Agree
<1>2. call \in Calls /\ taken < asked /\ call.paths \cap Protected = {}
    BY <1>1 DEF ToolInd, CallOK, AtCall, TurnOK, CountsOK
<1>3. call.paths \in SUBSET Paths /\ Wanted(call) \subseteq Ops
    BY <1>2 DEF Wanted, Calls, Ops
<1>4. garbled' \in BOOLEAN
    BY <1>1, PayloadIs DEF ToolInd
<1>5. TurnOK'
    BY <1>1, <1>2, <1>4, AnsweredKeeps DEF ToolInd, AtCall
<1>6. Below \in [Paths -> SUBSET Paths] /\ \A p \in Paths : Below[p] \subseteq Scope(p)
    BY ToolTurnAssumption DEF Scope
<1>7. /\ consents' \subseteq Paths \X Ops /\ consents \subseteq consents'
      /\ (call.paths \X Wanted(call)) \subseteq consents'
    BY <1>1, <1>3 DEF ToolInd, FoldersOK
<1>8. FoldersOK'
    BY <1>1, <1>2, <1>3, <1>6, <1>7, GrantKeeps DEF ToolInd
<1>9. CallOK' /\ OnlyConsentedCallsRun'
    BY <1>1 DEF Answered, Goes, CallOK, AtCall, OnlyConsentedCallsRun
<1> QED
    BY <1>5, <1>8, <1>9 DEF ToolInd

LEMMA ToolStep == ToolInd /\ [ToolNext]_toolVars => ToolInd'
<1> SUFFICES ASSUME ToolInd, [ToolNext]_toolVars PROVE ToolInd'
    OBVIOUS
<1>1. CASE UNCHANGED toolVars
    <2>1. UNCHANGED <<mode, turns, at, round, aborted, asked, taken, answered, orphans, replies, garbled,
                      call, agreed, rules, grants, consents>>
        BY <1>1 DEF toolVars, turnVars, talkVars, callVars, folderVars
    <2>2. TurnOK'
        BY <2>1 DEF ToolInd, TurnOK, CountsOK, CallsAnswered, AtCall
    <2>3. CallOK'
        BY <2>1 DEF ToolInd, CallOK, AtCall, Denied, Allowed
    <2>4. FoldersOK'
        BY <2>1 DEF ToolInd, FoldersOK, GrantsMatchConsent, Allowed, Opened
    <2>5. OnlyConsentedCallsRun'
        BY <2>1 DEF ToolInd, OnlyConsentedCallsRun, Allowed
    <2> QED
        BY <2>2, <2>3, <2>4, <2>5 DEF ToolInd
<1>2. CASE UserSpeaks \/ Abort \/ ModelReplies \/ ModelCalls \/ ModelFails \/ StreamAborted
           \/ AbortedBetweenCalls \/ RoundOver \/ CheckpointAnswered
    BY <1>2, UserSpeaksKeeps, AbortKeeps, AskingKeeps, ModelCallsKeeps, RoundOverKeeps, CheckpointAnsweredKeeps
<1>3. CASE NextCall \/ PermissionGiven \/ Guardrails \/ FoldersGiven \/ FolderRequested \/ RequestGiven
    BY <1>3, NextCallKeeps, PermissionGivenKeeps, GuardrailsKeeps, FoldersGivenKeeps, FolderRequestedKeeps,
       RequestGivenKeeps
<1>4. CASE PermissionRefused \/ ReadsDirectory \/ FoldersRefused \/ ToolRuns \/ RequestRefused
    BY <1>4, CallDoneKeeps
<1> QED
    BY <1>1, <1>2, <1>3, <1>4 DEF ToolNext

LEMMA ToolInvariant == ToolSpec => []ToolInd
BY ToolInitial, ToolStep, PTL DEF ToolSpec

(* For any set of paths, folder configuration and number of rounds and     *)
(* calls: a conversation keeps one tool message per call and leaves none   *)
(* unanswered where it goes on (runToolCallingTurn).                       *)
THEOREM EveryCallIsAnswered == ToolSpec => []ToolTurnInv
BY ToolHolds, ToolInvariant, PTL

(* No tool runs without the consent it needs: the user's yes to a tier 3   *)
(* call outside skip mode, and for whatever unprotected path it touches a  *)
(* rule of the initial configuration or a path the user agreed to open.    *)
THEOREM OnlyConsentedTools == ToolSpec => []OnlyConsentedCallsRun
BY ToolHolds, ToolInvariant, PTL

(* The folder rules grow only by what the user agreed to, never by a rule  *)
(* asked for a protected path, and open no unprotected path beyond the     *)
(* scope of those grants (addFolderRule of SafeGuardrails.ts).             *)
THEOREM GrantsStayInScope == ToolSpec => []GrantsMatchConsent
BY ToolHolds, ToolInvariant, PTL
=============================================================================
