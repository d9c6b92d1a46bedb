--------------------------- MODULE Authorization ----------------------------
(***************************************************************************)
(* StepUpAuthorizationManager (security/StepUpAuthorizationManager.ts): a  *)
(* tool call is classified, raised by escalation triggers, lowered by      *)
(* contextual overrides, and then let through (tier 1), let through and    *)
(* queued for review (tier 2), or put to a human (tier 3).  Requests wait  *)
(* for their humans side by side, while reviewers work on the queue and    *)
(* the statistics are read and reset.                                      *)
(***************************************************************************)
EXTENDS Integers, FiniteSets

CONSTANT Requests          \* calls of authorize

ASSUME AuthorizationAssumption == IsFiniteSet(Requests)

Tiers == 1..3
Verdicts == {"approved", "flagged", "rejected"}

VARIABLES
    config,    \* autoApproveAll; hitl: a hitlCallback was given
    req,       \* where each request is, its effective tier, what the human said
    review,    \* its item in asyncReviewQueue: reviewStatus, or out of the queue
    stats,     \* stats, with the requests per tier in byTier
    reviewed,  \* requests whose item a reviewer marked (history)
    lost       \* requests that waited at the last resetStatistics (history)

authVars == <<config, req, review, stats, reviewed, lost>>

NoStats(size) ==
    [total |-> 0, byTier |-> [t \in Tiers |-> 0], authorized |-> 0, denied |-> 0,
     pending |-> 0, queueSize |-> size]

Waiting == {r \in Requests : req[r].at = "hitl"}
InQueue(rv) == {r \in Requests : rv[r] \in {"pending"} \cup Verdicts}

AuthInit ==
    /\ config \in [autoApproveAll : BOOLEAN, hitl : BOOLEAN]
    /\ req = [r \in Requests |-> [at |-> "new", tier |-> 1, said |-> "nothing"]]
    /\ review = [r \in Requests |-> "none"]
    /\ stats = NoStats(0)
    /\ reviewed = {} /\ lost = 0

(* determineEffectiveTier: triggers that apply can only raise what         *)
(* classifyTool says, overrides that match can only lower the outcome.     *)
EffectiveTier(base, raises, lowers) ==
    CHOOSE t \in Tiers :
        LET raised == CHOOSE u \in raises \cup {base} : \A v \in raises \cup {base} : u >= v
        IN  /\ t \in lowers \cup {raised}
            /\ \A v \in lowers \cup {raised} : t <= v

Counted(t) == [stats EXCEPT !.total = @ + 1, !.byTier[t] = @ + 1]

(* Tier 1, and everything under autoApproveAll.                            *)
Autonomous(r) ==
    /\ req' = [req EXCEPT ![r] = [at |-> "authorized", tier |-> 1, said |-> "nothing"]]
    /\ stats' = [Counted(1) EXCEPT !.authorized = @ + 1]
    /\ UNCHANGED review

(* Tier 2: let through and queued.                                         *)
WithAsyncReview(r) ==
    /\ req' = [req EXCEPT ![r] = [at |-> "authorized", tier |-> 2, said |-> "nothing"]]
    /\ review' = [review EXCEPT ![r] = "pending"]
    /\ stats' = [Counted(2) EXCEPT !.authorized = @ + 1, !.queueSize = Cardinality(InQueue(review'))]

(* Tier 3: denied without a callback, else the human is asked.             *)
WithHITL(r) ==
    /\ \/ /\ ~ config.hitl
          /\ req' = [req EXCEPT ![r] = [at |-> "denied", tier |-> 3, said |-> "nothing"]]
          /\ stats' = [Counted(3) EXCEPT !.denied = @ + 1]
       \/ /\ config.hitl
          /\ req' = [req EXCEPT ![r] = [at |-> "hitl", tier |-> 3, said |-> "nothing"]]
          /\ stats' = [Counted(3) EXCEPT !.pending = @ + 1]
    /\ UNCHANGED review

Authorize(r) ==
    /\ req[r].at = "new"
    /\ IF config.autoApproveAll THEN Autonomous(r)
       ELSE \E base \in Tiers, raises, lowers \in SUBSET Tiers :
              LET t == EffectiveTier(base, raises, lowers) IN
                 \/ t = 1 /\ Autonomous(r)
                 \/ t = 2 /\ WithAsyncReview(r)
                 \/ t = 3 /\ WithHITL(r)
    /\ UNCHANGED <<config, reviewed, lost>>

(* The human decides.                                                      *)
Decided(r) ==
    /\ req[r].at = "hitl"
    /\ \/ /\ req' = [req EXCEPT ![r].at = "authorized", ![r].said = "yes"]
          /\ stats' = [stats EXCEPT !.pending = @ - 1, !.authorized = @ + 1]
       \/ /\ req' = [req EXCEPT ![r].at = "denied", ![r].said = "no"]
          /\ stats' = [stats EXCEPT !.pending = @ - 1, !.denied = @ + 1]
    /\ UNCHANGED <<config, review, reviewed, lost>>

(* Mutant: a request that failed is not taken off the pending ones.        *)
HITLFailsStillPending(r) ==
    /\ req[r].at = "hitl"
    /\ req' = [req EXCEPT ![r].at = "denied"]
    /\ stats' = [stats EXCEPT !.denied = @ + 1]
    /\ UNCHANGED <<config, review, reviewed, lost>>

(* The callback rejects, or the request for it cannot be built.            *)
HITLFails(r) ==
    /\ req[r].at = "hitl"
    /\ req' = [req EXCEPT ![r].at = "denied"]
    /\ stats' = [stats EXCEPT !.pending = @ - 1, !.denied = @ + 1]
    /\ UNCHANGED <<config, review, reviewed, lost>>

-----------------------------------------------------------------------------
(* An item can be marked again as long as it is in the queue.              *)
MarkReviewed(r) ==
    /\ r \in InQueue(review)
    /\ \E v \in Verdicts : review' = [review EXCEPT ![r] = v]
    /\ reviewed' = reviewed \cup {r}
    /\ UNCHANGED <<config, req, stats, lost>>

ClearReviewedItems ==
    /\ review' = [r \in Requests |-> IF review[r] \in Verdicts THEN "cleared" ELSE review[r]]
    /\ stats' = [stats EXCEPT !.queueSize = Cardinality(InQueue(review'))]
    /\ UNCHANGED <<config, req, reviewed, lost>>

(* The counters start anew, whoever is waiting.                            *)
ResetStatistics ==
    /\ stats' = NoStats(Cardinality(InQueue(review)))
    /\ lost' = Cardinality(Waiting)
    /\ UNCHANGED <<config, req, review, reviewed>>

AuthNext ==
    \/ \E r \in Requests : Authorize(r) \/ Decided(r) \/ HITLFails(r) \/ MarkReviewed(r)
    \/ ClearReviewedItems \/ ResetStatistics

AuthSpec == AuthInit /\ [][AuthNext]_authVars
-----------------------------------------------------------------------------
AuthTypeOK ==
    /\ config \in [autoApproveAll : BOOLEAN, hitl : BOOLEAN]
    /\ req \in [Requests -> [at : {"new", "hitl", "authorized", "denied"}, tier : Tiers,
                             said : {"nothing", "yes", "no"}]]
    /\ review \in [Requests -> {"none", "pending", "cleared"} \cup Verdicts]
    /\ stats \in [total : Nat, byTier : [Tiers -> Nat], authorized : Nat, denied : Nat,
                  pending : Int, queueSize : Nat]
    /\ reviewed \subseteq Requests /\ lost \in Nat

(* Every request counted since the last reset is authorized, denied or     *)
(* pending, however many are under way; the pending count is off by        *)
(* exactly the requests that waited when the statistics were reset.        *)
StatsBalance ==
    /\ stats.total = stats.authorized + stats.denied + stats.pending
    /\ stats.total = stats.byTier[1] + stats.byTier[2] + stats.byTier[3]
    /\ stats.pending = Cardinality(Waiting) - lost
    /\ stats.queueSize = Cardinality(InQueue(review))

(* What was let through for a later review stays in the queue until it is  *)
(* reviewed.                                                               *)
ReviewsKept ==
    \A r \in Requests :
        (req[r].at = "authorized" /\ req[r].tier = 2) =>
            review[r] = "pending" \/ r \in reviewed

(* A tier 3 request is let through by a human's yes and nothing else, and  *)
(* no human is asked for whom there is no callback.                        *)
HumansDecide ==
    \A r \in Requests :
        /\ req[r].at = "authorized" /\ req[r].tier = 3 => req[r].said = "yes"
        /\ req[r].at = "hitl" => config.hitl /\ req[r].tier = 3

(* The manager's promises: the statistics balance over overlapping         *)
(* requests and resets, no review is lost, tier 3 needs a yes.             *)
AuthorizationInv == AuthTypeOK /\ StatsBalance /\ ReviewsKept /\ HumansDecide
=============================================================================
