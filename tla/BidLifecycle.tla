---------------------------- MODULE BidLifecycle ----------------------------
(***************************************************************************)
(* autonomy/jobs/BidLifecycleManager.ts: polls for an agent's active bids  *)
(* and withdraws those whose job went to another agent.  The interval does *)
(* not wait for the last watch, so polls work through lists that overlap.   *)
(* The market (jobs, bids, who is assigned) is external; any call to it    *)
(* can fail.                                                               *)
(***************************************************************************)
EXTENDS Naturals

CONSTANTS
    Bids,               \* the agent's bids, one per job
    Watches,              \* the polls that can be under way at once: a bound
    NoBid

ASSUME BidLifecycleAssumption == NoBid \notin Bids

VARIABLES
    watching,           \* intervalId is set
    watch,               \* where each watch is, the bid it looks at and those left
    job,                \* the market: the job of each bid
    onMarket,           \* the market: each bid
    withdrawals         \* successful withdrawals per watch and bid (history); their
                        \* number is stats.totalWithdrawn

lifecycleVars == <<watching, watch, job, onMarket, withdrawals>>

Idle == [at |-> "idle", bid |-> NoBid, left |-> {}]

LifecycleInit ==
    /\ watching = FALSE
    /\ watch = [p \in Watches |-> Idle]
    /\ job = [b \in Bids |-> "open"] /\ onMarket = [b \in Bids |-> "active"]
    /\ withdrawals = [x \in Watches \X Bids |-> 0]

-----------------------------------------------------------------------------
(* The market's own moves.                                                 *)
JobAssigned(b) ==
    /\ job[b] = "open"
    /\ \E s \in {"ours", "theirs"} : job' = [job EXCEPT ![b] = s]
    /\ UNCHANGED <<watching, watch, onMarket, withdrawals>>

(* The agent that got the job hands its work in.                           *)
JobSubmitted(b) ==
    /\ \/ job[b] = "ours" /\ job' = [job EXCEPT ![b] = "ours_submitted"]
       \/ job[b] = "theirs" /\ job' = [job EXCEPT ![b] = "theirs_submitted"]
    /\ UNCHANGED <<watching, watch, onMarket, withdrawals>>

(* Completed or cancelled.                                                 *)
JobOver(b) ==
    /\ job[b] # "over"
    /\ job' = [job EXCEPT ![b] = "over"]
    /\ UNCHANGED <<watching, watch, onMarket, withdrawals>>

-----------------------------------------------------------------------------
Fetching(p) == watch' = [watch EXCEPT ![p].at = "fetching"]

StartWatching(p) ==
    /\ ~watching /\ watch[p].at = "idle"
    /\ watching' = TRUE /\ Fetching(p)
    /\ UNCHANGED <<job, onMarket, withdrawals>>

StopWatching ==
    /\ watching' = FALSE
    /\ UNCHANGED <<watch, job, onMarket, withdrawals>>

(* The interval, or checkAndWithdraw, which does not need it.              *)
PollBegins(p) ==
    /\ watch[p].at = "idle"
    /\ Fetching(p)
    /\ UNCHANGED <<watching, job, onMarket, withdrawals>>

(* The next round of the loop over the bids.                               *)
NextBid(p, left) ==
    \/ left = {} /\ watch' = [watch EXCEPT ![p] = Idle]
    \/ \E b \in left : watch' = [watch EXCEPT ![p] = [at |-> "asking", bid |-> b, left |-> left \ {b}]]

BidsFetched(p) ==
    /\ watch[p].at = "fetching"
    /\ NextBid(p, {b \in Bids : onMarket[b] = "active"})
    /\ UNCHANGED <<watching, job, onMarket, withdrawals>>

(* Mutant: an agent withdraws from its own job too.                        *)
StatusAnsweredAnyAgent(p) ==
    /\ watch[p].at = "asking"
    /\ watch' = [watch EXCEPT ![p].at =
                  CASE job[watch[p].bid] \in {"ours", "theirs"} -> "withdrawing"
                    [] job[watch[p].bid] = "over" -> "marking"
                    [] OTHER -> "next"]
    /\ UNCHANGED <<watching, job, onMarket, withdrawals>>

(* What to do with the bid is decided on the status of its job as of now,  *)
(* and done after another await.  A job whose work is handed in calls for  *)
(* nothing, also when another agent handed it in.                          *)
StatusAnswered(p) ==
    /\ watch[p].at = "asking"
    /\ watch' = [watch EXCEPT ![p].at =
                  CASE job[watch[p].bid] = "theirs" -> "withdrawing"
                    [] job[watch[p].bid] = "over" -> "marking"
                    [] OTHER -> "next"]
    /\ UNCHANGED <<watching, job, onMarket, withdrawals>>

(* The job is not found, or withdrawing or marking the bid fails: on to    *)
(* the next bid.                                                           *)
BidSkipped(p) ==
    /\ watch[p].at \in {"asking", "withdrawing", "marking"}
    /\ watch' = [watch EXCEPT ![p].at = "next"]
    /\ UNCHANGED <<watching, job, onMarket, withdrawals>>

(* Without the chain, withdrawing what was withdrawn succeeds once more.   *)
Withdrawn(p) ==
    LET b == watch[p].bid IN
    /\ watch[p].at = "withdrawing"
    /\ onMarket' = [onMarket EXCEPT ![b] = "withdrawn"]
    /\ withdrawals' = [withdrawals EXCEPT ![<<p, b>>] = @ + 1]
    /\ watch' = [watch EXCEPT ![p].at = "next"]
    /\ UNCHANGED <<watching, job>>

MarkedInactive(p) ==
    /\ watch[p].at = "marking"
    /\ onMarket' = [onMarket EXCEPT ![watch[p].bid] = IF @ = "active" THEN "inactive" ELSE @]
    /\ watch' = [watch EXCEPT ![p].at = "next"]
    /\ UNCHANGED <<watching, job, withdrawals>>

(* Mutant: the first bid that is withdrawn ends the watch.                  *)
ToNextBidOnlyOne(p) ==
    /\ watch[p].at = "next"
    /\ watch' = [watch EXCEPT ![p] = Idle]
    /\ UNCHANGED <<watching, job, onMarket, withdrawals>>

(* onWorkloadDecrement and onBidInactive have settled.                     *)
ToNextBid(p) ==
    /\ watch[p].at = "next"
    /\ NextBid(p, watch[p].left)
    /\ UNCHANGED <<watching, job, onMarket, withdrawals>>

(* fetchActiveBids or getJobStatus throws: the bids left wait for another  *)
(* watch.                                                                   *)
WatchFails(p) ==
    /\ watch[p].at \in {"fetching", "asking"}
    /\ watch' = [watch EXCEPT ![p] = Idle]
    /\ UNCHANGED <<watching, job, onMarket, withdrawals>>

-----------------------------------------------------------------------------
PollSteps(p) ==
    \/ BidsFetched(p) \/ StatusAnswered(p) \/ BidSkipped(p) \/ Withdrawn(p)
    \/ MarkedInactive(p) \/ ToNextBid(p) \/ WatchFails(p)

LifecycleNext ==
    \/ \E b \in Bids : JobAssigned(b) \/ JobSubmitted(b) \/ JobOver(b)
    \/ StopWatching
    \/ \E p \in Watches : StartWatching(p) \/ PollBegins(p) \/ PollSteps(p)

LifecycleSpec == LifecycleInit /\ [][LifecycleNext]_lifecycleVars

(* The interval fires and calls settle; the market, asked about a bid or   *)
(* told to end it again and again, does its part in the end.               *)
LifecycleFairness ==
    /\ \A p \in Watches : WF_lifecycleVars(watching /\ PollBegins(p)) /\ WF_lifecycleVars(PollSteps(p))
    /\ SF_lifecycleVars(\E p \in Watches : BidsFetched(p))
    /\ \A b \in Bids :
         /\ SF_lifecycleVars(\E p \in Watches : watch[p].bid = b /\ StatusAnswered(p))
         /\ SF_lifecycleVars(\E p \in Watches : watch[p].bid = b /\ (Withdrawn(p) \/ MarkedInactive(p)))

-----------------------------------------------------------------------------
LifecycleTypeOK ==
    /\ watching \in BOOLEAN
    /\ watch \in [Watches -> [at : {"idle", "fetching", "asking", "withdrawing", "marking", "next"},
                           bid : Bids \cup {NoBid}, left : SUBSET Bids]]
    /\ \A p \in Watches : watch[p].at \in {"idle", "fetching"} => watch[p].left = {}
    /\ \A p \in Watches : watch[p].at \in {"asking", "withdrawing", "marking"} =>
                          watch[p].bid \in Bids \ watch[p].left
    /\ job \in [Bids -> {"open", "ours", "theirs", "ours_submitted", "theirs_submitted", "over"}]
    /\ onMarket \in [Bids -> {"active", "withdrawn", "inactive"}]
    /\ withdrawals \in [Watches \X Bids -> Nat]

(* Where a job that went to another agent can have come to.                *)
Lost == {"theirs", "theirs_submitted", "over"}

(* A bid on a job that is open to us, or ours, is never withdrawn: the     *)
(* status that was answered cannot have been taken back since.             *)
OnlyLosersWithdrawn ==
    \A b \in Bids : onMarket[b] = "withdrawn" => job[b] \in Lost

(* Overlapping polls withdraw a bid, and report the agent's workload as    *)
(* smaller, once for each of them at most.                                 *)
OneWithdrawalPerPoll == \A p \in Watches, b \in Bids : withdrawals[<<p, b>>] <= 1

(* A watch about to withdraw a bid is right to, and a watch that withdrew    *)
(* one does not look at it again, because it is off the market.            *)
LosersOnly == \A p \in Watches : watch[p].at = "withdrawing" => job[watch[p].bid] \in Lost
LookedAtOnce ==
    \A p \in Watches, b \in Bids :
      withdrawals[<<p, b>>] > 0 =>
        /\ onMarket[b] = "withdrawn" /\ b \notin watch[p].left
        /\ watch[p].at \in {"asking", "withdrawing"} => watch[p].bid # b

(* The inductive invariant.                                                *)
LifecycleInv ==
    /\ LifecycleTypeOK /\ OnlyLosersWithdrawn /\ OneWithdrawalPerPoll
    /\ LosersOnly /\ LookedAtOnce

(* A bid on a job that another agent got, or that is over, leaves the      *)
(* market unless the loop is stopped, whichever calls fail for it or for   *)
(* the bids listed before it.  Once the other agent's work is handed in,   *)
(* the bid stays until the job is over.                                    *)
LosingBidEnds ==
    \A b \in Bids :
        watching /\ job[b] \in {"theirs", "over"}
        ~> ~watching \/ onMarket[b] # "active" \/ job[b] = "theirs_submitted"
=============================================================================
