----------------------------- MODULE JobScanner -----------------------------
(***************************************************************************)
(* autonomy/jobs/JobScanner.ts: scans the open jobs and bids on some.  A   *)
(* scan loop is a timer whose callback scans and sets the next timer; stop *)
(* and start during a scan leave the old loop alive beside the new one.    *)
(***************************************************************************)
EXTENDS Naturals, FiniteSets

CONSTANTS
    OpenJobs,
    Loops,              \* the scan loops that can be alive at once: a bound
    NoLoop, NoJob,      \* no timer is set; no job is looked at
    maxActiveBids

ASSUME JobScannerAssumption ==
    /\ IsFiniteSet(OpenJobs) /\ NoJob \notin OpenJobs
    /\ IsFiniteSet(Loops) /\ NoLoop \notin Loops
    /\ maxActiveBids \in Nat \ {0}

VARIABLES
    stopped,
    timerId,            \* the loop that set the timer last, also while it scans
    loop,               \* where each loop is, the job it looks at and those left
    bidJobIds,
    activeBidJobIds,
    bids,               \* how often each loop bid on each job (history)
    seeded              \* how many active bids the last seed had (history)

scannerVars == <<stopped, timerId, loop, bidJobIds, activeBidJobIds, bids, seeded>>

At(stage) == [at |-> stage, job |-> NoJob, jobs |-> {}]

ScannerInit ==
    /\ stopped = TRUE /\ timerId = NoLoop
    /\ loop = [l \in Loops |-> At("none")]
    /\ bidJobIds = {} /\ activeBidJobIds = {}
    /\ bids = [p \in Loops \X OpenJobs |-> 0] /\ seeded = 0

-----------------------------------------------------------------------------
StartScanner(l) ==
    /\ timerId = NoLoop /\ loop[l].at = "none"
    /\ stopped' = FALSE /\ timerId' = l
    /\ loop' = [loop EXCEPT ![l] = At("scheduled")]
    /\ UNCHANGED <<bidJobIds, activeBidJobIds, bids, seeded>>

(* Clears the timer that was set last, if it has not fired.                *)
StopScanner ==
    /\ stopped' = TRUE /\ timerId' = NoLoop
    /\ loop' = [l \in Loops |-> IF l = timerId /\ loop[l].at = "scheduled" THEN At("none") ELSE loop[l]]
    /\ UNCHANGED <<bidJobIds, activeBidJobIds, bids, seeded>>

(* The callback does not look at the stopped flag before it scans.         *)
ScanBegins(l) ==
    /\ loop[l].at = "scheduled"
    /\ loop' = [loop EXCEPT ![l] = At("fetching")]
    /\ UNCHANGED <<stopped, timerId, bidJobIds, activeBidJobIds, bids, seeded>>

(* Mutant: the capacity is checked once per scan.                          *)
NextJobUnchecked(l, rest) ==
    IF rest = {} THEN loop' = [loop EXCEPT ![l] = At("ending")]
    ELSE \E j \in rest : loop' = [loop EXCEPT ![l] = [at |-> "evaluating", job |-> j, jobs |-> rest \ {j}]]

(* The head of the loop over the jobs, in whatever order the list has.     *)
NextJob(l, rest) ==
    \/ /\ rest = {} \/ Cardinality(activeBidJobIds) >= maxActiveBids
       /\ loop' = [loop EXCEPT ![l] = At("ending")]
    \/ /\ Cardinality(activeBidJobIds) < maxActiveBids
       /\ \E j \in rest : loop' = [loop EXCEPT ![l] = [at |-> "evaluating", job |-> j, jobs |-> rest \ {j}]]

(* Mutant: jobs that were bid on before are not filtered out.              *)
JobsFetchedUnfiltered(l) ==
    /\ loop[l].at = "fetching"
    /\ \E list \in SUBSET OpenJobs : NextJob(l, list)
    /\ UNCHANGED <<stopped, timerId, bidJobIds, activeBidJobIds, bids, seeded>>

(* The API's list, stale or not, less the jobs bid on and the crowded ones. *)
JobsFetched(l) ==
    /\ loop[l].at = "fetching"
    /\ \E list \in SUBSET OpenJobs : NextJob(l, list \ bidJobIds)
    /\ UNCHANGED <<stopped, timerId, bidJobIds, activeBidJobIds, bids, seeded>>

(* The evaluator is in favour: the job is marked, then the bid submitted.  *)
Bid(l) ==
    LET j == loop[l].job IN
    /\ loop[l].at = "evaluating"
    /\ bidJobIds' = bidJobIds \cup {j} /\ activeBidJobIds' = activeBidJobIds \cup {j}
    /\ bids' = [bids EXCEPT ![<<l, j>>] = @ + 1]
    /\ loop' = [loop EXCEPT ![l].at = "submitting"]
    /\ UNCHANGED <<stopped, timerId, seeded>>

(* The evaluator is against the job, or the bid was submitted.             *)
JobDone(l) ==
    /\ loop[l].at \in {"evaluating", "submitting"}
    /\ NextJob(l, loop[l].jobs)
    /\ UNCHANGED <<stopped, timerId, bidJobIds, activeBidJobIds, bids, seeded>>

(* The API, the evaluator or the submission throws: the scan ends, and a   *)
(* bid that was not submitted stays marked.                                *)
ScanFails(l) ==
    /\ loop[l].at \in {"fetching", "evaluating", "submitting"}
    /\ loop' = [loop EXCEPT ![l] = At("ending")]
    /\ UNCHANGED <<stopped, timerId, bidJobIds, activeBidJobIds, bids, seeded>>

(* Mutant: the loop goes on after a stop.                                  *)
ScanEndsRegardless(l) ==
    /\ loop[l].at = "ending"
    /\ timerId' = l /\ loop' = [loop EXCEPT ![l] = At("scheduled")]
    /\ UNCHANGED <<stopped, bidJobIds, activeBidJobIds, bids, seeded>>

(* The rest of scanAndReschedule.                                          *)
ScanEnds(l) ==
    /\ loop[l].at = "ending"
    /\ IF stopped THEN timerId' = NoLoop /\ loop' = [loop EXCEPT ![l] = At("none")]
       ELSE timerId' = l /\ loop' = [loop EXCEPT ![l] = At("scheduled")]
    /\ UNCHANGED <<stopped, bidJobIds, activeBidJobIds, bids, seeded>>

(* The active bids as an indexer sees them, however many they are.         *)
SetActiveBids(S) ==
    /\ activeBidJobIds' = S /\ bidJobIds' = bidJobIds \cup S
    /\ seeded' = Cardinality(S)
    /\ UNCHANGED <<stopped, timerId, loop, bids>>

MarkBidInactive(j) ==
    /\ activeBidJobIds' = activeBidJobIds \ {j}
    /\ UNCHANGED <<stopped, timerId, loop, bidJobIds, bids, seeded>>

-----------------------------------------------------------------------------
LoopSteps(l) ==
    \/ ScanBegins(l) \/ JobsFetched(l) \/ Bid(l) \/ JobDone(l) \/ ScanFails(l) \/ ScanEnds(l)

ScannerNext ==
    \/ StopScanner
    \/ \E l \in Loops : StartScanner(l) \/ LoopSteps(l)
    \/ \E S \in SUBSET OpenJobs : SetActiveBids(S)
    \/ \E j \in OpenJobs : MarkBidInactive(j)

ScannerSpec == ScannerInit /\ [][ScannerNext]_scannerVars

(* Timers fire, and the API, the evaluator and the submission settle.      *)
ScannerFairness == \A l \in Loops : WF_scannerVars(LoopSteps(l))

-----------------------------------------------------------------------------
Alive(l) == loop[l].at # "none"
Pending(l) == loop[l].jobs \cup IF loop[l].at = "evaluating" THEN {loop[l].job} ELSE {}

ScannerTypeOK ==
    /\ stopped \in BOOLEAN /\ timerId \in Loops \cup {NoLoop}
    /\ loop \in [Loops -> [at : {"none", "scheduled", "fetching", "evaluating", "submitting", "ending"},
                           job : OpenJobs \cup {NoJob}, jobs : SUBSET OpenJobs]]
    /\ \A l \in Loops : loop[l].at \in {"evaluating", "submitting"} => loop[l].job \in OpenJobs \ loop[l].jobs
    /\ \A l \in Loops : loop[l].at \notin {"evaluating", "submitting"} => loop[l].jobs = {}
    /\ bidJobIds \subseteq OpenJobs /\ activeBidJobIds \subseteq bidJobIds
    /\ bids \in [Loops \X OpenJobs -> Nat] /\ seeded \in Nat

(* start looks at the timer and the loops look at the flag: the two agree, *)
(* however stops and starts fall into a scan, or start would refuse for    *)
(* ever, and whenever the scanner runs a loop is there to do it.           *)
RunningConsistently ==
    /\ stopped <=> timerId = NoLoop
    /\ ~stopped => Alive(timerId)

(* "Jobs this agent has ever bid on (prevents duplicate bidding)"          *)
(* (JobScanner.ts:58), as far as the code keeps it: no loop bids on a job  *)
(* twice, so that duplicates need as many overlapping loops.               *)
OneBidPerLoop == \A l \in Loops, j \in OpenJobs : bids[<<l, j>>] <= 1

(* The capacity is checked before the evaluator's await: the loops that    *)
(* passed the check can exceed it by one bid each, never by more - it, or  *)
(* the number of active bids that setActiveBids was handed last.           *)
Allowed == (IF seeded > maxActiveBids THEN seeded ELSE maxActiveBids) + Cardinality(Loops)
CapacityBounded == Cardinality(activeBidJobIds) <= Allowed

(* What a loop still has to look at it has not bid on.                     *)
NothingPendingTwice ==
    \A l \in Loops, j \in OpenJobs : bids[<<l, j>>] > 0 => j \in bidJobIds /\ j \notin Pending(l)

(* The bids that may yet be made are counted with those made.              *)
Evaluating == {l \in Loops : loop[l].at = "evaluating"}
CapacityKept == Cardinality(activeBidJobIds) + Cardinality(Evaluating) <= Allowed

(* The inductive invariant.                                                *)
ScannerInv ==
    /\ ScannerTypeOK /\ RunningConsistently
    /\ NothingPendingTwice /\ OneBidPerLoop /\ CapacityKept

(* A stopped scanner comes to rest, whatever loops stops and starts left.  *)
StoppedScannerRests == stopped ~> ~stopped \/ \A l \in Loops : ~Alive(l)
=============================================================================
